-------------------------- MODULE MCOffcutRewards --------------------------
(***************************************************************************)
(* Small instances of OffcutRewards for TLC.                               *)
(***************************************************************************)
EXTENDS OffcutRewards, TLC

CONSTANTS a1, a2, k1, k2

Symmetry == Permutations({a1, a2}) \cup Permutations({k1, k2})

=============================================================================
