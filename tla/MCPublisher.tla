---------------------------- MODULE MCPublisher ----------------------------
(***************************************************************************)
(* Small instances of Publisher for TLC.                                   *)
(***************************************************************************)
EXTENDS PublisherInvariant, TLC

CONSTANTS a1, a2, w1, w2

\* A root over rows no ledger of ours holds.
SomebodyElsesRoot == {[address |-> NoWallet, period |-> 0, amount |-> 1]}

Quiet == [d \in Disturbances |-> 0]

\* Our own failures: crashes, throws, timeouts, a wallet that moves.
OwnFaults == [Quiet EXCEPT !["crash"] = 1, !["fail"] = 1, !["rebind"] = 1]

\* The chain moves without us, the contract is paused, calls fail.
ChainFaults == [Quiet EXCEPT !["fail"] = 2, !["foreign"] = 1, !["pause"] = 1]

\* The cursor file is lost between a crash and a restart, and a credit of
\* the period being replayed commits late.
CursorFaults == [Quiet EXCEPT !["crash"] = 1, !["rebind"] = 1,
                              !["loseCursor"] = 1, !["late"] = 1]

Disturbed == {OwnFaults, ChainFaults, CursorFaults}

\* One of everything that can go wrong, for liveness.  A wallet that moves
\* stands for a late credit too: both make a replay disagree with the ledger.
OneOfEach == {[d \in Disturbances |->
                 IF d \in {"loseCursor", "late"} THEN 0 ELSE 1]}

Symmetry == Permutations({a1, a2}) \cup Permutations({w1, w2})

=============================================================================
