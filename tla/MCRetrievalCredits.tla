------------------------- MODULE MCRetrievalCredits -------------------------
(***************************************************************************)
(* Small instances of Recalls for TLC: three agents, the first of which    *)
(* wrote all but one of the records.                                       *)
(***************************************************************************)
EXTENDS Recalls

CONSTANTS a1, a2, a3, r1, r2, r3

MostlyOne == [r \in Records |-> IF r = r3 THEN a2 ELSE a1]

=============================================================================
