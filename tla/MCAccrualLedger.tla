-------------------------- MODULE MCAccrualLedger --------------------------
(***************************************************************************)
(* Small instances of Accruals for TLC.                                    *)
(***************************************************************************)
EXTENDS Accruals, TLC

CONSTANTS a1, a2, s1, s2

Symmetry == Permutations({a1, a2}) \cup Permutations({s1, s2})

Window(since, until) == [since |-> since, until |-> until]

\* Two periods of one length, back to back.
Periods == {Window(0, 2), Window(2, 4)}

\* The same after the period length was changed: every way to overlap.
AnyWindows == Periods \cup {Window(0, 4), Window(1, 3)}

=============================================================================
