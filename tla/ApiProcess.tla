----------------------------- MODULE ApiProcess -----------------------------
(***************************************************************************)
(* What the parts of the API process (apps/api) have in common: its clock  *)
(* and the bounds on what may still happen.  A scenario says how often     *)
(* each kind of thing may.                                                 *)
(***************************************************************************)
EXTENDS Naturals

CONSTANT Budgets  \* bound: the scenarios, each a number for every kind
CONSTANT None     \* where there is no value

VARIABLE now
VARIABLE budget

Left(kind) == budget[kind] > 0
Spend(kind) == budget' = [budget EXCEPT ![kind] = @ - 1]

=============================================================================
