--------------------------- MODULE MCUsageReports ---------------------------
(***************************************************************************)
(* Small instances of UsageReports for TLC.                                *)
(***************************************************************************)
EXTENDS UsageReports, TLC

CONSTANTS w1, w2, g1, g2, k1, k2

\* k1 paid for both requests.
BothPaid == [g \in Generations |-> k1]
\* k1 paid for g1, nobody for g2.
OnePaid == [g \in Generations |-> IF g = g1 THEN k1 ELSE NoKey]

\* Agents of both workspaces report every request, report the same one, or
\* report one each.
EveryClaim == [w \in Workspaces |-> Generations]
OneClaim == [w \in Workspaces |-> {g1}]
OwnClaims == (w1 :> {g1}) @@ (w2 :> {g2})

Contested == {EveryClaim}
Apart == {OwnClaims}
OneOrApart == {OneClaim, OwnClaims}

\* Sound where every request and every workspace is treated alike.
Symmetry == Permutations({w1, w2}) \cup Permutations({g1, g2})

=============================================================================
