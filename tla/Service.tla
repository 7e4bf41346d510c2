------------------------------ MODULE Service ------------------------------
(***************************************************************************)
(* The API process: the rate limiter, the doors to an account, the gate of *)
(* every operation and the live feed, each over state of its own, under    *)
(* one clock, and lost together when the process dies; and the file they   *)
(* keep their rows in, which other processes open too.  The console reads  *)
(* its reward pages from there.                                            *)
(***************************************************************************)
EXTENDS RateLimit, Accounts, Access, Feed, Bootstrap, RewardsPage

vars == <<now, budget, limiterVars, accountVars, accessVars, feedVars, bootVars, pageVars>>

Init ==
  /\ LimiterInit /\ AccountsInit /\ AccessInit /\ FeedInit /\ RewardsPageInit
  /\ now = 0 /\ budget \in Budgets /\ BootstrapInit

Tick ==
  /\ Left("tick") /\ Spend("tick") /\ now' = now + 1
  /\ UNCHANGED <<limiterVars, accountVars, accessVars, feedVars, bootVars, pageVars>>

\* What is in memory goes, what is on file stays.
Restart ==
  /\ Left("crash") /\ Spend("crash")
  /\ LimiterLost /\ AccountsLost /\ AccessLost /\ FeedLost /\ PageLost
  /\ UNCHANGED <<now, bootVars>>

Next ==
  \/ LimiterNext /\ UNCHANGED <<accountVars, accessVars, feedVars, bootVars, pageVars>>
  \/ AccountsNext /\ UNCHANGED <<limiterVars, accessVars, feedVars, bootVars, pageVars>>
  \/ AccessNext /\ UNCHANGED <<limiterVars, accountVars, feedVars, bootVars, pageVars>>
  \/ FeedNext /\ UNCHANGED <<limiterVars, accountVars, accessVars, bootVars, pageVars>>
  \/ BootstrapNext /\ UNCHANGED <<limiterVars, accountVars, accessVars, feedVars, pageVars>>
  \/ RewardsPageNext /\ UNCHANGED <<limiterVars, accountVars, accessVars, feedVars, bootVars>>
  \/ Tick \/ Restart

Spec == Init /\ [][Next]_vars

=============================================================================
