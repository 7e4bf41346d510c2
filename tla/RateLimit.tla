----------------------------- MODULE RateLimit -----------------------------
(***************************************************************************)
(* The rate limiter (rate-limit.store.ts, rate-limit.guard.ts): for each   *)
(* caller and route the hits of this window and of the one before, and an  *)
(* estimate of what a sliding window would hold.  `hit' runs to its end    *)
(* without an await, so it is one step.  One route; a tick is a second, so *)
(* that the wait a caller is told is a number of ticks.                    *)
(*                                                                         *)
(* Definitions called Bug... are variants of the one that follows them, as *)
(* a plausible mistake in the code would make it; nothing here uses them.  *)
(***************************************************************************)
EXTENDS ApiProcess, SequencesExt

CONSTANTS
  MaxKeys,        \* bound: callers there ever are, numbered as they come
  Window, Limit,  \* the route's windowMs and limit
  SweepInterval,  \* SWEEP_INTERVAL_MS
  MaxTracked      \* MAX_TRACKED_CALLERS

ASSUME LimiterAssumption ==
  /\ MaxKeys \in Nat /\ SweepInterval \in Nat
  /\ Window \in Nat \ {0} /\ Limit \in Nat \ {0} /\ MaxTracked \in Nat \ {0}

Keys == 1..MaxKeys

VARIABLES
  windows,    \* the callers tracked, and the state of each
  lastSweep,
  forgotten,  \* history variable: callers evicted to make room
  admitted    \* history variable: when each caller was let through

limiterVars == <<windows, lastSweep, forgotten, admitted>>

LimiterInit ==
  /\ windows = <<>> /\ lastSweep = 0
  /\ forgotten = {} /\ admitted = [k \in Keys |-> <<>>]

(***************************************************************************)
(* roll, the estimate, and releaseIn.                                      *)
(***************************************************************************)
BugRoll(s, t) ==
  CASE t - s.start >= 2 * Window -> [s EXCEPT !.start = t, !.current = 0, !.previous = 0]
    [] t - s.start \in Window..(2 * Window - 1) -> [s EXCEPT !.start = t, !.current = 0, !.previous = 0]
    [] OTHER -> s
Roll(s, t) ==
  CASE t - s.start >= 2 * Window -> [s EXCEPT !.start = t, !.current = 0, !.previous = 0]
    [] t - s.start \in Window..(2 * Window - 1) ->
         [s EXCEPT !.start = @ + Window, !.previous = s.current, !.current = 0]
    [] OTHER -> s

StateOf(tracked, k, t) ==
  IF k \in DOMAIN tracked THEN Roll(tracked[k], t)
  ELSE [start |-> t, current |-> 0, previous |-> 0, deadAt |-> t + 2 * Window]

\* estimate + 1 <= limit, with the share of the previous window still in view.
Admits(s, t) ==
  s.previous * (Window - (t - s.start)) + (s.current + 1) * Window <= Limit * Window
Admit(s) == [s EXCEPT !.current = @ + 1, !.deadAt = s.start + 2 * Window]

Ceil(a, b) == (a + b - 1) \div b
Most(a, b) == IF a > b THEN a ELSE b
Least(a, b) == IF a < b THEN a ELSE b

\* The wait, rounded up and a second at least, as the guard tells it.
BugRetryAfter(s, t) ==
  LET untilRoll == Window - (t - s.start)
      room == Limit - 1
  IN Most(1, IF s.current > room
             THEN untilRoll
             ELSE untilRoll - Least(untilRoll, (Window * (room - s.current)) \div Most(1, s.previous)))
RetryAfter(s, t) ==
  LET untilRoll == Window - (t - s.start)
      room == Limit - 1
  IN Most(1, IF s.current > room
             THEN untilRoll + Least(Window, Ceil(Window * (s.current - room), s.current))
             ELSE untilRoll - Least(untilRoll, (Window * (room - s.current)) \div Most(1, s.previous)))

(***************************************************************************)
(* maintain: at the interval or at the cap, the dead go; then, one below   *)
(* the cap, those closest to their deadline.                               *)
(***************************************************************************)
Due == now - lastSweep >= SweepInterval \/ Cardinality(DOMAIN windows) >= MaxTracked
BugDead(k) == windows[k].deadAt - Window <= now
Dead(k) == windows[k].deadAt <= now
BugExcess(alive) == Cardinality(alive) - MaxTracked
Excess(alive) ==
  IF Cardinality(alive) < MaxTracked THEN 0 ELSE Cardinality(alive) - (MaxTracked - 1)

Keepable ==
  IF ~Due THEN {DOMAIN windows}
  ELSE LET alive == {k \in DOMAIN windows : ~Dead(k)}
       IN {kept \in SUBSET alive :
             /\ Cardinality(alive \ kept) = Excess(alive)
             /\ \A k \in kept, gone \in alive \ kept : windows[gone].deadAt <= windows[k].deadAt}

With(tracked, k, s) == [x \in DOMAIN tracked \cup {k} |-> IF x = k THEN s ELSE tracked[x]]

Hit(k) ==
  /\ Left("hit") /\ Spend("hit")
  /\ k <= budget["crowd"] /\ \A x \in 1..(k - 1) : admitted[x] # <<>>
  /\ \E kept \in Keepable :
       LET s == StateOf([x \in kept |-> windows[x]], k, now)
           passes == Admits(s, now)
       IN /\ windows' = With([x \in kept |-> windows[x]], k, IF passes THEN Admit(s) ELSE s)
          /\ admitted' = IF passes THEN [admitted EXCEPT ![k] = Append(@, now)] ELSE admitted
          /\ forgotten' = forgotten \cup {x \in DOMAIN windows \ kept : ~Dead(x)}
  /\ lastSweep' = IF Due THEN now ELSE lastSweep
  /\ UNCHANGED now

\* The map is in the memory of the process.
LimiterLost ==
  /\ windows' = <<>> /\ lastSweep' = 0
  /\ forgotten' = forgotten \cup DOMAIN windows
  /\ UNCHANGED admitted

LimiterNext == \E k \in Keys : Hit(k)

(***************************************************************************)
(* Properties.                                                             *)
(***************************************************************************)

\* The map stays at its cap, and no count passes the limit.
LimiterTypeOK ==
  /\ DOMAIN windows \subseteq Keys /\ Cardinality(DOMAIN windows) <= MaxTracked
  /\ \A k \in DOMAIN windows :
       /\ windows[k].current \in 0..Limit /\ windows[k].previous \in 0..Limit
       /\ windows[k].start <= now /\ windows[k].start <= windows[k].deadAt

(***************************************************************************)
(* The wait a refused caller is told is true: nobody else being charged to *)
(* it, it is let through then, and not a second before (releaseIn).        *)
(***************************************************************************)
RetryAfterIsTrue ==
  \A k \in DOMAIN windows :
    LET s == Roll(windows[k], now)
        wait == RetryAfter(s, now)
        lets(d) == Admits(Roll(s, now + d), now + d)
    IN ~lets(0) => lets(wait) /\ \A d \in 1..(wait - 1) : ~lets(d)

(***************************************************************************)
(* A sweep forgets nothing that counts: once its deadline has passed, an   *)
(* entry is empty, also one that refused tries have rolled on since its    *)
(* last hit (deadAt, "after this instant the entry is provably empty").    *)
(***************************************************************************)
SweptIsEmpty ==
  \A k \in DOMAIN windows :
    Dead(k) => LET s == Roll(windows[k], now) IN s.current = 0 /\ s.previous = 0

(***************************************************************************)
(* The error of the estimate is bounded: in no stretch of time is a caller *)
(* let through more often than the limit and the share of it that the      *)
(* stretch makes of a window, also across a sweep; the limit twice in a    *)
(* moment, at the end of a window and at the start of the next, is refused *)
(* (roll, maintain).  An evicted caller gets a fresh budget.               *)
(***************************************************************************)
BurstsAreBounded ==
  \A k \in Keys \ forgotten : \A i, j \in DOMAIN admitted[k] :
    LET span == admitted[k][j] - admitted[k][i]
    IN i <= j /\ span < Window => j - i + 1 <= Limit + Ceil(Limit * span, Window)

(***************************************************************************)
(* A limit is a limit, whatever is swept: bursts across the edge of a      *)
(* window are bounded, and only what no longer counts is forgotten (roll,  *)
(* maintain).                                                              *)
(***************************************************************************)
LimitsHold == BurstsAreBounded /\ SweptIsEmpty

=============================================================================
