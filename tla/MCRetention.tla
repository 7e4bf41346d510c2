---------------------------- MODULE MCRetention ----------------------------
(***************************************************************************)
(* Model values and bounds for Retention.                                  *)
(***************************************************************************)
EXTENDS Retention, TLC

CONSTANTS r1, r2, p1, p2

Nothing == [write |-> 0, forget |-> 0, append |-> 0, crash |-> 0, tick |-> 0,
            dump |-> 0, restore |-> 0, summary |-> 0, switch |-> 0, credit |-> 0]

\* Summaries beside writes; one that dies; a snapshot restored twice; a snapshot
\* and two deletions; two snapshots; a summary in a snapshot; a store half restored,
\* dumped and restored again; a credit.
MCBudgets ==
  {[Nothing EXCEPT !.write = 3, !.forget = 1, !.summary = 2, !.switch = 1],
   [Nothing EXCEPT !.write = 2, !.forget = 1, !.summary = 2, !.crash = 1],
   [Nothing EXCEPT !.write = 2, !.forget = 1, !.dump = 1, !.restore = 2, !.crash = 1,
                   !.append = 1, !.tick = 1],
   [Nothing EXCEPT !.write = 2, !.forget = 2, !.dump = 1, !.restore = 1, !.tick = 2],
   [Nothing EXCEPT !.write = 2, !.forget = 1, !.dump = 2, !.restore = 1, !.tick = 2],
   [Nothing EXCEPT !.write = 2, !.forget = 1, !.dump = 1, !.restore = 1, !.summary = 1,
                   !.tick = 1],
   [Nothing EXCEPT !.write = 1, !.forget = 1, !.dump = 2, !.restore = 2, !.crash = 1,
                   !.tick = 2],
   [Nothing EXCEPT !.write = 1, !.dump = 1, !.restore = 1, !.credit = 1]}

\* A snapshot, and after it a deletion whose process dies.
MCOneCrash ==
  {[Nothing EXCEPT !.write = 2, !.forget = 1, !.dump = 1, !.restore = 1, !.crash = 1,
                   !.tick = 1]}

Symmetry == Permutations(RecordIds) \cup Permutations(Askers)
=============================================================================
