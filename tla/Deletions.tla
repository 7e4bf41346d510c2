----------------------------- MODULE Deletions -----------------------------
(***************************************************************************)
(* What a deletion leaves behind (memory.ts, core/ledger.ts): the texts of *)
(* a workspace, the model's blocks with the rows they cite, and the line a *)
(* deletion appends to a file once its transaction has committed.  Writing *)
(* and deleting are in MemoryStore in full; here is what the processes     *)
(* beside them can see: Summaries, which wait for a model between a read   *)
(* and a write, and Backups, which dump and restore.                       *)
(*                                                                         *)
(* A text is <<record, n>>, the n-th text ever written.  A deleted row     *)
(* stays as a name in `gone'; every query leaves it out.                   *)
(*                                                                         *)
(* Definitions called Bug... are variants of the one that follows them, as *)
(* a plausible mistake in the code would make it; nothing here uses them.  *)
(***************************************************************************)
EXTENDS Naturals, FiniteSets

CONSTANTS
  RecordIds,
  None,
  MaxWrites,   \* bound: texts ever written
  Budgets      \* bound: scenarios; how often each thing may happen

Kinds == {"write", "forget", "append", "crash", "tick", "dump", "restore",
          "summary", "switch", "credit"}
ASSUME DeletionsAssumption == MaxWrites \in Nat /\ Budgets \subseteq [Kinds -> Nat]

Texts == RecordIds \X (1..MaxWrites)
Blocks == [id : Nat, quotes : SUBSET Texts, stale : BOOLEAN]

VARIABLES
  rows,      \* texts on file and not deleted
  current,   \* those that are the current version of their record
  gone,      \* texts deleted: rows that only keep their name
  blocks,    \* derived blocks: what each quotes, and whether it says stale
  sources,   \* <<block, text>>: which rows a block cites
  replies,   \* deletions whose result is kept for a repeated request
  mirror,    \* lines of the deletion file: the record, and when
  pending,   \* a deletion that committed and has not appended its line yet
  orphans,   \* deletions that committed in a process that died, unanswered
  answered,  \* history variable: texts whose deletion was acknowledged
  lined,     \* history variable: texts a line stands for, and when
  written,   \* texts ever written: a record's name is never used again
  clock,
  budget     \* what may still happen

store == <<rows, current, gone, blocks, sources, replies>>
trail == <<mirror, pending, orphans, answered, lined, written, clock>>
core == <<store, trail, budget>>

RecordsOf(T) == {t[1] : t \in T}
Of(T, record) == {t \in T : t[1] = record}

Left(kind) == budget[kind] > 0
Spend(kind) == budget' = [budget EXCEPT ![kind] = @ - 1]

InitCore ==
  /\ rows = {} /\ current = {} /\ gone = {}
  /\ blocks = {} /\ sources = {} /\ replies = {}
  /\ mirror = {} /\ pending = None /\ orphans = {}
  /\ answered = {} /\ lined = {} /\ written = {} /\ clock = 0
  /\ budget \in Budgets

\* The blocks that cite one of the records.
Citing(records) == {s[1] : s \in {x \in sources : x[2][1] \in records}}

\* A record is written or corrected; what cites it is marked.
Write(record) ==
  LET new == <<record, Cardinality(written) + 1>>
  IN /\ Cardinality(written) < MaxWrites
     /\ Of(current, record) # {} \/ Of(written, record) = {}
     /\ Left("write") /\ Spend("write")
     /\ written' = written \cup {new}
     /\ rows' = rows \cup {new}
     /\ current' = (current \ Of(current, record)) \cup {new}
     /\ blocks' = {[b EXCEPT !.stale = @ \/ b.id \in Citing({record})] : b \in blocks}
     /\ UNCHANGED <<gone, sources, replies, mirror, pending, orphans, answered,
                    lined, clock>>

(***************************************************************************)
(* forget: the transaction, then the lines in the file, then the answer.   *)
(***************************************************************************)

\* The texts go, and every block that cites any version of their records.
BugRemoved(targets) ==
  LET hit == Citing(RecordsOf(targets))
  IN /\ rows' = rows \ targets
     /\ current' = current
     /\ gone' = gone \cup targets
     /\ blocks' = {b \in blocks : b.id \notin hit}
     /\ sources' = {s \in sources : s[1] \notin hit}
Removed(targets) ==
  LET hit == Citing(RecordsOf(targets))
  IN /\ rows' = rows \ targets
     /\ current' = current \ targets
     /\ gone' = gone \cup targets
     /\ blocks' = {b \in blocks : b.id \notin hit}
     /\ sources' = {s \in sources : s[1] \notin hit}

\* By record every version of it, by topic whatever is filed there; the result
\* is kept with the request's key.
Forget(targets) ==
  /\ pending = None /\ targets # {} /\ targets \subseteq rows
  /\ Left("forget") /\ Spend("forget")
  /\ Removed(targets)
  /\ replies' = replies \cup {targets}
  /\ pending' = targets
  /\ UNCHANGED <<mirror, orphans, answered, lined, written, clock>>

\* appendDeletions: a line for each record, stamped now.
BugLines(targets) == {[record |-> CHOOSE r \in RecordsOf(targets) : TRUE, at |-> clock]}
Lines(targets) == {[record |-> r, at |-> clock] : r \in RecordsOf(targets)}

Mirror ==
  /\ pending # None
  /\ mirror' = mirror \cup Lines(pending)
  /\ lined' = lined \cup {<<t, clock>> : t \in pending}
  /\ answered' = answered \cup pending
  /\ pending' = None
  /\ UNCHANGED <<store, orphans, written, clock, budget>>

\* The file cannot be written: a warning, and the call succeeds.
MirrorFails ==
  /\ pending # None /\ Left("append") /\ Spend("append")
  /\ answered' = answered \cup pending
  /\ pending' = None
  /\ UNCHANGED <<store, mirror, orphans, lined, written, clock>>

\* The process dies, and a deletion that committed may be unanswered.
Dies ==
  /\ Left("crash") /\ Spend("crash")
  /\ orphans' = orphans \cup ({pending} \ {None})
  /\ pending' = None
  /\ UNCHANGED <<store, mirror, answered, lined, written, clock>>

\* The same request again: the result on file is the answer, and no line is
\* appended, since the first run is taken to have done it.
Repeat(targets) ==
  /\ targets \in orphans \cap replies
  /\ orphans' = orphans \ {targets}
  /\ answered' = answered \cup targets
  /\ UNCHANGED <<store, mirror, pending, lined, written, clock, budget>>

Tick ==
  /\ Left("tick") /\ Spend("tick")
  /\ clock' = clock + 1
  /\ UNCHANGED <<store, mirror, pending, orphans, answered, lined, written>>

=============================================================================
