---------------------------- MODULE MemoryStore ----------------------------
(***************************************************************************)
(* One workspace's memory (memory.ts, store.ts, merge.ts): records and     *)
(* their versions, the search index, derived blocks, and the conflict over *)
(* a fact.  add, import, merge, resolve and forget each run in one         *)
(* transaction on a pool of one connection, so each is one step.           *)
(*                                                                         *)
(* A fact is what records can disagree about.  Facts do not meet, so one   *)
(* stands for all; a record states a value for it or none.  A text is the  *)
(* version it was written in.  The rows here are the ones not deleted: a   *)
(* deleted row is only a name in `gone', whether its payload was wiped or  *)
(* not, since every query leaves it out.  A call that is refused - a stale *)
(* expectedVersion, a key used for something else - changes nothing and is *)
(* no step; nor is one answered from what its key has on file.             *)
(*                                                                         *)
(* Links between records are not kept.  What they do is modelled: a block  *)
(* may file a record under the topic of another, and a write makes the     *)
(* blocks of the records it links to stale.                                *)
(*                                                                         *)
(* Definitions called Bug... are variants of the one that follows them, as *)
(* a plausible mistake in the code would make it; nothing here uses them.  *)
(***************************************************************************)
EXTENDS Naturals, FiniteSets

CONSTANTS
  Agents,
  Owner,      \* the workspace's owner, who writes as the Console agent
  RecordIds,
  Contents,   \* what a version may say: its topic, its scope and its value
  AnyTopic,   \* merge is not given a topic
  NoValue,    \* a record that states nothing of the fact
  Sense,      \* Sense[v]: what a look takes v for (normalizeFactValue)
  Named,      \* versions a decision may name instead of the chosen side's
  None,
  MaxRows,    \* bound: versions ever written
  MaxImport   \* bound: records imported at once

Scopes  == {"workspace", "private"}
Callers == Agents \cup {Owner}
Topics  == {c.topic : c \in Contents}
Values  == {c.value : c \in Contents}

ASSUME MemoryAssumption ==
  /\ Owner \notin Agents /\ None \notin Callers /\ None \notin RecordIds
  /\ AnyTopic \notin Topics
  /\ \A c \in Contents : c.scope \in Scopes
  /\ Contents \subseteq [topic : Topics, scope : Scopes, value : Values]
  /\ Sense \in [Values -> Values]
  /\ Named \subseteq Nat \ {0}
  /\ MaxRows \in Nat /\ MaxImport \in Nat

VARIABLES
  rows,      \* versions that are not deleted
  gone,      \* ids of the versions that are
  index,     \* ids of the versions the search index holds
  blocks,    \* derived blocks, one for each topic, scope and owner
  conflict,  \* conflict[s]: the conflict on file over the fact in scope s
  judged     \* history variable: judged[s]: the conflict of scope s has been
             \* looked at with all its records in view since they changed

vars == <<rows, gone, index, blocks, conflict, judged>>

Ids == [record : RecordIds, version : Nat \ {0}]
Id(r) == [record |-> r.record, version |-> r.version]
IdsOf(R) == {Id(r) : r \in R}

Init ==
  /\ rows = {} /\ gone = {} /\ index = {} /\ blocks = {}
  /\ conflict = [s \in Scopes |-> None]
  /\ judged = [s \in Scopes |-> TRUE]

\* visibilityWhere: the owner sees everything, an agent its own private rows.
Visible(R, who) ==
  {r \in R : who = Owner \/ r.scope = "workspace" \/ r.author = who}

Current(R) == {r \in R : r.current}
OnTopic(R, t) == {r \in R : t = AnyTopic \/ r.topic = t}

\* The version id of a fresh record, and the row a write makes of a content.
Unused == RecordIds \ {i.record : i \in IdsOf(rows) \cup gone}
Written == Cardinality(rows) + Cardinality(gone)
NewRow(record, version, who, c) ==
  [record |-> record, version |-> version, author |-> who, topic |-> c.topic,
   scope |-> c.scope, value |-> c.value, current |-> TRUE]

(***************************************************************************)
(* detectConflicts.                                                        *)
(***************************************************************************)

\* What states the fact in scope s, and what of it a caller looks at.
Stating(R, s) == {r \in Current(R) : r.scope = s /\ r.value # NoValue}
Bucket(R, who, s, t) == OnTopic(Visible(Stating(R, s), who), t)

Side(r) == [record |-> r.record, version |-> r.version, value |-> r.value]
SidesOf(R) == {Side(r) : r \in R}

\* Two values are compared in two ways.  A look folds what NFKC folds, beside
\* case and spaces at either end; a deletion folds only these.  A value here
\* is one that a deletion tells from every other, so Sense folds the rest: 1
\* and a fullwidth 1 are two values of one sense.
Disagree(S) == \E p, q \in S : Sense[p.value] # Sense[q.value]
Differ(S)   == \E p, q \in S : p.value # q.value

\* Evidence the recorded decision did not cover: a row that was on no side,
\* of another sense than the chosen record has now; or that record is gone.
BugUncovered(c, bucket) == \A r \in bucket : r.record # c.chosen
Uncovered(c, bucket) ==
  \/ \A r \in bucket : r.record # c.chosen
  \/ \E r, q \in bucket :
       /\ q.record = c.chosen /\ Sense[r.value] # Sense[q.value]
       /\ Id(r) \notin IdsOf(c.sides)

Opened(bucket) ==
  [status |-> "open", sides |-> SidesOf(bucket), chosen |-> None,
   version |-> 0, was |-> 0, ruled |-> {}]

BugJudge(c, bucket) ==
  IF ~Disagree(bucket) THEN c
  ELSE IF c = None THEN Opened(bucket)
  ELSE [c EXCEPT !.sides = SidesOf(bucket)]

\* A fact nobody in view states is not looked at.  A conflict that is open
\* and in view agrees is retired; a decision is kept.
Judge(c, bucket) ==
  IF bucket = {} THEN c
  ELSE IF ~Disagree(bucket) THEN IF c # None /\ c.status = "open" THEN None ELSE c
  ELSE IF c = None THEN Opened(bucket)
  ELSE [c EXCEPT !.sides = SidesOf(bucket),
                 !.status = IF c.status = "resolved" /\ Uncovered(c, bucket)
                            THEN "open" ELSE @]

\* The scopes in S are looked at, by `who', over the rows R; in scopes of
\* `touched' the rows have changed.
Detect(R, who, S, t, touched) ==
  LET seen == [s \in S |-> Bucket(R, who, s, t)]
  IN /\ conflict' = [s \in Scopes |->
          IF s \in S THEN Judge(conflict[s], seen[s]) ELSE conflict[s]]
     /\ judged' = [s \in Scopes |->
          IF s \in S /\ seen[s] # {} THEN seen[s] = Stating(R, s)
          ELSE judged[s] /\ s \notin touched]

(***************************************************************************)
(* Blocks.                                                                 *)
(***************************************************************************)
BugStale(B, records) == B
Stale(B, records) ==
  {[b EXCEPT !.stale = @ \/ \E i \in b.sources : i.record \in records] : b \in B}

(***************************************************************************)
(* add: a new record, or a correction of one.                              *)
(***************************************************************************)
Add(who, record, c, linked) ==
  /\ Written < MaxRows
  /\ LET r == NewRow(record, 1, who, c)
     IN /\ rows' = rows \cup {r}
        /\ index' = index \cup {Id(r)}
        /\ Detect(rows', who, {c.scope}, AnyTopic, {c.scope})
  /\ blocks' = Stale(blocks, linked)
  /\ UNCHANGED gone

\* canCorrectRecordOf: the owner corrects anything, an agent its own.
MayCorrect(who, old) == who = Owner \/ old.author = who

BugSupersede(old, new) ==
  /\ rows' = (rows \ {old}) \cup {[old EXCEPT !.current = FALSE], new}
  /\ index' = index \cup {Id(new)}
Supersede(old, new) ==
  /\ rows' = (rows \ {old}) \cup {[old EXCEPT !.current = FALSE], new}
  /\ index' = (index \ {Id(old)}) \cup {Id(new)}

Correct(who, old, c, linked) ==
  /\ old \in Current(rows) /\ MayCorrect(who, old) /\ Written < MaxRows
  /\ LET new == NewRow(old.record, old.version + 1, who, c)
     IN /\ Supersede(old, new)
        /\ Detect(rows', who, {c.scope}, AnyTopic, {c.scope, old.scope})
  /\ blocks' = Stale(blocks, {old.record} \cup linked)
  /\ UNCHANGED gone

\* import: any number of new records; both scopes are looked at.
Batch == {new \in SUBSET Unused : /\ Cardinality(new) <= MaxImport
                                  /\ Written + Cardinality(new) <= MaxRows}
Import(who, batch) ==
  /\ LET new == {NewRow(record, 1, who, batch[record]) : record \in DOMAIN batch}
     IN /\ rows' = rows \cup new
        /\ index' = index \cup IdsOf(new)
        /\ Detect(rows', who, Scopes, AnyTopic, {r.scope : r \in new})
  /\ blocks' = Stale(blocks, DOMAIN batch)
  /\ UNCHANGED gone

(***************************************************************************)
(* merge: one block for each topic of the records asked for.               *)
(***************************************************************************)
BlockOwner(who, s) == IF s = "private" /\ who # Owner THEN who ELSE None

Merged(who, s, t, only) ==
  {r \in OnTopic(Visible(Current(rows), who), t) :
     r.scope = s /\ r.record \in only}

\* A record keeps its topic or takes that of one it is linked to.
Filings(R) == [R -> {r.topic : r \in R}]

BlockOf(who, s, t, R) ==
  [topic |-> t, scope |-> s, owner |-> BlockOwner(who, s), stale |-> FALSE,
   sources |-> IdsOf(R)]

BugRebuild(B, new) == B \cup new
Rebuild(B, new) ==
  new \cup {b \in B : \A n \in new : <<b.topic, b.scope, b.owner>>
                                      # <<n.topic, n.scope, n.owner>>}

Merge(who, s, t, only) ==
  /\ Detect(rows, who, {s}, t, {})
  /\ LET R == Merged(who, s, t, only)
     IN \E f \in Filings(R) :
          blocks' = Rebuild(blocks,
            {BlockOf(who, s, u, {r \in R : f[r] = u}) : u \in {f[r] : r \in R}})
  /\ UNCHANGED <<rows, gone, index>>

(***************************************************************************)
(* resolve: any side may be chosen, and a decision may be made again.  The *)
(* version put on file is the one the caller named, which nobody compares  *)
(* with the side's; `was' and `ruled' are history: the version the chosen  *)
(* side had, and the senses there were to choose from.                     *)
(***************************************************************************)
Resolve(s, side, version) ==
  /\ conflict[s] # None /\ side \in conflict[s].sides
  /\ version \in {side.version} \cup Named
  /\ conflict' = [conflict EXCEPT ![s] =
       [@ EXCEPT !.status = "resolved", !.chosen = side.record,
                 !.version = version, !.was = side.version,
                 !.ruled = {Sense[q.value] : q \in conflict[s].sides}]]
  /\ blocks' = Stale(blocks, {q.record : q \in conflict[s].sides})
  /\ UNCHANGED <<rows, gone, index, judged>>

(***************************************************************************)
(* forget: by record or by topic, every version that matches.              *)
(***************************************************************************)
MayForget(who, targets) == who = Owner \/ \A r \in targets : r.author = who

\* A conflict needs two sides that differ, if only in what a look would fold;
\* this goes over every conflict.
BugRetire(c, ids) == c
Retire(c, ids) ==
  IF c = None THEN None
  ELSE LET left == {q \in c.sides : Id(q) \notin ids}
       IN IF Differ(left) THEN [c EXCEPT !.sides = left] ELSE None

BugWithout(B, targets) == Stale(B, {r.record : r \in targets})
Without(B, targets) ==
  {b \in B : \A i \in b.sources : i.record \notin {r.record : r \in targets}}

Forget(who, targets) ==
  /\ targets # {} /\ MayForget(who, targets)
  /\ rows' = rows \ targets
  /\ gone' = gone \cup IdsOf(targets)
  /\ index' = index \ IdsOf(targets)
  /\ blocks' = Without(blocks, targets)
  /\ conflict' = [s \in Scopes |-> Retire(conflict[s], IdsOf(targets))]
  /\ UNCHANGED judged

ForgetRecord(who, record) ==
  Forget(who, {r \in Visible(rows, who) : r.record = record})
ForgetTopic(who, t) ==
  Forget(who, {r \in Visible(rows, who) : r.topic = t})

\* A write links to one record or none; a link to one that no fresh block
\* cites changes nothing.  A merge is asked for a topic, for a record, for
\* everything, or for what the scope has nothing of; what it sees and files of
\* a shared scope is the same whoever asks.
Cited == {i.record : i \in UNION {b.sources : b \in {d \in blocks : ~d.stale}}}
Linked == {{}} \cup {{record} : record \in Cited}
Requests(s) == LET R == {r \in Current(rows) : r.scope = s}
               IN (({r.topic : r \in R} \cup {AnyTopic}) \X {RecordIds})
                    \cup ({AnyTopic} \X ({{}} \cup {{r.record} : r \in R}))
Askers(s) == IF s = "private" THEN Callers ELSE {Owner}

Next ==
  \/ \E who \in Callers, c \in Contents, linked \in Linked :
       \/ \E record \in Unused : Add(who, record, c, linked)
       \/ \E old \in rows : Correct(who, old, c, linked)
  \/ \E who \in Callers :
       \/ \E new \in Batch : \E batch \in [new -> Contents] :
            Import(who, batch)
       \/ \E record \in RecordIds : ForgetRecord(who, record)
       \/ \E t \in Topics : ForgetTopic(who, t)
  \/ \E s \in Scopes : \E q \in Requests(s), who \in Askers(s) :
       Merge(who, s, q[1], q[2])
  \/ \E s \in Scopes : \E side \in (IF conflict[s] = None THEN {}
                                    ELSE conflict[s].sides) :
       \E version \in {side.version} \cup Named : Resolve(s, side, version)

Spec == Init /\ [][Next]_vars

(***************************************************************************)
(* Properties.                                                             *)
(***************************************************************************)
Row   == [record : RecordIds, version : Nat \ {0}, author : Callers,
          topic : Topics, scope : Scopes, value : Values, current : BOOLEAN]
Block == [topic : Topics, scope : Scopes, owner : Agents \cup {None},
          sources : SUBSET Ids, stale : BOOLEAN]
Sides == [record : RecordIds, version : Nat \ {0}, value : Values]
Conflict == [status : {"open", "resolved"}, sides : SUBSET Sides,
             chosen : RecordIds \cup {None}, version : Nat, was : Nat,
             ruled : SUBSET Values]

ASSUME NoneAssumption == None \notin Conflict

\* What the tables hold: one row for a version, one block for a topic, scope
\* and owner (the keys of the schema; findFirst in runMerge).
TypeOK ==
  /\ rows \subseteq Row
  /\ gone \subseteq Ids
  /\ index \subseteq Ids
  /\ blocks \subseteq Block
  /\ conflict \in [Scopes -> {None} \cup Conflict]
  /\ judged \in [Scopes -> BOOLEAN]
  /\ \A r, q \in rows : Id(r) = Id(q) => r = q
  /\ \A b, d \in blocks :
       <<b.topic, b.scope, b.owner>> = <<d.topic, d.scope, d.owner>> => b = d

(***************************************************************************)
(* A record has one current version at most, the newest it ever had, and   *)
(* search holds the current versions and nothing else: no text that was    *)
(* superseded or deleted is found (writeRecord, forget).                   *)
(***************************************************************************)
Newest(r) == \A i \in IdsOf(rows) \cup gone :
               i.record = r.record => i.version <= r.version
SearchIsCurrent ==
  /\ index = IdsOf(Current(rows))
  /\ \A r \in Current(rows) : Newest(r)

(***************************************************************************)
(* "A stale block is never served as current": a block that does not say   *)
(* it is stale was built from versions that are all current, whatever was  *)
(* corrected, deleted or merged in part since (markBlocksStale, runMerge). *)
(***************************************************************************)
FreshBlocksAreCurrent ==
  \A b \in blocks : ~b.stale => b.sources \subseteq IdsOf(Current(rows))

(***************************************************************************)
(* No block is left that was built from a deleted text, or from another    *)
(* version of the same record: a stale block still holds it (forget).      *)
(***************************************************************************)
NoBlockCitesTheDeleted ==
  \A b \in blocks : b.sources \cap gone = {}

(***************************************************************************)
(* Where a conflict was last looked at with all its records in view, it    *)
(* says what they say: records that disagree have a conflict on file, and  *)
(* an open one has exactly the records that state the fact as its sides,   *)
(* of at least two values - two senses, until a deletion took the others   *)
(* and left two spellings of one (detectConflicts, forget).                *)
(***************************************************************************)
ConflictsTellTheTruth ==
  \A s \in Scopes : judged[s] =>
    /\ Disagree(Stating(rows, s)) => conflict[s] # None
    /\ (conflict[s] # None /\ conflict[s].status = "open") =>
         /\ Differ(Stating(rows, s))
         /\ conflict[s].sides = SidesOf(Stating(rows, s))

(***************************************************************************)
(* "A conflict needs at least two competing sides to still be a conflict": *)
(* one that is open and was looked at whole is over records that a look    *)
(* takes to disagree.  Not so after a deletion left two spellings of one   *)
(* sense (forget).                                                         *)
(***************************************************************************)
OpenMeansDisagreement ==
  \A s \in Scopes :
    (judged[s] /\ conflict[s] # None /\ conflict[s].status = "open") =>
       Disagree(Stating(rows, s))

(***************************************************************************)
(* "A new disagreement could hide behind an old ruling, which invariant 5  *)
(* forbids": as long as the record that was chosen says what it said, no   *)
(* current record has a value whose sense was not there when it was        *)
(* chosen, or the conflict is open again (detectConflicts).                *)
(***************************************************************************)
RulingsCoverWhatIsThere ==
  \A s \in Scopes :
    (/\ judged[s] /\ conflict[s] # None /\ conflict[s].status = "resolved"
     /\ \E r \in Stating(rows, s) : /\ r.record = conflict[s].chosen
                                    /\ r.version = conflict[s].was) =>
       {Sense[r.value] : r \in Stating(rows, s)} \subseteq conflict[s].ruled

(***************************************************************************)
(* "A detected conflict cannot vanish without a recorded resolution or     *)
(* deletion": when an open conflict goes, its records do not disagree any  *)
(* more (detectConflicts, forget).                                         *)
(***************************************************************************)
OpenConflictsStand ==
  [][\A s \in Scopes :
       (/\ conflict[s] # None /\ conflict[s].status = "open"
        /\ conflict'[s] = None) => ~Disagree(Stating(rows', s))]_vars

=============================================================================
