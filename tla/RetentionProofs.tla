--------------------------- MODULE RetentionProofs ---------------------------
(***************************************************************************)
(* Proofs about Retention, for any records, any bounds, any number of      *)
(* summaries in progress, and any snapshots, restores and deaths.          *)
(***************************************************************************)
EXTENDS Retention, FiniteSetTheorems, TLAPS

-----------------------------------------------------------------------------
(***************************************************************************)
(* The inductive invariant, in parts.                                      *)
(***************************************************************************)

\* Texts are numbered as they are written, so no text is written twice; what
\* a call sent is still there, if only as a name; and there are finitely many
\* blocks, so an id is left for the next.
Numbered ==
  /\ IsFiniteSet(written)
  /\ \A t \in written : t[2] <= Cardinality(written)
  /\ \A p \in Askers : asks[p] # None => asks[p].rows \subseteq rows \cup gone
  /\ IsFiniteSet(blocks)

\* A line stands for a text that was written and is in the file.
LinesAreFiled ==
  /\ \A l \in lined : /\ l \in written \X Nat /\ l[2] <= clock
                      /\ [record |-> l[1][1], at |-> l[2]] \in mirror
  /\ pending # None => ~down

\* What a dump of the rows holds: rows that make sense together, and no text
\* whose line had been written before the dump was begun.
RowsFit(r) == /\ r.current \subseteq r.live
              /\ r.live \cap r.gone = {}
              /\ r.live \cup r.gone \subseteq written
Before(r, at, half) ==
  ~half => \A l \in lined : l[1] \in r.live /\ l[2] < at => Excused(l[2])
BlocksFit(B) == IsFiniteSet(B) /\ \A b, c \in B : b.id = c.id => b = c
Refers(c) == c.sources \subseteq {b.id : b \in c.blocks} \X (c.rows.live \cup c.rows.gone)

\* A block cites what it quotes, and says what is true of that.
Exact(S, b) == \A t \in Texts : <<b.id, t>> \in S <=> t \in b.quotes
TrueOf(L, C, b) == b.quotes \subseteq L /\ (~b.stale => b.quotes \subseteq C)
Sound(c) == \A b \in c.blocks : /\ Exact(c.sources, b)
                                /\ TrueOf(c.rows.live, c.rows.current, b)

SnapshotFits(f) ==
  /\ f.takenAt <= clock
  /\ RowsFit(f.tables.rows) /\ BlocksFit(f.tables.blocks)
  /\ Before(f.tables.rows, f.takenAt, f.half)
  /\ ~f.torn => Refers(f.tables)
  /\ ~f.torn /\ ~f.half /\ Undisturbed => Sound(f.tables)

FilesAreKept == \A f \in files : SnapshotFits(f)

\* A dump has, of the tables it has read, what they held; if it is not torn,
\* what they held when it was begun.
HasRead(n) ==
  /\ n >= 1 => dump.got.rows = dump.was.rows
  /\ n >= 2 => dump.got.blocks = dump.was.blocks
  /\ n >= 3 => dump.got.sources = dump.was.sources
DumpIsTrue ==
  dump # None =>
    /\ restoring = None /\ (dump.half <=> down) /\ dump.at \in 1..(Len(Tables) + 1)
    /\ dump.takenAt <= clock
    /\ RowsFit(dump.got.rows) /\ BlocksFit(dump.got.blocks)
    /\ Before(dump.got.rows, dump.takenAt, dump.half)
    /\ Refers(dump.was)
    /\ ~dump.busy => HasRead(dump.at - 1)
    /\ ~dump.busy /\ ~dump.half /\ Undisturbed => Sound(dump.was)

\* A restore has loaded the tables up to its step from its file; while it
\* replays, what it has not replayed yet is what may have come back.
Loads(n) ==
  LET from == restoring.file.tables
  IN /\ rows = IF n >= 1 THEN from.rows.live ELSE {}
     /\ current = IF n >= 1 THEN from.rows.current ELSE {}
     /\ gone = IF n >= 1 THEN from.rows.gone ELSE {}
     /\ blocks = IF n >= 2 THEN from.blocks ELSE {}
     /\ sources = IF n >= 3 THEN from.sources ELSE {}
RestoreIsTrue ==
  restoring # None =>
    LET f == restoring.file IN
    /\ SnapshotFits(f)
    /\ [at |-> f.takenAt, torn |-> f.torn, half |-> f.half] \in used
    /\ restoring.at \in 1..(Len(Tables) + 2)
    /\ restoring.at <= Len(Tables) + 1 => Loads(restoring.at - 1)
    /\ restoring.at = Len(Tables) + 2 =>
         /\ \A l \in lined : l[1] \in rows =>
              Excused(l[2]) \/ [record |-> l[1][1], at |-> l[2]] \in restoring.lines
         /\ Undisturbed => Sound(All)

\* What a call that has looked may rely on, as long as nothing slipped.
Stored(p) == At(p, "stored") \/ At(p, "cleared")
WritersAreAlone ==
  ~slipped => \A p, q \in Askers : Writing(p) /\ Writing(q) => p = q
SummariesAreTrue ==
  ~down /\ Undisturbed =>
    /\ \A b \in blocks :
         /\ TrueOf(rows, current, b)
         /\ (\A p \in Askers : Stored(p) => asks[p].block # b.id) => Exact(sources, b)
    /\ \A p \in Askers :
         /\ Writing(p) => /\ asks[p].rows \subseteq rows
                          /\ ~asks[p].stale => asks[p].rows \subseteq current
         /\ Stored(p) => \A b \in blocks :
                           b.id = asks[p].block => b.quotes = asks[p].rows
         /\ At(p, "cleared") => \A s \in sources : s[1] # asks[p].block

RetentionInv ==
  /\ TypeOK /\ Numbered /\ LinesAreFiled /\ FilesAreKept /\ DumpIsTrue
  /\ RestoreIsTrue /\ DeletionStands /\ WritersAreAlone /\ SummariesAreTrue

-----------------------------------------------------------------------------
(***************************************************************************)
(* Types.                                                                  *)
(***************************************************************************)

LEMMA TablesInOrder ==
  /\ Len(Tables) = 4 /\ Steps = 1..4
  /\ Tables[1] = "rows" /\ Tables[2] = "blocks"
  /\ Tables[3] = "sources" /\ Tables[4] = "replies"
BY DEF Tables, Steps

LEMMA Spending ==
  ASSUME TrailOK, NEW kind \in Kinds, Left(kind), Spend(kind)
  PROVE  budget' \in [Kinds -> Nat] /\ budget' # budget
<1>1. budget[kind] \in Nat \ {0}
  BY DEF TrailOK, Left
<1>2. budget' \in [Kinds -> Nat]
  BY <1>1 DEF TrailOK, Spend
<1>3. budget'[kind] = budget[kind] - 1
  BY DEF TrailOK, Spend
<1>4. QED
  BY <1>1, <1>2, <1>3

LEMMA InitRetention == Init => RetentionInv
<1> SUFFICES ASSUME Init PROVE RetentionInv
  OBVIOUS
<1> USE DeletionsAssumption DEF Init, InitCore, InitSummaries, InitBackups
<1>1. TypeOK
  <2>1. budget \in [Kinds -> Nat]
    OBVIOUS
  <2>2. QED
    BY <2>1 DEF TypeOK, StoreOK, TrailOK, ProcessesOK, Idle
<1>2. Numbered
  BY FS_EmptySet DEF Numbered
<1>3. /\ LinesAreFiled /\ FilesAreKept /\ DumpIsTrue /\ RestoreIsTrue
      /\ DeletionStands
  BY DEF LinesAreFiled, FilesAreKept, DumpIsTrue, RestoreIsTrue, DeletionStands
<1>4. WritersAreAlone /\ SummariesAreTrue
  BY DEF WritersAreAlone, SummariesAreTrue, Writing, Stored, At
<1>5. QED
  BY <1>1, <1>2, <1>3, <1>4 DEF RetentionInv

\* The text a write adds is new, and is one.
LEMMA NewText ==
  ASSUME StoreOK, Numbered, NEW record \in RecordIds,
         Cardinality(written) < MaxWrites
  PROVE  LET new == <<record, Cardinality(written) + 1>>
         IN /\ new \in Texts /\ new \notin written
            /\ IsFiniteSet(written \cup {new})
            /\ Cardinality(written \cup {new}) = Cardinality(written) + 1
            /\ \A t \in written \cup {new} : t[2] <= Cardinality(written) + 1
<1> DEFINE n == Cardinality(written)
           new == <<record, n + 1>>
<1>1. n \in Nat /\ IsFiniteSet(written)
  BY FS_CardinalityType DEF Numbered
<1>2. \A t \in written : t[2] <= n /\ t[2] \in Nat
  BY DeletionsAssumption DEF Numbered, StoreOK, Texts
<1> HIDE DEF n
<1>3. new[2] = n + 1 /\ new \notin written
  BY <1>1, <1>2
<1>4. new \in Texts
  BY <1>1, DeletionsAssumption DEF Texts, n
<1>5. IsFiniteSet(written \cup {new}) /\ Cardinality(written \cup {new}) = n + 1
  BY <1>1, <1>3, FS_AddElement DEF n
<1>6. \A t \in written \cup {new} : t[2] <= n + 1
  BY <1>1, <1>2, <1>3
<1>7. QED
  BY <1>3, <1>4, <1>5, <1>6 DEF n

\* Marking blocks stale keeps them blocks, with their ids and quotes.
Marked(records) == {[b EXCEPT !.stale = @ \/ b.id \in Citing(records)] : b \in blocks}
LEMMA Marking ==
  ASSUME StoreOK, IsFiniteSet(blocks), NEW records
  PROVE  /\ Marked(records) \subseteq Blocks /\ IsFiniteSet(Marked(records))
         /\ \A c \in Marked(records) : \E b \in blocks :
              /\ c.id = b.id /\ c.quotes = b.quotes
              /\ c.stale <=> (b.stale \/ b.id \in Citing(records))
         /\ \A b, c \in Marked(records) : b.id = c.id => b = c
         /\ {c.id : c \in Marked(records)} = {b.id : b \in blocks}
<1> DEFINE M(b) == [b EXCEPT !.stale = @ \/ b.id \in Citing(records)]
           f == [b \in blocks |-> M(b)]
<1>1. \A b \in blocks : /\ M(b) \in Blocks /\ M(b).id = b.id
                        /\ M(b).quotes = b.quotes
                        /\ M(b).stale <=> (b.stale \/ b.id \in Citing(records))
  BY DEF StoreOK, Blocks
<1>2. Marked(records) = {M(b) : b \in blocks}
  BY DEF Marked
<1>3. f \in Surjection(blocks, Marked(records))
  BY <1>2 DEF Surjection
<1>4. IsFiniteSet(Marked(records))
  BY <1>3, FS_Surjection
<1> HIDE DEF M
<1>5. \A b, c \in Marked(records) : b.id = c.id => b = c
  BY <1>1, <1>2 DEF StoreOK
<1>6. {c.id : c \in Marked(records)} = {b.id : b \in blocks}
  BY <1>1, <1>2
<1>7. QED
  BY <1>1, <1>2, <1>4, <1>5, <1>6

\* Removing texts leaves the names there are, and blocks and citations that
\* were there.
LEMMA Removing ==
  ASSUME StoreOK, NEW T \in SUBSET (rows \cup gone), Removed(T),
         UNCHANGED <<written, replies>>
  PROVE  /\ StoreOK'
         /\ rows' \cup gone' = rows \cup gone /\ gone \subseteq gone'
         /\ rows' \subseteq rows /\ blocks' \subseteq blocks
<1>1. /\ rows' = rows \ T /\ current' = current \ T /\ gone' = gone \cup T
      /\ blocks' = {b \in blocks : b.id \notin Citing(RecordsOf(T))}
      /\ sources' = {s \in sources : s[1] \notin Citing(RecordsOf(T))}
  BY DEF Removed
<1>2. rows' \cup gone' = rows \cup gone
  BY <1>1
<1>3. sources' \subseteq {b.id : b \in blocks'} \X (rows \cup gone)
  BY <1>1 DEF StoreOK
<1>4. QED
  BY <1>1, <1>2, <1>3 DEF StoreOK

\* Most steps leave the store and the calls alone.
LEMMA StoreUntouched ==
  ASSUME StoreOK, Numbered, UNCHANGED <<store, written, asks>>
  PROVE  StoreOK' /\ Numbered'
BY DEF StoreOK, Numbered, store

LEMMA WriteTypes ==
  ASSUME TypeOK, Numbered, NEW record \in RecordIds, Write(record),
         Slips({record}), UNCHANGED <<enabled, asks, backupVars>>
  PROVE  TypeOK' /\ Numbered'
<1> DEFINE new == <<record, Cardinality(written) + 1>>
<1>1. StoreOK /\ TrailOK /\ ProcessesOK
  BY DEF TypeOK
<1>2. /\ new \in Texts /\ new \notin written
      /\ IsFiniteSet(written \cup {new})
      /\ Cardinality(written \cup {new}) = Cardinality(written) + 1
      /\ \A t \in written \cup {new} : t[2] <= Cardinality(written) + 1
  BY <1>1, NewText DEF Write
<1>3. /\ written' = written \cup {new} /\ rows' = rows \cup {new}
      /\ current' = (current \ Of(current, record)) \cup {new}
      /\ blocks' = Marked({record})
      /\ UNCHANGED <<gone, sources, replies, mirror, pending, clock>>
  BY DEF Write, Marked
<1> HIDE DEF new
<1>4. /\ blocks' \subseteq Blocks /\ IsFiniteSet(blocks')
      /\ \A b, c \in blocks' : b.id = c.id => b = c
      /\ {b.id : b \in blocks'} = {b.id : b \in blocks}
  BY <1>1, <1>3, Marking DEF Numbered
<1>5. sources' \subseteq {b.id : b \in blocks'} \X (rows' \cup gone')
  BY <1>1, <1>3, <1>4 DEF StoreOK
<1>6. StoreOK'
  BY <1>1, <1>2, <1>3, <1>4, <1>5 DEF StoreOK
<1>7. TrailOK'
  BY <1>1, <1>3, Spending DEF TrailOK, Write, Kinds
<1>8. ProcessesOK'
  BY <1>1 DEF ProcessesOK, Slips, backupVars, Idle
<1>9. Numbered'
  BY <1>2, <1>3, <1>4 DEF Numbered
<1>10. QED
  BY <1>6, <1>7, <1>8, <1>9 DEF TypeOK

LEMMA ForgetTypes ==
  ASSUME TypeOK, Numbered, NEW targets \in SUBSET rows, Forget(targets),
         Slips(RecordsOf(targets)), UNCHANGED <<enabled, asks, backupVars>>
  PROVE  TypeOK' /\ Numbered'
<1>1. StoreOK /\ TrailOK /\ ProcessesOK
  BY DEF TypeOK
<1>2. /\ Removed(targets) /\ replies' = replies \cup {targets}
      /\ pending' = targets
      /\ UNCHANGED <<mirror, written, clock>>
  BY DEF Forget
<1>3. /\ rows' = rows \ targets /\ current' = current \ targets
      /\ gone' = gone \cup targets
      /\ blocks' = {b \in blocks : b.id \notin Citing(RecordsOf(targets))}
      /\ sources' = {x \in sources : x[1] \notin Citing(RecordsOf(targets))}
  BY <1>2 DEF Removed
<1>4. sources' \subseteq {b.id : b \in blocks'} \X (rows' \cup gone')
  BY <1>1, <1>3 DEF StoreOK
<1>5. targets \subseteq Texts
  BY <1>1 DEF StoreOK
<1>6. StoreOK'
  BY <1>1, <1>2, <1>3, <1>4, <1>5 DEF StoreOK
<1>7. TrailOK'
  BY <1>1, <1>2, <1>3, Spending DEF TrailOK, Forget, Kinds
<1>8. ProcessesOK'
  BY <1>1 DEF ProcessesOK, Slips, backupVars, Idle
<1>9. IsFiniteSet(blocks')
  BY <1>3, FS_Subset DEF Numbered
<1>10. Numbered'
  BY <1>2, <1>3, <1>9 DEF Numbered
<1>11. QED
  BY <1>6, <1>7, <1>8, <1>10 DEF TypeOK

LEMMA AnswerTypes ==
  ASSUME TypeOK, Numbered,
         \/ /\ \/ \E targets \in orphans : Repeat(targets)
               \/ Mirror \/ MirrorFails \/ Tick
            /\ UNCHANGED <<summaryVars, backupVars>>
         \/ \E record \in RecordIds : Credit(record) /\ UNCHANGED summaryVars
         \/ Switch /\ UNCHANGED backupVars
         \/ ServiceDies
  PROVE  TypeOK' /\ Numbered'
<1> USE DEF TypeOK
<1>1. UNCHANGED <<store, written>>
  BY DEF Repeat, Mirror, MirrorFails, Tick, Credit, Switch, ServiceDies, Dies,
         trail
<1>2. asks' \in [Askers -> Asks \cup {None}] /\ (Idle => Idle')
      /\ \A p \in Askers : asks'[p] # None => asks'[p] = asks[p]
  BY DEF ProcessesOK, ServiceDies, summaryVars, Switch, Idle
<1>3. StoreOK'
  BY <1>1 DEF StoreOK, store
<1>4. Numbered'
  BY <1>1, <1>2 DEF Numbered, store
<1>5. TrailOK'
  <2>1. ASSUME Mirror PROVE TrailOK'
    <3>1. pending \in SUBSET Texts
      BY <2>1 DEF Mirror, TrailOK, StoreOK
    <3>2. Lines(pending) \subseteq [record : RecordIds, at : Nat]
      BY <3>1 DEF TrailOK, Lines, RecordsOf, Texts
    <3>3. QED
      BY <2>1, <3>2 DEF Mirror, TrailOK
  <2>2. ASSUME MirrorFails PROVE TrailOK'
    BY <1>1, <2>2, Spending DEF MirrorFails, TrailOK, Kinds, store
  <2>3. ASSUME NEW targets, Repeat(targets) PROVE TrailOK'
    BY <1>1, <2>3 DEF Repeat, TrailOK, store
  <2>4. ASSUME Tick PROVE TrailOK'
    BY <1>1, <2>4, Spending DEF Tick, TrailOK, Kinds, store
  <2>5. ASSUME NEW record, Credit(record) PROVE TrailOK'
    BY <1>1, <2>5, Spending DEF Credit, TrailOK, Kinds, store, trail
  <2>6. ASSUME Switch PROVE TrailOK'
    BY <1>1, <2>6, Spending DEF Switch, TrailOK, Kinds, store, trail
  <2>7. ASSUME ServiceDies PROVE TrailOK'
    BY <1>1, <2>7, Spending DEF ServiceDies, Dies, TrailOK, Kinds, store
  <2>8. QED
    BY <2>1, <2>2, <2>3, <2>4, <2>5, <2>6, <2>7
<1>6. ProcessesOK'
  <2>1. UNCHANGED <<dump, files, restoring, down>> /\ slipped' \in BOOLEAN
    BY DEF backupVars, Credit, ServiceDies, ProcessesOK, summaryVars, Switch
  <2>2. QED
    BY <1>2, <2>1 DEF ProcessesOK
<1>7. QED
  BY <1>3, <1>4, <1>5, <1>6

\* A call in progress, and what it becomes.
LEMMA AskType ==
  ASSUME ProcessesOK, NEW p \in Askers, asks[p] # None
  PROVE  /\ asks[p] \in Asks /\ asks[p].rows \in SUBSET Texts
         /\ asks[p].stale \in BOOLEAN /\ asks[p].block \in Nat \cup {None}
BY DEF ProcessesOK, Asks

LEMMA Stepped ==
  ASSUME ProcessesOK, Numbered, ~down, NEW p \in Askers, NEW ask,
         ask \in Asks \cup {None},
         ask # None => ask.rows \subseteq rows \cup gone, Step(p, ask),
         IsFiniteSet(blocks'), slipped' \in BOOLEAN, UNCHANGED backupVars
  PROVE  /\ ProcessesOK' /\ Numbered'
         /\ \A q \in Askers : asks'[q] = IF q = p THEN ask ELSE asks[q]
<1>1. /\ asks' \in [Askers -> Asks \cup {None}]
      /\ \A q \in Askers : asks'[q] = IF q = p THEN ask ELSE asks[q]
  BY DEF ProcessesOK, Step
<1>2. Numbered'
  BY <1>1 DEF Numbered, Step, trail
<1>3. ProcessesOK'
  BY <1>1 DEF ProcessesOK, backupVars
<1>4. QED
  BY <1>1, <1>2, <1>3

\* An id nobody uses.
LEMMA UnusedIsNew ==
  ASSUME IsFiniteSet(blocks)
  PROVE  Unused \in Nat /\ Unused \notin Taken
<1> DEFINE c == Cardinality(Taken)
           B == {b.id : b \in blocks}
           Q == {q \in Askers : asks[q] # None}
           A == {asks[q].block : q \in Q}
<1>1. IsFiniteSet(B)
  <2> DEFINE f == [b \in blocks |-> b.id]
  <2>1. f \in Surjection(blocks, B)
    BY DEF Surjection
  <2>2. QED
    BY <2>1, FS_Surjection
<1>2. IsFiniteSet(A)
  <2> DEFINE f == [q \in Q |-> asks[q].block]
  <2>1. f \in Surjection(Q, A)
    BY DEF Surjection
  <2>2. IsFiniteSet(Q)
    BY SummariesAssumption, FS_Subset
  <2>3. QED
    BY <2>1, <2>2, FS_Surjection
<1>3. IsFiniteSet(Taken)
  <2>1. Taken = B \cup A
    BY DEF Taken
  <2> HIDE DEF A, B
  <2>2. QED
    BY <1>1, <1>2, <2>1, FS_Union
<1>4. c \in Nat
  BY <1>3, FS_CardinalityType
<1>5. IsFiniteSet(0..c) /\ Cardinality(0..c) = c + 1
  <2> HIDE DEF c
  <2>1. c \in Int /\ 0 \in Int /\ ~(0 > c) /\ c - 0 + 1 = c + 1
    BY <1>4
  <2>2. QED
    BY <2>1, FS_Interval
<1>6. \E n \in 0..c : n \notin Taken
  <2> SUFFICES ASSUME 0..c \in SUBSET Taken PROVE FALSE
    OBVIOUS
  <2>1. Cardinality(0..c) <= c
    BY <1>3, FS_Subset
  <2>2. QED
    BY <1>4, <1>5, <2>1
<1>7. Unused \in 0..c /\ Unused \notin Taken
  BY <1>6 DEF Unused
<1>8. QED
  BY <1>4, <1>7

\* The block a call writes.
LEMMA BlockType ==
  ASSUME ProcessesOK, NEW p \in Askers, asks[p] # None, NEW i \in Nat
  PROVE  /\ Block(p, i) \in Blocks /\ Block(p, i).id = i
         /\ Block(p, i).quotes = asks[p].rows
         /\ Block(p, i).stale = asks[p].stale
<1> DEFINE R == asks[p].rows
           st == asks[p].stale
<1>1. R \in SUBSET Texts /\ st \in BOOLEAN
  BY AskType
<1>2. Block(p, i) = [id |-> i, quotes |-> R, stale |-> st]
  BY DEF Block
<1> HIDE DEF R, st
<1>3. [id |-> i, quotes |-> R, stale |-> st] \in Blocks
  BY <1>1 DEF Blocks
<1>4. QED
  BY <1>2, <1>3 DEF R, st

LEMMA SummaryTypes ==
  ASSUME TypeOK, Numbered, ~down, NEW p \in Askers, UNCHANGED backupVars,
         \/ Gather(p) \/ NoSummary(p) \/ LookAgain(p) \/ Find(p) \/ Create(p)
         \/ Update(p) \/ ClearSources(p) \/ CiteSources(p)
  PROVE  TypeOK' /\ Numbered'
<1>1. StoreOK /\ TrailOK /\ ProcessesOK /\ IsFiniteSet(blocks)
  BY DEF TypeOK, Numbered
<1>2. asks[p] # None =>
        /\ asks[p] \in Asks /\ asks[p].rows \subseteq rows \cup gone
        /\ asks[p].rows \subseteq Texts
  BY <1>1, AskType DEF Numbered
<1>3. ASSUME NEW ask, ask \in Asks \cup {None}, Step(p, ask),
             ask # None => ask.rows \subseteq rows \cup gone,
             slipped' \in BOOLEAN, IsFiniteSet(blocks'),
             blocks' \subseteq Blocks,
             \A b, c \in blocks' : b.id = c.id => b = c,
             sources' \subseteq {b.id : b \in blocks'} \X (rows \cup gone),
             budget' \in [Kinds -> Nat]
      PROVE  TypeOK' /\ Numbered'
  <2>1. ProcessesOK' /\ Numbered'
    BY <1>1, <1>3, Stepped
  <2>2. StoreOK'
    BY <1>1, <1>3 DEF StoreOK, Step, trail
  <2>3. TrailOK'
    BY <1>1, <1>3 DEF TrailOK, Step, trail
  <2>4. QED
    BY <2>1, <2>2, <2>3 DEF TypeOK
<1>4. ASSUME NEW ask, ask \in Asks \cup {None}, Step(p, ask),
             ask # None => ask.rows \subseteq rows \cup gone,
             slipped' \in BOOLEAN, UNCHANGED <<blocks, sources>>,
             budget' \in [Kinds -> Nat]
      PROVE  TypeOK' /\ Numbered'
  BY <1>1, <1>3, <1>4 DEF StoreOK
<1>5. budget \in [Kinds -> Nat] /\ slipped \in BOOLEAN
  BY <1>1 DEF TrailOK, ProcessesOK
<1>6. CASE Gather(p)
  <2> DEFINE ask == [at |-> "asking", rows |-> current, stale |-> FALSE,
                     block |-> None]
  <2>1. ask \in Asks /\ ask.rows \subseteq rows \cup gone
    BY <1>1 DEF Asks, StoreOK
  <2>2. Step(p, ask) /\ UNCHANGED <<blocks, sources, slipped>>
    BY <1>6 DEF Gather
  <2>3. budget' \in [Kinds -> Nat]
    BY <1>1, <1>6, Spending DEF Gather, Kinds
  <2> HIDE DEF ask
  <2>4. QED
    BY <1>4, <1>5, <2>1, <2>2, <2>3
<1>7. CASE NoSummary(p)
  <2>1. Step(p, None) /\ UNCHANGED <<blocks, sources, slipped, budget>>
    BY <1>7 DEF NoSummary
  <2>2. QED
    BY <1>4, <1>5, <2>1
<1>8. CASE LookAgain(p)
  <2> DEFINE ask == [asks[p] EXCEPT !.at = "checked",
                                    !.stale = ~HeldStill(asks[p].rows)]
  <2>1. asks[p] # None
    BY <1>8 DEF LookAgain, At
  <2>2. ask \in Asks /\ ask.rows \subseteq rows \cup gone
    BY <1>2, <2>1 DEF Asks
  <2>3. /\ Step(p, ask) \/ Step(p, None)
        /\ UNCHANGED <<blocks, sources, budget>> /\ slipped' \in BOOLEAN
    BY <1>5, <1>8 DEF LookAgain
  <2> HIDE DEF ask
  <2>4. QED
    BY <1>4, <1>5, <2>2, <2>3
<1>9. CASE Find(p)
  <2>1. asks[p] # None
    BY <1>9 DEF Find, At
  <2>2. PICK i \in IF blocks = {} THEN {None} ELSE {x.id : x \in blocks} :
          Step(p, [asks[p] EXCEPT !.at = "found", !.block = i])
    BY <1>9 DEF Find
  <2>3. i \in Nat \cup {None}
    BY <1>1 DEF StoreOK, Blocks
  <2> DEFINE ask == [asks[p] EXCEPT !.at = "found", !.block = i]
  <2>4. ask \in Asks /\ ask.rows \subseteq rows \cup gone
    BY <1>2, <2>1, <2>3 DEF Asks
  <2>5. Step(p, ask) /\ UNCHANGED <<blocks, sources, slipped, budget>>
    BY <1>9, <2>2 DEF Find
  <2> HIDE DEF ask
  <2>6. QED
    BY <1>4, <1>5, <2>4, <2>5
<1>10. CASE Create(p)
  <2>1. asks[p] # None
    BY <1>10 DEF Create, At
  <2>2. Unused \in Nat /\ Unused \notin {b.id : b \in blocks}
    BY <1>1, UnusedIsNew DEF Taken
  <2> DEFINE u == Unused
             new == Block(p, u)
             ask == [asks[p] EXCEPT !.at = "stored", !.block = u]
  <2>3. /\ blocks' = blocks \cup {new} /\ Step(p, ask)
        /\ UNCHANGED <<sources, budget, slipped>>
    BY <1>10 DEF Create
  <2> HIDE DEF u
  <2>4. u \in Nat /\ u \notin {b.id : b \in blocks}
    BY <2>2 DEF u
  <2>5. new \in Blocks /\ new.id = u
    BY <1>1, <2>1, <2>4, BlockType
  <2>6. ask \in Asks /\ ask.rows \subseteq rows \cup gone
    BY <1>2, <2>1, <2>4 DEF Asks
  <2> HIDE DEF new, ask
  <2>7. IsFiniteSet(blocks') /\ blocks' \subseteq Blocks
    BY <1>1, <2>3, <2>5, FS_AddElement DEF StoreOK
  <2>8. \A b, c \in blocks' : b.id = c.id => b = c
    BY <1>1, <2>3, <2>4, <2>5 DEF StoreOK
  <2>9. sources' \subseteq {b.id : b \in blocks'} \X (rows \cup gone)
    BY <1>1, <2>3 DEF StoreOK
  <2>10. QED
    BY <1>3, <1>5, <2>3, <2>6, <2>7, <2>8, <2>9
<1>11. CASE Update(p)
  <2> DEFINE i == asks[p].block
             old == {b \in blocks : b.id = i}
             new == Block(p, i)
             ask == [asks[p] EXCEPT !.at = "stored"]
  <2>1. asks[p] # None
    BY <1>11 DEF Update, At
  <2>2. UNCHANGED <<sources, budget, slipped>>
    BY <1>11 DEF Update
  <2>3. CASE old = {}
    <3>1. Step(p, None) /\ UNCHANGED blocks
      BY <1>11, <2>3 DEF Update
    <3>2. QED
      BY <1>4, <1>5, <2>2, <3>1
  <2>4. CASE old # {}
    <3>1. blocks' = (blocks \ old) \cup {new} /\ Step(p, ask)
      BY <1>11, <2>4 DEF Update
    <3>2. i \in Nat
      BY <1>1, <2>4 DEF StoreOK, Blocks
    <3>3. new \in Blocks /\ new.id = i
      BY <1>1, <2>1, <3>2, BlockType
    <3>4. ask \in Asks /\ ask.rows \subseteq rows \cup gone
      BY <1>2, <2>1 DEF Asks
    <3> HIDE DEF new, ask, i
    <3>5. IsFiniteSet(blocks \ old)
      BY <1>1, FS_Subset
    <3>6. IsFiniteSet(blocks') /\ blocks' \subseteq Blocks
      BY <1>1, <3>1, <3>3, <3>5, FS_AddElement DEF StoreOK
    <3>7. \A b, c \in blocks' : b.id = c.id => b = c
      BY <1>1, <3>1, <3>3 DEF StoreOK
    <3>8. {b.id : b \in blocks} \subseteq {b.id : b \in blocks'}
      BY <3>1, <3>3
    <3>9. sources' \subseteq {b.id : b \in blocks'} \X (rows \cup gone)
      BY <1>1, <2>2, <3>8 DEF StoreOK
    <3>10. QED
      BY <1>3, <1>5, <2>2, <3>1, <3>4, <3>6, <3>7, <3>9
  <2>5. QED
    BY <2>3, <2>4
<1>12. CASE ClearSources(p)
  <2> DEFINE ask == [asks[p] EXCEPT !.at = "cleared"]
  <2>1. asks[p] # None
    BY <1>12 DEF ClearSources, At
  <2>2. ask \in Asks /\ ask.rows \subseteq rows \cup gone
    BY <1>2, <2>1 DEF Asks
  <2>3. /\ Step(p, ask) /\ UNCHANGED <<blocks, budget, slipped>>
        /\ sources' \subseteq sources
    BY <1>12 DEF ClearSources, Others
  <2> HIDE DEF ask
  <2>4. sources' \subseteq {b.id : b \in blocks'} \X (rows \cup gone)
    BY <1>1, <2>3 DEF StoreOK
  <2>5. IsFiniteSet(blocks') /\ blocks' \subseteq Blocks
        /\ \A b, c \in blocks' : b.id = c.id => b = c
    BY <1>1, <2>3 DEF StoreOK
  <2>6. QED
    BY <1>3, <1>5, <2>2, <2>3, <2>4, <2>5
<1>13. CASE CiteSources(p)
  <2> DEFINE new == {asks[p].block} \X asks[p].rows
  <2>1. /\ asks[p] # None /\ Step(p, None)
        /\ UNCHANGED <<blocks, budget, slipped>>
        /\ \/ sources' = sources
           \/ /\ sources' = sources \cup new
              /\ asks[p].block \in {b.id : b \in blocks}
    BY <1>13 DEF CiteSources, At
  <2>2. sources' \subseteq {b.id : b \in blocks'} \X (rows \cup gone)
    BY <1>1, <1>2, <2>1 DEF StoreOK
  <2>3. IsFiniteSet(blocks') /\ blocks' \subseteq Blocks
        /\ \A b, c \in blocks' : b.id = c.id => b = c
    BY <1>1, <2>1 DEF StoreOK
  <2> HIDE DEF new
  <2>4. QED
    BY <1>3, <1>5, <2>1, <2>2, <2>3
<1>14. QED
  BY <1>6, <1>7, <1>8, <1>9, <1>10, <1>11, <1>12, <1>13

\* What the tables hold, and what a restore holds, in parts.
LEMMA AllType ==
  ASSUME StoreOK
  PROVE  /\ All \in Contents
         /\ All.rows.live = rows /\ All.rows.current = current
         /\ All.rows.gone = gone /\ All.blocks = blocks
         /\ All.sources = sources /\ All.replies = replies
<1>1. /\ rows \in SUBSET Texts /\ current \in SUBSET Texts
      /\ gone \in SUBSET Texts
  BY DEF StoreOK
<1>2. [live |-> rows, current |-> current, gone |-> gone] \in RowTable
  BY <1>1 DEF RowTable
<1>3. sources \in SUBSET (Nat \X Texts)
  BY DEF StoreOK, Blocks
<1>4. QED
  BY <1>2, <1>3 DEF All, Contents, StoreOK

LEMMA ContentsType ==
  ASSUME NEW c \in Contents
  PROVE  /\ c.rows \in RowTable /\ c.blocks \subseteq Blocks
         /\ c.rows.live \subseteq Texts /\ c.rows.current \subseteq Texts
         /\ c.rows.gone \subseteq Texts
         /\ c.sources \subseteq Nat \X Texts /\ c.replies \subseteq SUBSET Texts
BY DEF Contents, RowTable

LEMMA RestoreType ==
  ASSUME ProcessesOK, restoring # None
  PROVE  /\ restoring \in Restores /\ restoring.file \in Snapshots
         /\ restoring.at \in Nat /\ From \in Contents /\ down /\ Idle
         /\ restoring.lines \subseteq [record : RecordIds, at : Nat]
BY DEF ProcessesOK, Restores, Snapshots, From

LEMMA DumpType ==
  ASSUME ProcessesOK, dump # None
  PROVE  /\ dump \in Dumps /\ dump.at \in Nat /\ dump.takenAt \in Nat
         /\ dump.got \in Contents /\ dump.was \in Contents
         /\ dump.busy \in BOOLEAN /\ dump.half \in BOOLEAN
BY DEF ProcessesOK, Dumps

\* What reading a table leaves in the dump.
LEMMA ReadType ==
  ASSUME StoreOK, ProcessesOK, dump # None, dump.at \in Steps
  PROVE  LET got == Read(Tables[dump.at]) IN
         /\ got \in Contents
         /\ IF dump.at = 1 THEN got.rows = All.rows ELSE got.rows = dump.got.rows
         /\ IF dump.at = 2 THEN got.blocks = blocks ELSE got.blocks = dump.got.blocks
         /\ IF dump.at = 3 THEN got.sources = sources
            ELSE got.sources = dump.got.sources
<1>1. dump.got \in Contents /\ All \in Contents
  BY DumpType, AllType
<1>2. /\ All.rows \in RowTable /\ blocks \in SUBSET Blocks
      /\ sources \in SUBSET (Nat \X Texts) /\ replies \in SUBSET (SUBSET Texts)
  BY <1>1, AllType, ContentsType
<1>3. dump.at \in {1, 2, 3, 4}
  BY TablesInOrder
<1> DEFINE g == dump.got
           r == All.rows
<1> HIDE DEF g, r
<1>4. /\ Read("rows") = [g EXCEPT !.rows = r]
      /\ Read("blocks") = [g EXCEPT !.blocks = blocks]
      /\ Read("sources") = [g EXCEPT !.sources = sources]
      /\ Read("replies") = [g EXCEPT !.replies = replies]
  BY DEF Read, g, r
<1>5. g \in Contents /\ r \in RowTable
  BY <1>1, <1>2 DEF g, r
<1>6. CASE dump.at = 1
  BY <1>2, <1>4, <1>5, <1>6, TablesInOrder DEF Contents, g, r
<1>7. CASE dump.at = 2
  BY <1>2, <1>4, <1>5, <1>7, TablesInOrder DEF Contents, g, r
<1>8. CASE dump.at = 3
  BY <1>2, <1>4, <1>5, <1>8, TablesInOrder DEF Contents, g, r
<1>9. CASE dump.at = 4
  BY <1>2, <1>4, <1>5, <1>9, TablesInOrder DEF Contents, g, r
<1>10. QED
  BY <1>3, <1>6, <1>7, <1>8, <1>9

LEMMA SnapshotType ==
  ASSUME ProcessesOK, dump # None
  PROVE  /\ Snapshot \in Snapshots
         /\ Snapshot.takenAt = dump.takenAt /\ Snapshot.tables = dump.got
         /\ Snapshot.torn = dump.busy /\ Snapshot.half = dump.half
<1> DEFINE a == dump.takenAt
           g == dump.got
           b == dump.busy
           h == dump.half
<1>1. a \in Nat /\ g \in Contents /\ b \in BOOLEAN /\ h \in BOOLEAN
  BY DumpType
<1>2. Snapshot = [takenAt |-> a, tables |-> g, torn |-> b, half |-> h]
  BY DEF Snapshot
<1> HIDE DEF a, g, b, h
<1>3. Snapshot \in Snapshots
  BY <1>1, <1>2 DEF Snapshots
<1>4. /\ Snapshot.takenAt = a /\ Snapshot.tables = g /\ Snapshot.torn = b
      /\ Snapshot.half = h
  BY <1>2
<1>5. QED
  BY <1>3, <1>4 DEF a, g, b, h

LEMMA DumpTypes ==
  ASSUME TypeOK, Numbered, UNCHANGED summaryVars,
         Dump \/ ReadTable \/ WriteFile \/ Prune
  PROVE  TypeOK' /\ Numbered'
<1>1. StoreOK /\ TrailOK /\ ProcessesOK
  BY DEF TypeOK
<1>2. UNCHANGED <<store, trail, restoring, down>>
  BY DEF Dump, ReadTable, WriteFile, Prune, core
<1>3. StoreOK' /\ Numbered'
  BY <1>1, <1>2, StoreUntouched DEF summaryVars, trail
<1>4. TrailOK'
  <2>1. ASSUME Dump PROVE TrailOK'
    BY <1>1, <1>2, <2>1, Spending DEF Dump, TrailOK, store, trail, Kinds
  <2>2. ASSUME ReadTable \/ WriteFile \/ Prune PROVE TrailOK'
    BY <1>1, <1>2, <2>2 DEF ReadTable, WriteFile, Prune, core, TrailOK, store, trail
  <2>3. QED
    BY <2>1, <2>2
<1>5. dump' \in Dumps \cup {None} /\ files' \subseteq Snapshots
  <2>1. CASE Dump
    <3> DEFINE qu == ~Quiet
               al == All
    <3>1. qu \in BOOLEAN /\ al \in Contents /\ Empty \in Contents
          /\ clock \in Nat /\ down \in BOOLEAN
      BY <1>1, AllType DEF Quiet, Empty, Contents, RowTable, TrailOK, ProcessesOK
    <3>2. /\ dump' = [at |-> 1, takenAt |-> clock, got |-> Empty, was |-> al,
                      busy |-> qu, half |-> down]
          /\ files' = files
      BY <2>1 DEF Dump
    <3> HIDE DEF qu, al
    <3>3. QED
      BY <1>1, <3>1, <3>2 DEF Dumps, ProcessesOK
  <2>2. CASE ReadTable
    <3> DEFINE got == Read(Tables[dump.at])
               bu == dump.busy \/ ~Quiet \/ All # dump.was
    <3>1. dump # None /\ got \in Contents /\ bu \in BOOLEAN
      BY <1>1, <2>2, ReadType, DumpType DEF ReadTable, Quiet
    <3>2. /\ dump' = [dump EXCEPT !.at = @ + 1, !.got = got, !.busy = bu]
          /\ files' = files
      BY <2>2 DEF ReadTable
    <3>3. dump \in Dumps /\ dump.at + 1 \in Nat
      BY <1>1, <3>1, DumpType
    <3> DEFINE n == dump.at + 1
    <3>4. dump' = [dump EXCEPT !.at = n, !.got = got, !.busy = bu]
      BY <3>2
    <3> HIDE DEF got, bu, n
    <3>5. [dump EXCEPT !.at = n, !.got = got, !.busy = bu] \in Dumps
      BY <3>1, <3>3 DEF Dumps, n
    <3>6. QED
      BY <1>1, <3>2, <3>4, <3>5 DEF ProcessesOK
  <2>3. CASE WriteFile
    BY <1>1, <2>3, SnapshotType DEF WriteFile, Kept, ProcessesOK
  <2>4. CASE Prune
    BY <1>1, <2>4 DEF Prune, Kept, ProcessesOK
  <2>5. QED
    BY <2>1, <2>2, <2>3, <2>4
<1>6. ProcessesOK'
  BY <1>1, <1>2, <1>5 DEF ProcessesOK, summaryVars, Idle
<1>7. QED
  BY <1>3, <1>4, <1>6 DEF TypeOK

\* The steps of a restore.
LEMMA RestoreTypes ==
  ASSUME TypeOK, Numbered, LinesAreFiled, RestoreIsTrue, UNCHANGED summaryVars,
         \/ \E f \in files : Clear(f)
         \/ LoadRows \/ LoadBlocks \/ LoadSources \/ LoadReplies
         \/ ReadLedger \/ Replay \/ Restored \/ RestoreDies
  PROVE  TypeOK' /\ Numbered'
<1>1. StoreOK /\ TrailOK /\ ProcessesOK /\ IsFiniteSet(blocks)
  BY DEF TypeOK, Numbered
<1>2. Idle
  BY <1>1 DEF ProcessesOK, Clear, LoadRows, LoadBlocks, LoadSources,
     LoadReplies, Loading, ReadLedger, Replay, Restored, RestoreDies
<1>3. UNCHANGED <<asks, slipped, written, mirror, pending, clock, dump, files>>
  BY DEF summaryVars, Clear, LoadRows, LoadBlocks, LoadSources, LoadReplies,
     ReadLedger, Replay, Restored, RestoreDies, Rest, core, trail
<1>4. ASSUME StoreOK', IsFiniteSet(blocks'), restoring' \in Restores \cup {None},
             down' \in BOOLEAN, restoring' # None => down',
             budget' \in [Kinds -> Nat], pending = None
      PROVE  TypeOK' /\ Numbered'
  <2>1. TrailOK'
    BY <1>1, <1>3, <1>4 DEF TrailOK
  <2>2. ProcessesOK'
    BY <1>1, <1>2, <1>3, <1>4 DEF ProcessesOK, Idle
  <2>3. Numbered'
    BY <1>1, <1>2, <1>3, <1>4 DEF Numbered, Idle
  <2>4. QED
    BY <1>4, <2>1, <2>2, <2>3 DEF TypeOK
<1>5. ASSUME NEW f \in files, Clear(f) PROVE TypeOK' /\ Numbered'
  <2>1. /\ rows' = {} /\ current' = {} /\ gone' = {} /\ blocks' = {}
        /\ sources' = {} /\ replies' = {} /\ down' = TRUE /\ pending = None
        /\ restoring' = [file |-> f, at |-> 1, lines |-> {}]
    BY <1>5 DEF Clear
  <2>2. StoreOK' /\ IsFiniteSet(blocks')
    BY <1>1, <1>3, <2>1, FS_EmptySet DEF StoreOK
  <2>3. restoring' \in Restores
    BY <1>1, <2>1 DEF ProcessesOK, Restores
  <2>4. budget' \in [Kinds -> Nat]
    BY <1>1, <1>5, Spending DEF Clear, Kinds
  <2>5. QED
    BY <1>4, <2>1, <2>2, <2>3, <2>4
\* The steps after the first leave the restore on, or end it.
<1>6. budget \in [Kinds -> Nat]
  BY <1>1 DEF TrailOK
<1> DEFINE On == restoring' \in Restores \cup {None} /\ down' = down
                 /\ budget' = budget
<1>7. ASSUME StoreOK', IsFiniteSet(blocks'), On, restoring # None
      PROVE  TypeOK' /\ Numbered'
  <2>1. down /\ pending = None
    BY <1>1, <1>7 DEF ProcessesOK, LinesAreFiled
  <2>2. QED
    BY <1>4, <1>6, <1>7, <2>1
<1> DEFINE f == restoring.file
           n == restoring.at
<1>8. restoring # None =>
        /\ From \in Contents /\ RowsFit(From.rows) /\ BlocksFit(From.blocks)
        /\ From.rows.live \subseteq Texts /\ From.blocks \subseteq Blocks
        /\ From.sources \subseteq Nat \X Texts /\ From.replies \subseteq SUBSET Texts
        /\ n \in 1..6 /\ (n <= 5 => Loads(n - 1))
        /\ restoring \in Restores
  BY <1>1, RestoreType, ContentsType, TablesInOrder
     DEF RestoreIsTrue, SnapshotFits, From
<1>9. ASSUME restoring # None, Loaded, UNCHANGED <<budget, down>> PROVE On
  <2>1. restoring \in Restores /\ n + 1 \in Nat
    BY <1>8, <1>9
  <2>2. restoring' = [restoring EXCEPT !.at = n + 1]
    BY <1>9 DEF Loaded
  <2> HIDE DEF n
  <2>3. QED
    BY <1>9, <2>1, <2>2 DEF Restores
<1>10. CASE LoadRows
  <2>1. /\ restoring # None /\ n = 1
        /\ rows' = From.rows.live /\ current' = From.rows.current
        /\ gone' = From.rows.gone /\ UNCHANGED <<blocks, sources, replies, written>>
    BY <1>3, <1>8, <1>10, TablesInOrder DEF LoadRows, Loading
  <2>2. blocks = {} /\ sources = {}
    BY <1>8, <2>1 DEF Loads
  <2>3. StoreOK'
    BY <1>1, <1>8, <2>1, <2>2 DEF StoreOK, RowsFit
  <2>4. On
    BY <1>9, <1>10, <2>1 DEF LoadRows, Rest
  <2> HIDE DEF On
  <2>5. QED
    BY <1>1, <1>7, <2>1, <2>3, <2>4
<1>11. CASE LoadBlocks
  <2>1. /\ restoring # None /\ n = 2 /\ blocks' = From.blocks
        /\ UNCHANGED <<rows, current, gone, sources, replies, written>>
    BY <1>3, <1>8, <1>11, TablesInOrder DEF LoadBlocks, Loading
  <2>2. sources = {}
    BY <1>8, <2>1 DEF Loads
  <2>3. StoreOK' /\ IsFiniteSet(blocks')
    BY <1>1, <1>8, <2>1, <2>2 DEF StoreOK, BlocksFit
  <2>4. On
    BY <1>9, <1>11, <2>1 DEF LoadBlocks, Rest
  <2> HIDE DEF On
  <2>5. QED
    BY <1>7, <2>1, <2>3, <2>4
<1>12. CASE LoadSources
  <2>1. /\ restoring # None
        /\ UNCHANGED <<rows, current, gone, blocks, replies, written>>
        /\ sources' \subseteq {b.id : b \in blocks} \X (rows \cup gone)
    <3>1. sources' = {s \in From.sources : /\ s[1] \in {b.id : b \in blocks}
                                           /\ s[2] \in rows \cup gone}
      BY <1>12 DEF LoadSources
    <3>2. restoring # None
      BY <1>12 DEF LoadSources, Loading
    <3>3. QED
      BY <1>3, <1>8, <1>12, <3>1, <3>2 DEF LoadSources
  <2>2. StoreOK'
    BY <1>1, <2>1 DEF StoreOK
  <2>3. On
    BY <1>9, <1>12, <2>1 DEF LoadSources, Rest, Fails
  <2> HIDE DEF On
  <2>4. QED
    BY <1>1, <1>7, <2>1, <2>2, <2>3
<1>13. CASE LoadReplies
  <2>1. /\ restoring # None /\ replies' = From.replies
        /\ UNCHANGED <<rows, current, gone, blocks, sources, written>>
    BY <1>3, <1>13 DEF LoadReplies, Loading
  <2>2. StoreOK'
    BY <1>1, <1>8, <2>1 DEF StoreOK
  <2>3. On
    BY <1>9, <1>13, <2>1 DEF LoadReplies, Rest
  <2> HIDE DEF On
  <2>4. QED
    BY <1>1, <1>7, <2>1, <2>2, <2>3
<1>14. CASE ReadLedger
  <2>1. restoring # None /\ UNCHANGED <<store, written, budget, down>>
    BY <1>3, <1>14 DEF ReadLedger, Rest
  <2>2. StoreOK' /\ IsFiniteSet(blocks')
    BY <1>1, <1>3, <2>1, StoreUntouched DEF store, StoreOK
  <2>3. On
    <3>1. restoring \in Restores /\ n + 1 \in Nat
      BY <1>8, <2>1
    <3>2. Since(f) \subseteq [record : RecordIds, at : Nat]
      BY <1>1 DEF Since, TrailOK
    <3>3. restoring' = [restoring EXCEPT !.at = n + 1, !.lines = Since(f)]
      BY <1>14 DEF ReadLedger
    <3> HIDE DEF n, f
    <3>4. QED
      BY <2>1, <3>1, <3>2, <3>3 DEF Restores
  <2> HIDE DEF On
  <2>4. QED
    BY <1>7, <2>1, <2>2, <2>3
<1>15. CASE Replay
  <2>1. PICK m \in restoring.lines :
          /\ Replayed(m.record)
          /\ restoring' = [restoring EXCEPT !.lines = @ \ {m}]
    BY <1>15 DEF Replay
  <2>2. restoring # None /\ UNCHANGED <<replies, written, budget, down>>
    BY <1>3, <1>15 DEF Replay, Rest
  <2>3. StoreOK' /\ blocks' \subseteq blocks
    BY <1>1, <2>1, <2>2, Removing DEF Replayed, Of
  <2>4. IsFiniteSet(blocks')
    BY <1>1, <2>3, FS_Subset
  <2>5. On
    BY <1>8, <2>1, <2>2 DEF Restores
  <2> HIDE DEF On
  <2>6. QED
    BY <1>7, <2>2, <2>3, <2>4, <2>5
<1>16. CASE Restored
  <2>1. /\ restoring # None /\ restoring' = None /\ down' = FALSE
        /\ UNCHANGED <<store, written, budget>>
    BY <1>16 DEF Restored, core, trail
  <2>2. StoreOK' /\ IsFiniteSet(blocks') /\ pending = None
    BY <1>1, <1>3, <2>1, StoreUntouched
       DEF store, StoreOK, ProcessesOK, LinesAreFiled
  <2>3. QED
    BY <1>4, <1>6, <2>1, <2>2
<1>17. CASE RestoreDies
  <2>1. /\ restoring # None /\ restoring' = None
        /\ UNCHANGED <<store, written, down>>
    BY <1>17 DEF RestoreDies, trail
  <2>2. /\ StoreOK' /\ IsFiniteSet(blocks') /\ pending = None
        /\ budget' \in [Kinds -> Nat] /\ down' \in BOOLEAN
    BY <1>1, <1>3, <1>17, <2>1, StoreUntouched, Spending
       DEF store, StoreOK, ProcessesOK, LinesAreFiled, RestoreDies, Kinds
  <2>3. QED
    BY <1>4, <2>1, <2>2
<1>18. QED
  BY <1>5, <1>10, <1>11, <1>12, <1>13, <1>14, <1>15, <1>16, <1>17

LEMMA TypeStep ==
  ASSUME TypeOK, Numbered, LinesAreFiled, RestoreIsTrue, [Next]_vars
  PROVE  TypeOK' /\ Numbered'
<1>1. CASE UNCHANGED vars
  BY <1>1 DEF vars, core, store, trail, summaryVars, backupVars, TypeOK, StoreOK,
     TrailOK, ProcessesOK, Idle, Numbered
<1>2. CASE ~down /\ Serves
  <2>1. ASSUME NEW record \in RecordIds, Write(record), Slips({record}),
               UNCHANGED <<enabled, asks, backupVars>>
        PROVE  TypeOK' /\ Numbered'
    BY <2>1, WriteTypes
  <2>2. ASSUME NEW T \in SUBSET rows, Forget(T), Slips(RecordsOf(T)),
               UNCHANGED <<enabled, asks, backupVars>>
        PROVE  TypeOK' /\ Numbered'
    BY <2>2, ForgetTypes
  <2>3. CASE SummariesNext /\ UNCHANGED backupVars
    BY <1>2, <2>3, AnswerTypes, SummaryTypes DEF SummariesNext
  <2>4. QED
    BY <1>2, <2>1, <2>2, <2>3, AnswerTypes DEF Serves
<1>3. CASE ServiceDies \/ (Tick /\ UNCHANGED <<summaryVars, backupVars>>)
  BY <1>3, AnswerTypes
<1>4. CASE BackupsNext /\ UNCHANGED summaryVars
  BY <1>4, DumpTypes, RestoreTypes DEF BackupsNext
<1>5. QED
  BY <1>1, <1>2, <1>3, <1>4 DEF Next

-----------------------------------------------------------------------------
(***************************************************************************)
(* Lines, snapshots, the dump and the restore.                             *)
(***************************************************************************)

\* What no step takes back; a line appended is stamped now.
Grows ==
  /\ written \subseteq written' /\ used \subseteq used' /\ mirror \subseteq mirror'
  /\ slipped => slipped'
  /\ clock' \in Nat /\ clock <= clock'
  /\ lined \subseteq lined'
  /\ lined' # lined => Mirror /\ lined' = lined \cup {<<t, clock>> : t \in pending}

LEMMA Slipping ==
  ASSUME NEW q, slipped' = (slipped \/ q)
  PROVE  slipped => slipped'
OBVIOUS

LEMMA Growing ==
  ASSUME TypeOK, [Next]_vars
  PROVE  Grows
<1>1. clock \in Nat
  BY DEF TypeOK, TrailOK
<1> USE <1>1 DEF Grows
<1>2. CASE UNCHANGED vars
  BY <1>2 DEF vars, core, trail, summaryVars, backupVars
<1>3. CASE Serves
  <2>1. ASSUME NEW record, Write(record), Slips({record}), UNCHANGED backupVars
        PROVE  Grows
    <3>1. slipped => slipped'
      BY <2>1, Slipping DEF Slips
    <3>2. QED
      BY <2>1, <3>1 DEF Write, backupVars
  <2>2. ASSUME NEW T, Forget(T), Slips(RecordsOf(T)), UNCHANGED backupVars
        PROVE  Grows
    <3>1. slipped => slipped'
      BY <2>2, Slipping DEF Slips
    <3>2. QED
      BY <2>2, <3>1 DEF Forget, backupVars
  <2>3. ASSUME NEW record, Credit(record), UNCHANGED summaryVars PROVE Grows
    BY <2>3 DEF Credit, trail, summaryVars
  <2>4. ASSUME NEW T, Repeat(T), UNCHANGED <<summaryVars, backupVars>> PROVE Grows
    BY <2>4 DEF Repeat, summaryVars, backupVars
  <2>5. ASSUME Mirror \/ MirrorFails, UNCHANGED <<summaryVars, backupVars>>
        PROVE  Grows
    BY <2>5 DEF Mirror, MirrorFails, summaryVars, backupVars
  <2>6. ASSUME SummariesNext, UNCHANGED backupVars PROVE Grows
    <3>1. UNCHANGED trail
      BY <2>6 DEF SummariesNext, Switch, Gather, NoSummary, LookAgain, Find,
         Create, Update, ClearSources, CiteSources, Step
    <3>2. slipped => slipped'
      BY <2>6, Slipping DEF SummariesNext, Switch, Gather, NoSummary, LookAgain,
         Find, Create, Update, ClearSources, CiteSources
    <3>3. QED
      BY <2>6, <3>1, <3>2 DEF trail, backupVars
  <2>7. QED
    BY <1>3, <2>1, <2>2, <2>3, <2>4, <2>5, <2>6 DEF Serves
<1>4. CASE ServiceDies
  <2>1. slipped => slipped'
    BY <1>4, Slipping DEF ServiceDies
  <2>2. QED
    BY <1>4, <2>1 DEF ServiceDies, Dies, backupVars
<1>5. CASE Tick /\ UNCHANGED <<summaryVars, backupVars>>
  BY <1>5 DEF Tick, summaryVars, backupVars
<1>6. CASE BackupsNext /\ UNCHANGED summaryVars
  <2>1. UNCHANGED trail /\ used \subseteq used'
    BY <1>6 DEF BackupsNext, Dump, ReadTable, WriteFile, Prune, Clear, LoadRows,
       LoadBlocks, LoadSources, LoadReplies, Rest, ReadLedger, Replay, Restored,
       RestoreDies, core
  <2>2. QED
    BY <1>6, <2>1 DEF trail, summaryVars
<1>7. QED
  BY <1>2, <1>3, <1>4, <1>5, <1>6 DEF Next

LEMMA LinesStep ==
  ASSUME TypeOK, LinesAreFiled, [Next]_vars
  PROVE  LinesAreFiled'
<1>1. Grows
  BY Growing
<1>2. ASSUME NEW l \in lined'
      PROVE  /\ l \in written' \X Nat /\ l[2] <= clock'
             /\ [record |-> l[1][1], at |-> l[2]] \in mirror'
  <2>1. CASE l \in lined
    BY <1>1, <2>1 DEF Grows, LinesAreFiled, TypeOK, TrailOK
  <2>2. CASE l \notin lined
    <3>1. PICK t \in pending : l = <<t, clock>>
      BY <1>1, <2>2 DEF Grows
    <3>2. Mirror /\ t \in written /\ clock \in Nat
      BY <1>1, <2>2, <3>1 DEF Grows, TypeOK, TrailOK, StoreOK, Mirror
    <3>3. [record |-> t[1], at |-> clock] \in mirror'
      BY <3>1, <3>2 DEF Mirror, Lines, RecordsOf
    <3>4. QED
      BY <1>1, <3>1, <3>2, <3>3 DEF Grows
  <2>3. QED
    BY <2>1, <2>2
<1>3. pending' # None => ~down'
  <2>1. CASE pending' = pending /\ down' = down
    BY <2>1 DEF LinesAreFiled
  <2>2. CASE pending' = None \/ ~down'
    BY <2>2
  <2>3. (pending' = pending /\ down' = down) \/ pending' = None \/ ~down'
    <3>1. CASE UNCHANGED vars
      BY <3>1 DEF vars, core, trail, backupVars
    <3>2. CASE ~down /\ (Serves \/ ServiceDies)
      <4>1. ~down' \/ UNCHANGED pending
        BY <3>2 DEF Serves, backupVars, Credit, trail, ServiceDies
      <4>2. QED
        BY <3>2, <4>1 DEF Serves, backupVars, Credit, ServiceDies
    <3>3. CASE Tick /\ UNCHANGED <<summaryVars, backupVars>>
      BY <3>3 DEF Tick, backupVars
    <3>4. CASE BackupsNext
      BY <3>4 DEF BackupsNext, Dump, ReadTable, WriteFile, Prune, Clear, LoadRows,
         LoadBlocks, LoadSources, LoadReplies, Rest, ReadLedger, Replay, Restored,
         RestoreDies, core, trail
    <3>5. QED
      BY <3>1, <3>2, <3>3, <3>4 DEF Next
  <2>4. QED
    BY <2>1, <2>2, <2>3
<1>4. QED
  BY <1>2, <1>3 DEF LinesAreFiled

\* A snapshot that fits goes on fitting.
LEMMA StillFits ==
  ASSUME Grows, TypeOK, NEW f \in Snapshots, SnapshotFits(f)
  PROVE  SnapshotFits(f)'
<1>1. f.takenAt \in Nat /\ f.takenAt <= clock /\ clock \in Nat
  BY DEF SnapshotFits, Snapshots, TypeOK, TrailOK
<1>2. f.takenAt <= clock'
  BY <1>1 DEF Grows
<1>3. \A at : Excused(at) => Excused(at)'
  BY DEF Excused, Grows
<1>4. Before(f.tables.rows, f.takenAt, f.half)'
  <2> SUFFICES ASSUME ~f.half, NEW l \in lined', l[1] \in f.tables.rows.live,
                      l[2] < f.takenAt
               PROVE  Excused(l[2])'
    BY DEF Before
  <2>1. l \in lined
    BY <1>1 DEF Grows
  <2>2. QED
    BY <1>3, <2>1 DEF SnapshotFits, Before
<1>5. Undisturbed' => Undisturbed
  BY DEF Undisturbed, Grows
<1>6. RowsFit(f.tables.rows)' /\ BlocksFit(f.tables.blocks)'
  BY DEF SnapshotFits, RowsFit, BlocksFit, Grows
<1>7. QED
  BY <1>2, <1>4, <1>5, <1>6 DEF SnapshotFits, Refers, Sound, Exact, TrueOf

\* The dump in progress becomes a snapshot that fits.
LEMMA DumpFits ==
  ASSUME ProcessesOK, DumpIsTrue, dump # None, dump.at \notin Steps
  PROVE  SnapshotFits(Snapshot)
<1>1. /\ Snapshot.takenAt = dump.takenAt /\ Snapshot.tables = dump.got
      /\ Snapshot.torn = dump.busy /\ Snapshot.half = dump.half
  BY SnapshotType
<1>2. dump.at = 5
  BY TablesInOrder DEF DumpIsTrue
<1>3. ~dump.busy => /\ dump.got.rows = dump.was.rows
                    /\ dump.got.blocks = dump.was.blocks
                    /\ dump.got.sources = dump.was.sources
  BY <1>2 DEF DumpIsTrue, HasRead
<1>4. dump.takenAt <= clock /\ RowsFit(dump.got.rows) /\ BlocksFit(dump.got.blocks)
      /\ Before(dump.got.rows, dump.takenAt, dump.half)
  BY DEF DumpIsTrue
<1>5. ~dump.busy => Refers(dump.got)
  BY <1>3 DEF DumpIsTrue, Refers
<1>6. ~dump.busy /\ ~dump.half /\ Undisturbed => Sound(dump.got)
  BY <1>3 DEF DumpIsTrue, Sound
<1>7. QED
  BY <1>1, <1>4, <1>5, <1>6 DEF SnapshotFits

LEMMA FilesStep ==
  ASSUME TypeOK, FilesAreKept, DumpIsTrue, [Next]_vars
  PROVE  FilesAreKept'
<1>1. Grows /\ ProcessesOK
  BY Growing DEF TypeOK
<1>2. \/ files' \subseteq files
      \/ dump # None /\ dump.at \notin Steps /\ files' \subseteq files \cup {Snapshot}
  BY DEF Next, vars, backupVars, Serves, Credit, ServiceDies, BackupsNext, Dump,
     ReadTable, WriteFile, Prune, Kept, Clear, LoadRows, LoadBlocks, LoadSources,
     LoadReplies, Rest, ReadLedger, Replay, Restored, RestoreDies
<1>3. ASSUME NEW f \in files' PROVE SnapshotFits(f)'
  <2>1. f \in Snapshots /\ SnapshotFits(f)
    BY <1>1, <1>2, DumpFits, SnapshotType DEF FilesAreKept, ProcessesOK
  <2>2. QED
    BY <1>1, <2>1, StillFits
<1>4. QED
  BY <1>3 DEF FilesAreKept

\* A dump that no step of its own touches stays true.
LEMMA DumpStaysTrue ==
  ASSUME TypeOK, DumpIsTrue, Grows, dump' = dump, restoring' = restoring, down' = down
  PROVE  DumpIsTrue'
<1> SUFFICES ASSUME dump # None PROVE DumpIsTrue'
  BY DEF DumpIsTrue
<1>1. clock \in Nat /\ clock' \in Nat /\ clock <= clock' /\ dump.takenAt \in Nat
      /\ dump.takenAt <= clock
  BY DumpType DEF TypeOK, TrailOK, Grows, DumpIsTrue
<1>2. \A at : Excused(at) => Excused(at)'
  BY DEF Excused, Grows
<1>3. Before(dump.got.rows, dump.takenAt, dump.half)'
  <2> SUFFICES ASSUME ~dump.half, NEW l \in lined', l[1] \in dump.got.rows.live,
                      l[2] < dump.takenAt
               PROVE  Excused(l[2])'
    BY DEF Before
  <2>1. l \in lined
    BY <1>1 DEF Grows
  <2>2. QED
    BY <1>2, <2>1 DEF DumpIsTrue, Before
<1>4. Undisturbed' => Undisturbed
  BY DEF Undisturbed, Grows
<1>5. RowsFit(dump.got.rows)' /\ BlocksFit(dump.got.blocks)'
  BY DEF DumpIsTrue, RowsFit, BlocksFit, Grows
<1>6. dump.takenAt <= clock'
  BY <1>1
<1>7. QED
  BY <1>3, <1>4, <1>5, <1>6 DEF DumpIsTrue, Refers, HasRead, Sound, Exact, TrueOf

\* What the store holds is fit to be dumped.
LEMMA AllFits ==
  ASSUME StoreOK, IsFiniteSet(blocks)
  PROVE  RowsFit(All.rows) /\ BlocksFit(blocks) /\ Refers(All)
BY AllType DEF StoreOK, RowsFit, BlocksFit, Refers

LEMMA DumpStep ==
  ASSUME TypeOK, Numbered, LinesAreFiled, DumpIsTrue, RestoreIsTrue,
         DeletionStands, SummariesAreTrue, [Next]_vars
  PROVE  DumpIsTrue'
<1>1. Grows /\ StoreOK /\ ProcessesOK /\ IsFiniteSet(blocks)
  BY Growing DEF TypeOK, Numbered
<1>2. CASE dump' = None
  BY <1>2 DEF DumpIsTrue
<1>3. CASE dump' = dump /\ dump # None
  <2>1. restoring' = restoring /\ down' = down
    BY <1>3 DEF DumpIsTrue, Next, vars, backupVars, Serves, Credit, ServiceDies,
       BackupsNext, Dump, ReadTable, WriteFile, Prune, Clear, LoadRows, Loading,
       LoadBlocks, LoadSources, LoadReplies, ReadLedger, Replay, Restored,
       RestoreDies
  <2>2. QED
    BY <1>1, <1>3, <2>1, DumpStaysTrue
<1>4. CASE Dump
  <2> DEFINE qu == ~Quiet
             al == All
             em == Empty
  <2>1. /\ restoring = None /\ UNCHANGED <<restoring, down, store, trail, used>>
        /\ dump' = [at |-> 1, takenAt |-> clock, got |-> em, was |-> al,
                    busy |-> qu, half |-> down]
    BY <1>4 DEF Dump
  <2>2. RowsFit(em.rows)' /\ BlocksFit(em.blocks)' /\ em.rows.live = {}
    BY FS_EmptySet DEF Empty, RowsFit, BlocksFit
  <2>3. Refers(al)
    BY <1>1, AllFits
  <2>4. ~qu /\ ~down /\ Undisturbed => Sound(al)
    BY <1>1, AllType DEF SummariesAreTrue, Sound, Quiet, Writing, Stored
  <2>5. Undisturbed' => Undisturbed
    BY <1>1 DEF Undisturbed, Grows
  <2>6. clock \in Nat /\ clock' = clock
    BY <2>1 DEF TypeOK, TrailOK, trail
  <2>7. qu \in BOOLEAN /\ down \in BOOLEAN
    BY <1>1 DEF ProcessesOK
  <2> HIDE DEF qu, al, em
  <2>8. /\ dump'.at = 1 /\ dump'.takenAt = clock /\ dump'.got = em /\ dump'.was = al
        /\ dump'.busy = qu /\ dump'.half = down
    BY <2>1
  <2>9. Before(dump.got.rows, dump.takenAt, dump.half)'
    BY <2>2, <2>8 DEF Before
  <2>10. HasRead(dump.at - 1)'
    BY <2>8 DEF HasRead
  <2>11. RowsFit(dump.got.rows)' /\ BlocksFit(dump.got.blocks)'
    BY <2>2, <2>8 DEF RowsFit, BlocksFit
  <2>12. Refers(dump.was)'
    BY <2>3, <2>8 DEF Refers
  <2>13. (~dump.busy /\ ~dump.half /\ Undisturbed => Sound(dump.was))'
    BY <2>4, <2>5, <2>7, <2>8 DEF Sound, Exact, TrueOf
  <2>14. QED
    BY <2>1, <2>6, <2>7, <2>8, <2>9, <2>10, <2>11, <2>12, <2>13, TablesInOrder
       DEF DumpIsTrue
<1>5. CASE ReadTable
  <2> DEFINE got == Read(Tables[dump.at])
             bu == dump.busy \/ ~Quiet \/ All # dump.was
             n == dump.at
  <2>1. /\ dump # None /\ n \in 1..4
        /\ UNCHANGED <<restoring, down, store, trail, used>>
        /\ dump' = [dump EXCEPT !.at = @ + 1, !.got = got, !.busy = bu]
    BY <1>5, TablesInOrder DEF ReadTable, core
  <2>2. /\ IF n = 1 THEN got.rows = All.rows ELSE got.rows = dump.got.rows
        /\ IF n = 2 THEN got.blocks = All.blocks ELSE got.blocks = dump.got.blocks
        /\ IF n = 3 THEN got.sources = All.sources
           ELSE got.sources = dump.got.sources
    BY <1>1, <2>1, ReadType, TablesInOrder, AllType
  <2>3. ~bu => ~dump.busy /\ All = dump.was
    OBVIOUS
  <2>4. dump \in Dumps /\ bu \in BOOLEAN /\ dump.takenAt <= clock
        /\ (dump.half <=> down)
    BY <1>1, <2>1, DumpType DEF DumpIsTrue
  <2> HIDE DEF got, bu
  <2>5. /\ dump'.at = n + 1 /\ dump'.takenAt = dump.takenAt /\ dump'.got = got
        /\ dump'.was = dump.was /\ dump'.busy = bu /\ dump'.half = dump.half
    BY <2>1, <2>4 DEF Dumps
  <2>6. RowsFit(got.rows) /\ BlocksFit(got.blocks)
    <3>1. RowsFit(All.rows) /\ BlocksFit(All.blocks)
      BY <1>1, AllFits, AllType
    <3>2. QED
      BY <2>1, <2>2, <3>1 DEF DumpIsTrue
  <2>7. Before(dump.got.rows, dump.takenAt, dump.half)'
    <3>1. Before(dump.got.rows, dump.takenAt, dump.half)
      BY <2>1 DEF DumpIsTrue
    <3>2. Before(All.rows, dump.takenAt, dump.half)
      BY <1>1, <2>4, AllType DEF Before, DeletionStands
    <3>3. Before(got.rows, dump.takenAt, dump.half)
      BY <2>2, <3>1, <3>2
    <3>4. QED
      BY <2>1, <2>5, <3>3 DEF Before, Excused, trail
  <2>8. (~dump.busy => HasRead(dump.at - 1))'
    <3>1. ~bu => HasRead(n - 1) /\ All = dump.was
      BY <2>1, <2>3 DEF DumpIsTrue
    <3>2. ~bu => /\ n >= 1 => got.rows = dump.was.rows
                 /\ n >= 2 => got.blocks = dump.was.blocks
                 /\ n >= 3 => got.sources = dump.was.sources
      BY <2>1, <2>2, <3>1 DEF HasRead
    <3>3. QED
      BY <2>1, <2>5, <3>2 DEF HasRead
  <2>9. Refers(dump.was)'
    BY <2>1, <2>5 DEF DumpIsTrue, Refers
  <2>10. (~dump.busy /\ ~dump.half /\ Undisturbed => Sound(dump.was))'
    <3>1. Undisturbed' => Undisturbed
      BY <1>1 DEF Undisturbed, Grows
    <3>2. ~bu /\ ~dump.half /\ Undisturbed => Sound(dump.was)
      BY <2>1, <2>3 DEF DumpIsTrue
    <3>3. QED
      BY <2>5, <3>1, <3>2 DEF Sound, Exact, TrueOf
  <2>11. RowsFit(dump.got.rows)' /\ BlocksFit(dump.got.blocks)'
    BY <1>1, <2>5, <2>6 DEF RowsFit, BlocksFit, Grows
  <2>12. (dump.takenAt <= clock)' /\ (dump.half <=> down)'
    BY <2>1, <2>4, <2>5 DEF trail
  <2>13. restoring' = None /\ dump'.at \in 1..5
    BY <2>1, <2>5 DEF DumpIsTrue
  <2>14. QED
    BY <2>7, <2>8, <2>9, <2>10, <2>11, <2>12, <2>13, TablesInOrder DEF DumpIsTrue
<1>6. QED
  BY <1>2, <1>3, <1>4, <1>5
     DEF Next, vars, backupVars, Serves, Credit, ServiceDies, BackupsNext,
         WriteFile, Prune, Clear, LoadRows, LoadBlocks, LoadSources,
         LoadReplies, Rest, ReadLedger, Replay, Restored, RestoreDies

\* What is loaded and replayed.
LEMMA RestoreStaysTrue ==
  ASSUME TypeOK, RestoreIsTrue, Grows, UNCHANGED <<store, used, lined, restoring>>
  PROVE  RestoreIsTrue'
<1> SUFFICES ASSUME restoring # None PROVE RestoreIsTrue'
  BY DEF RestoreIsTrue
<1>1. PICK f \in Snapshots : f = restoring.file
  BY RestoreType DEF TypeOK
<1>2. SnapshotFits(f)'
  BY <1>1, StillFits DEF RestoreIsTrue
<1>3. Undisturbed' => Undisturbed
  BY DEF Undisturbed, Grows
<1>4. All' = All
  BY DEF All, store
<1>5. Loads(restoring.at - 1) => Loads(restoring.at - 1)'
  BY DEF Loads, store
<1>6. Sound(All) => Sound(All)'
  BY <1>4 DEF Sound, Exact, TrueOf
<1>7. /\ [at |-> f.takenAt, torn |-> f.torn, half |-> f.half] \in used
      /\ restoring.at \in 1..(Len(Tables) + 2)
      /\ restoring.at <= Len(Tables) + 1 => Loads(restoring.at - 1)
      /\ restoring.at = Len(Tables) + 2 =>
           /\ \A l \in lined : l[1] \in rows =>
                Excused(l[2]) \/ [record |-> l[1][1], at |-> l[2]] \in restoring.lines
           /\ Undisturbed => Sound(All)
  BY <1>1 DEF RestoreIsTrue
<1>8. \A at : Excused(at) => Excused(at)'
  BY DEF Excused
<1>9. rows' = rows /\ restoring'.file = f
  BY <1>1 DEF store
<1>10. QED
  BY <1>2, <1>3, <1>5, <1>6, <1>7, <1>8, <1>9 DEF RestoreIsTrue

\* While a restore has not got to the lines: its file, and what it has loaded.
LEMMA LoadingIsTrue ==
  ASSUME Grows, NEW f \in Snapshots, TypeOK, SnapshotFits(f),
         [at |-> f.takenAt, torn |-> f.torn, half |-> f.half] \in used',
         restoring' # None => /\ restoring'.file = f /\ restoring'.at \in 1..5
                              /\ Loads(restoring.at - 1)'
  PROVE  RestoreIsTrue'
<1>1. SnapshotFits(f)'
  BY StillFits
<1>2. QED
  BY <1>1, TablesInOrder DEF RestoreIsTrue

LEMMA LoadStep ==
  ASSUME TypeOK, FilesAreKept, RestoreIsTrue, Grows,
         \/ \E f \in files : Clear(f)
         \/ LoadRows \/ LoadBlocks \/ LoadSources \/ LoadReplies
  PROVE  RestoreIsTrue'
<1>1. ProcessesOK
  BY DEF TypeOK
<1>2. ASSUME NEW f \in files, Clear(f) PROVE RestoreIsTrue'
  <2>1. /\ rows' = {} /\ current' = {} /\ gone' = {} /\ blocks' = {}
        /\ sources' = {} /\ restoring' = [file |-> f, at |-> 1, lines |-> {}]
        /\ [at |-> f.takenAt, torn |-> f.torn, half |-> f.half] \in used'
    BY <1>2 DEF Clear
  <2>2. restoring'.at = 1 /\ restoring'.file = f
    BY <2>1
  <2>3. Loads(restoring.at - 1)'
    BY <2>1, <2>2 DEF Loads
  <2>4. f \in Snapshots /\ SnapshotFits(f)
    BY <1>1 DEF ProcessesOK, FilesAreKept
  <2>5. QED
    BY <2>1, <2>2, <2>3, <2>4, LoadingIsTrue
<1>3. ASSUME LoadRows \/ LoadBlocks \/ LoadSources \/ LoadReplies
      PROVE  RestoreIsTrue'
  <2>1. restoring # None /\ used' = used
    BY <1>3 DEF LoadRows, LoadBlocks, LoadSources, LoadReplies, Loading, Rest
  <2>2. PICK f \in Snapshots : f = restoring.file
    BY <1>1, <2>1, RestoreType
  <2>3. PICK n \in 1..4 : n = restoring.at
    BY <1>3, TablesInOrder DEF LoadRows, LoadBlocks, LoadSources, LoadReplies,
       Loading
  <2>4. /\ SnapshotFits(f) /\ Loads(n - 1)
        /\ [at |-> f.takenAt, torn |-> f.torn, half |-> f.half] \in used'
    BY <2>1, <2>2, <2>3, TablesInOrder DEF RestoreIsTrue
  <2>5. restoring' # None => /\ restoring'.file = f /\ restoring'.at = n + 1
    <3>1. restoring' # None => restoring' = [restoring EXCEPT !.at = n + 1]
      BY <1>3, <2>3 DEF LoadRows, LoadBlocks, LoadSources, LoadReplies, Loaded,
         Fails
    <3>2. restoring \in Restores /\ n + 1 \in Nat
      BY <1>1, <2>1, RestoreType
    <3>3. QED
      BY <2>2, <3>1, <3>2 DEF Restores
  <2>6. restoring' # None =>
          /\ rows' = From.rows.live /\ current' = From.rows.current
          /\ gone' = From.rows.gone
          /\ blocks' = IF n >= 2 THEN From.blocks ELSE {}
          /\ sources' = IF n >= 3 THEN From.sources ELSE {}
    <3>1. CASE LoadRows
      BY <2>3, <2>4, <3>1, TablesInOrder DEF LoadRows, Loading, Loads, From
    <3>2. CASE LoadBlocks
      BY <2>3, <2>4, <3>2, TablesInOrder DEF LoadBlocks, Loading, Loads, From
    <3>3. CASE LoadSources
      BY <2>3, <2>4, <3>3, TablesInOrder
         DEF LoadSources, Loading, Loads, From, Fails
    <3>4. CASE LoadReplies
      BY <2>3, <2>4, <3>4, TablesInOrder DEF LoadReplies, Loading, Loads, From
    <3>5. QED
      BY <1>3, <3>1, <3>2, <3>3, <3>4
  <2>7. restoring' # None => Loads(restoring.at - 1)'
    BY <2>2, <2>3, <2>5, <2>6 DEF Loads, From
  <2>8. QED
    BY <2>2, <2>3, <2>4, <2>5, <2>7, LoadingIsTrue
<1>4. QED
  BY <1>2, <1>3

\* A block that outlives a removal cited none of it.
LEMMA OutlivesRemoval ==
  ASSUME StoreOK, NEW T \in SUBSET Texts, Removed(T), NEW b \in blocks'
  PROVE  /\ b \in blocks
         /\ Exact(sources, b) => Exact(sources', b) /\ b.quotes \cap T = {}
         /\ b.quotes \cap T = {} /\ TrueOf(rows, current, b) => TrueOf(rows', current', b)
<1>1. /\ rows' = rows \ T /\ current' = current \ T
      /\ blocks' = {x \in blocks : x.id \notin Citing(RecordsOf(T))}
      /\ sources' = {x \in sources : x[1] \notin Citing(RecordsOf(T))}
  BY DEF Removed
<1>2. b \in blocks /\ b.id \notin Citing(RecordsOf(T)) /\ b.quotes \subseteq Texts
  BY <1>1 DEF StoreOK, Blocks
<1>3. \A t : <<b.id, t>> \in sources' <=> <<b.id, t>> \in sources
  BY <1>1, <1>2
<1>4. \A t \in T : <<b.id, t>> \notin sources
  <2> SUFFICES ASSUME NEW t \in T, <<b.id, t>> \in sources PROVE FALSE
    OBVIOUS
  <2>1. t[1] \in RecordsOf(T)
    BY DEF RecordsOf
  <2>2. <<b.id, t>> \in {x \in sources : x[2][1] \in RecordsOf(T)}
    BY <2>1
  <2>3. b.id \in Citing(RecordsOf(T))
    BY <2>2 DEF Citing
  <2>4. QED
    BY <1>2, <2>3
<1>5. Exact(sources, b) => Exact(sources', b) /\ b.quotes \cap T = {}
  BY <1>3, <1>4 DEF Exact
<1>6. b.quotes \cap T = {} /\ TrueOf(rows, current, b) => TrueOf(rows', current', b)
  BY <1>1 DEF TrueOf
<1>7. QED
  BY <1>2, <1>5, <1>6

LEMMA ReplayStep ==
  ASSUME TypeOK, LinesAreFiled, RestoreIsTrue, Grows, ReadLedger \/ Replay
  PROVE  RestoreIsTrue'
<1>1. ProcessesOK /\ StoreOK
  BY DEF TypeOK
<1>2. restoring # None
  BY DEF ReadLedger, Replay
<1>3. PICK f \in Snapshots : f = restoring.file
  BY <1>1, <1>2, RestoreType
<1>4. /\ SnapshotFits(f) /\ SnapshotFits(f)' /\ restoring \in Restores
      /\ [at |-> f.takenAt, torn |-> f.torn, half |-> f.half] \in used
  BY <1>1, <1>2, <1>3, RestoreType, StillFits
     DEF RestoreIsTrue, ReadLedger, Replay, Rest, trail
<1>5. f.takenAt \in Nat /\ UNCHANGED <<used, lined>>
  BY DEF Snapshots, ReadLedger, Replay, Rest, trail
<1>6. \A at : Excused(at) => Excused(at)'
  BY <1>5 DEF Excused
<1>7. Undisturbed' => Undisturbed
  BY DEF Undisturbed, Grows
<1>8. CASE ReadLedger
  <2>1. restoring.at = 5 /\ UNCHANGED store
    BY <1>8, TablesInOrder DEF ReadLedger
  <2> DEFINE L == Since(restoring.file)
  <2>2. restoring' = [restoring EXCEPT !.at = @ + 1, !.lines = L]
    BY <1>8 DEF ReadLedger
  <2> HIDE DEF L
  <2>3. restoring'.file = f /\ restoring'.at = 6 /\ restoring'.lines = Since(f)
    <3>1. restoring'.file = f /\ restoring'.at = 6 /\ restoring'.lines = L
      BY <1>3, <1>4, <2>1, <2>2 DEF Restores
    <3>2. QED
      BY <1>3, <3>1 DEF L
  <2>4. Loads(4)
    BY <1>2, <2>1, TablesInOrder DEF RestoreIsTrue
  <2>5. /\ rows = f.tables.rows.live /\ current = f.tables.rows.current
        /\ blocks = f.tables.blocks /\ sources = f.tables.sources
    BY <1>3, <2>4 DEF Loads
  <2>6. ASSUME NEW l \in lined, l[1] \in rows
        PROVE  Excused(l[2]) \/ [record |-> l[1][1], at |-> l[2]] \in Since(f)
    <3>1. l[2] \in Nat /\ [record |-> l[1][1], at |-> l[2]] \in mirror
      BY DEF LinesAreFiled
    <3>2. CASE l[2] > f.takenAt
      BY <3>1, <3>2 DEF Since
    <3>3. CASE l[2] = f.takenAt \/ f.half
      BY <1>4, <3>3 DEF Excused
    <3>4. CASE l[2] < f.takenAt /\ ~f.half
      BY <1>4, <2>5, <2>6, <3>4 DEF SnapshotFits, Before
    <3>5. QED
      BY <1>5, <3>1, <3>2, <3>3, <3>4
  <2>7. Undisturbed => Sound(All)
    <3>1. Undisturbed => ~f.torn /\ ~f.half
      BY <1>4 DEF Undisturbed
    <3>2. Undisturbed => Sound(f.tables)
      BY <1>4, <3>1 DEF SnapshotFits
    <3>3. QED
      BY <1>1, <2>5, <3>2, AllType DEF Sound
  <2>8. rows' = rows /\ (Sound(All) => Sound(All)')
    BY <2>1 DEF store, All, Sound, Exact, TrueOf
  <2>9. QED
    BY <1>4, <1>5, <1>6, <1>7, <2>3, <2>6, <2>7, <2>8, TablesInOrder
       DEF RestoreIsTrue
<1>9. CASE Replay
  <2>1. restoring.at = 6
    BY <1>2, <1>9, TablesInOrder DEF Replay, RestoreIsTrue
  <2>2. PICK m \in restoring.lines :
          /\ Replayed(m.record)
          /\ restoring' = [restoring EXCEPT !.lines = @ \ {m}]
    BY <1>9 DEF Replay
  <2>3. /\ restoring'.file = f /\ restoring'.at = 6
        /\ restoring'.lines = restoring.lines \ {m}
    BY <1>3, <1>4, <2>1, <2>2 DEF Restores
  <2>4. PICK T : T = Of(rows \cup gone, m.record)
    OBVIOUS
  <2>5. Removed(T) /\ T \subseteq Texts /\ rows' = rows \ T
    BY <1>1, <2>2, <2>4 DEF Replayed, Of, StoreOK, Removed
  <2>6. ASSUME NEW l \in lined, l[1] \in rows'
        PROVE  \/ Excused(l[2])
               \/ [record |-> l[1][1], at |-> l[2]] \in restoring.lines \ {m}
    <3>1. l[1] \in rows /\ l[1] \notin T
      BY <2>5, <2>6
    <3>2. l[1][1] # m.record
      BY <2>4, <3>1 DEF Of
    <3>3. Excused(l[2]) \/ [record |-> l[1][1], at |-> l[2]] \in restoring.lines
      BY <1>2, <2>1, <3>1, TablesInOrder DEF RestoreIsTrue
    <3>4. QED
      BY <3>2, <3>3
  <2>7. Undisturbed => Sound(All)'
    <3>1. Undisturbed => Sound(All)
      BY <1>2, <2>1, TablesInOrder DEF RestoreIsTrue
    <3>2. ASSUME Undisturbed, NEW b \in blocks'
          PROVE  Exact(sources', b) /\ TrueOf(rows', current', b)
      BY <1>1, <2>5, <3>1, <3>2, OutlivesRemoval, AllType DEF Sound
    <3>3. QED
      BY <3>2 DEF Sound, All, Exact, TrueOf
  <2>8. QED
    BY <1>4, <1>5, <1>6, <1>7, <2>3, <2>6, <2>7, TablesInOrder DEF RestoreIsTrue
<1>10. QED
  BY <1>8, <1>9

LEMMA RestoreStep ==
  ASSUME TypeOK, LinesAreFiled, FilesAreKept, DumpIsTrue, RestoreIsTrue, [Next]_vars
  PROVE  RestoreIsTrue'
<1>1. Grows /\ ProcessesOK
  BY Growing DEF TypeOK
<1>2. CASE restoring' = None
  BY <1>2 DEF RestoreIsTrue
<1>3. CASE restoring' = restoring /\ restoring # None
  <2>1. down
    BY <1>1, <1>3 DEF ProcessesOK
  <2>2. ~ReadTable /\ ~WriteFile /\ ~Dump
    BY <1>3 DEF ReadTable, WriteFile, Dump, DumpIsTrue
  <2>3. UNCHANGED <<store, used, lined>> \/ ReadLedger \/ Replay
        \/ LoadRows \/ LoadBlocks \/ LoadSources \/ LoadReplies
    BY <1>3, <2>1, <2>2
       DEF Next, vars, core, trail, backupVars, Tick, BackupsNext, Prune,
           Clear, Restored, RestoreDies
  <2>4. QED
    BY <1>1, <1>3, <2>3, RestoreStaysTrue, ReplayStep, LoadStep
<1>4. CASE restoring' # restoring /\ restoring' # None
  <2>1. \/ \E f \in files : Clear(f)
        \/ LoadRows \/ LoadBlocks \/ LoadSources \/ LoadReplies
        \/ ReadLedger \/ Replay
    BY <1>4 DEF Next, vars, backupVars, Serves, Credit, ServiceDies, BackupsNext,
       Dump, ReadTable, WriteFile, Prune, Restored, RestoreDies
  <2>2. QED
    BY <1>1, <2>1, LoadStep, ReplayStep
<1>5. QED
  BY <1>2, <1>3, <1>4

-----------------------------------------------------------------------------
(***************************************************************************)
(* What was deleted stays so.                                              *)
(***************************************************************************)

\* While the service runs, only a write puts a text on file, and it is new.
LEMMA RowsOnlyGrowByNew ==
  ASSUME TypeOK, Numbered, ~down, ~down', [Next]_vars
  PROVE  rows' \cap written \subseteq rows
<1>1. CASE rows' \subseteq rows
  BY <1>1
<1>2. ASSUME NEW record \in RecordIds, Write(record) PROVE rows' \cap written \subseteq rows
  <2>1. rows' = rows \cup {<<record, Cardinality(written) + 1>>}
        /\ <<record, Cardinality(written) + 1>> \notin written
    BY <1>2, NewText DEF Write, TypeOK
  <2>2. QED
    BY <2>1
<1>3. ASSUME NEW T, Forget(T) PROVE rows' \subseteq rows
  BY <1>3 DEF Forget, Removed
<1>4. ASSUME SummariesNext PROVE rows' = rows
  BY <1>4 DEF SummariesNext, Switch, store, Gather, NoSummary, LookAgain, Find,
     Create, Update, ClearSources, CiteSources, Step
<1>5. ASSUME BackupsNext, ~\E f \in files : Clear(f), restoring = None
      PROVE  rows' = rows
  BY <1>5 DEF BackupsNext, Dump, ReadTable, WriteFile, Prune, LoadRows, Loading,
     LoadBlocks, LoadSources, LoadReplies, ReadLedger, Replay, Restored,
     RestoreDies, core, store
<1>6. restoring = None /\ ~\E f \in files : Clear(f)
  BY DEF TypeOK, ProcessesOK, Clear
<1>7. CASE UNCHANGED vars \/ Tick
  BY <1>7 DEF vars, core, store, Tick
<1>8. QED
  BY <1>1, <1>2, <1>3, <1>4, <1>5, <1>6, <1>7
     DEF Next, Serves, Credit, Repeat, Mirror, MirrorFails, ServiceDies, Dies, store

LEMMA DeletionStep ==
  ASSUME TypeOK, Numbered, LinesAreFiled, RestoreIsTrue, DeletionStands, [Next]_vars
  PROVE  DeletionStands'
<1>1. Grows /\ StoreOK
  BY Growing DEF TypeOK
<1>2. \A at : Excused(at) => Excused(at)'
  BY <1>1 DEF Excused, Grows
<1> SUFFICES ASSUME ~down', NEW l \in lined', l[1] \in rows'
             PROVE  Excused(l[2])'
  BY DEF DeletionStands
<1>3. CASE down
  <2>1. Restored
    BY <1>3 DEF Next, vars, backupVars, Tick, BackupsNext, Dump, ReadTable,
       WriteFile, Prune, Clear, LoadRows, LoadBlocks, LoadSources, LoadReplies,
       Rest, ReadLedger, Replay, RestoreDies
  <2>2. /\ restoring # None /\ restoring.lines = {} /\ restoring.at = 6
        /\ lined' = lined /\ rows' = rows
    BY <2>1, TablesInOrder DEF Restored, RestoreIsTrue, core, store, trail
  <2>3. QED
    BY <1>2, <2>2, TablesInOrder DEF RestoreIsTrue
<1>4. CASE ~down
  <2>1. CASE l \in lined
    <3>1. l[1] \in written
      BY <2>1 DEF LinesAreFiled
    <3>2. l[1] \in rows
      BY <1>4, <3>1, RowsOnlyGrowByNew
    <3>3. QED
      BY <1>2, <1>4, <2>1, <3>2 DEF DeletionStands
  <2>2. CASE l \notin lined
    <3>1. Mirror /\ l[1] \in pending
      BY <1>1, <2>2 DEF Grows
    <3>2. l[1] \in gone /\ rows' = rows
      BY <3>1 DEF Mirror, TypeOK, TrailOK, store
    <3>3. QED
      BY <1>1, <3>2 DEF StoreOK
  <2>3. QED
    BY <2>1, <2>2
<1>5. QED
  BY <1>3, <1>4

-----------------------------------------------------------------------------
(***************************************************************************)
(* Summaries.                                                              *)
(***************************************************************************)

\* What a call's step leaves of the others.
LEMMA SteppedAt ==
  ASSUME ProcessesOK, NEW p \in Askers, NEW ask, Step(p, ask)
  PROVE  \A q \in Askers : /\ q = p => asks'[q] = ask
                           /\ q # p => asks'[q] = asks[q]
BY DEF ProcessesOK, Step

\* The calls that write are those that wrote before, and one that looked.
LEMMA WritersStep ==
  ASSUME TypeOK, WritersAreAlone, [Next]_vars
  PROVE  WritersAreAlone'
<1>1. Grows /\ ProcessesOK
  BY Growing DEF TypeOK
<1>2. ASSUME \A p \in Askers : Writing(p)' => Writing(p) PROVE WritersAreAlone'
  BY <1>1, <1>2 DEF WritersAreAlone, Grows
<1>3. ASSUME UNCHANGED asks PROVE WritersAreAlone'
  BY <1>2, <1>3 DEF Writing, At
<1>4. ASSUME ServiceDies PROVE WritersAreAlone'
  BY <1>2, <1>4 DEF Writing, At, ServiceDies
<1>5. ASSUME NEW p \in Askers, LookAgain(p) PROVE WritersAreAlone'
  <2> SUFFICES ASSUME ~slipped' PROVE WritersAreAlone'
    BY DEF WritersAreAlone
  <2>1. \A q \in Askers \ {p} : ~Writing(q)
    BY <1>5 DEF LookAgain
  <2>2. \A q \in Askers \ {p} : asks'[q] = asks[q]
    BY <1>1, <1>5, SteppedAt DEF LookAgain
  <2>3. \A q \in Askers \ {p} : ~Writing(q)'
    BY <2>1, <2>2 DEF Writing, At
  <2>4. QED
    BY <2>3 DEF WritersAreAlone
<1>6. ASSUME NEW p \in Askers,
             \/ Gather(p) \/ NoSummary(p) \/ Find(p) \/ Create(p) \/ Update(p)
             \/ ClearSources(p) \/ CiteSources(p)
      PROVE  WritersAreAlone'
  <2>1. \E ask : Step(p, ask) /\ (ask = None \/ ask.at = "asking" \/ Writing(p))
    <3>1. CASE Gather(p)
      BY <3>1 DEF Gather
    <3>2. CASE NoSummary(p)
      BY <3>2 DEF NoSummary
    <3>3. CASE Find(p)
      BY <3>3 DEF Find, Writing
    <3>4. CASE Create(p) \/ ClearSources(p) \/ CiteSources(p)
      BY <3>4 DEF Create, ClearSources, CiteSources, Writing
    <3>5. CASE Update(p)
      BY <3>5 DEF Update, Writing
    <3>6. QED
      BY <1>6, <3>1, <3>2, <3>3, <3>4, <3>5
  <2>4. PICK ask : Step(p, ask) /\ (ask = None \/ ask.at = "asking" \/ Writing(p))
    BY <2>1
  <2>2. QED
    BY <1>1, <1>2, <2>4, SteppedAt DEF Writing, At
<1>7. QED
  BY <1>3, <1>4, <1>5, <1>6
     DEF Next, vars, summaryVars, Serves, SummariesNext, Switch

\* What SummariesAreTrue says of one block and of one call.
BlockIsTrue(b) ==
  /\ TrueOf(rows, current, b)
  /\ (\A p \in Askers : Stored(p) => asks[p].block # b.id) => Exact(sources, b)
CallIsTrue(p) ==
  /\ Writing(p) => /\ asks[p].rows \subseteq rows
                   /\ ~asks[p].stale => asks[p].rows \subseteq current
  /\ Stored(p) => \A b \in blocks : b.id = asks[p].block => b.quotes = asks[p].rows
  /\ At(p, "cleared") => \A s \in sources : s[1] # asks[p].block

LEMMA WriteSummaries ==
  ASSUME TypeOK, Numbered, SummariesAreTrue, ~down, Undisturbed, ~slipped',
         NEW record \in RecordIds, Write(record), Slips({record}),
         UNCHANGED <<enabled, asks, backupVars>>
  PROVE  /\ \A b \in blocks' : BlockIsTrue(b)'
         /\ \A p \in Askers : CallIsTrue(p)'
<1> DEFINE new == <<record, Cardinality(written) + 1>>
<1>1. StoreOK /\ ProcessesOK /\ IsFiniteSet(blocks)
  BY DEF TypeOK, Numbered
<1>2. /\ rows' = rows \cup {new} /\ blocks' = Marked({record})
      /\ current' = (current \ Of(current, record)) \cup {new}
      /\ UNCHANGED <<gone, sources>> /\ UNCHANGED asks
  BY DEF Write, Marked
<1> HIDE DEF new
<1>3. \A p \in Askers : Writing(p) => record \notin RecordsOf(asks[p].rows)
  BY DEF Slips
<1>4. \A T : record \notin RecordsOf(T) /\ T \subseteq current => T \subseteq current'
  BY <1>2 DEF RecordsOf, Of
<1>5. \A p \in Askers : /\ Writing(p)' <=> Writing(p)
                        /\ Stored(p)' <=> Stored(p)
                        /\ \A at : At(p, at)' <=> At(p, at)
                        /\ Stored(p) => Writing(p)
  BY <1>2 DEF Writing, Stored, At
<1>6. \A b \in blocks : b \in Blocks
  BY <1>1 DEF StoreOK
<1>7. ASSUME NEW c \in blocks' PROVE BlockIsTrue(c)'
  <2>1. PICK b \in blocks : /\ c.id = b.id /\ c.quotes = b.quotes
                            /\ c.stale <=> (b.stale \/ b.id \in Citing({record}))
    BY <1>1, <1>2, Marking
  <2>2. BlockIsTrue(b)
    BY DEF SummariesAreTrue, BlockIsTrue, Undisturbed
  <2>3. ASSUME ~c.stale PROVE record \notin RecordsOf(b.quotes)
    <3>1. CASE \E p \in Askers : Stored(p) /\ asks[p].block = b.id
      BY <1>3, <1>5, <3>1 DEF SummariesAreTrue, Undisturbed
    <3>2. CASE ~\E p \in Askers : Stored(p) /\ asks[p].block = b.id
      <4>1. Exact(sources, b) /\ b.id \notin Citing({record}) /\ b.quotes \subseteq Texts
        BY <1>6, <2>1, <2>2, <2>3, <3>2 DEF BlockIsTrue, Blocks
      <4>2. ASSUME NEW t \in b.quotes, t[1] = record PROVE FALSE
        <5>1. <<b.id, t>> \in {x \in sources : x[2][1] \in {record}}
          BY <4>1, <4>2 DEF Exact
        <5>2. QED
          BY <4>1, <5>1 DEF Citing
      <4>3. QED
        BY <4>2 DEF RecordsOf
    <3>3. QED
      BY <3>1, <3>2
  <2>4. TrueOf(rows', current', c)
    BY <1>2, <1>4, <2>1, <2>2, <2>3 DEF BlockIsTrue, TrueOf
  <2>5. (\A p \in Askers : Stored(p)' => asks'[p].block # c.id) => Exact(sources', c)
    BY <1>2, <1>5, <2>1, <2>2 DEF BlockIsTrue, Exact
  <2>6. QED
    BY <2>4, <2>5 DEF BlockIsTrue, TrueOf, Exact
<1>8. ASSUME NEW p \in Askers PROVE CallIsTrue(p)'
  <2>1. CallIsTrue(p)
    BY DEF SummariesAreTrue, CallIsTrue, Undisturbed
  <2>2. Writing(p) => /\ asks[p].rows \subseteq rows'
                      /\ ~asks[p].stale => asks[p].rows \subseteq current'
    BY <1>2, <1>3, <1>4, <2>1 DEF CallIsTrue
  <2>3. Stored(p) => \A c \in blocks' : c.id = asks[p].block => c.quotes = asks[p].rows
    BY <1>1, <1>2, <2>1, Marking DEF CallIsTrue
  <2>4. QED
    BY <1>2, <1>5, <2>1, <2>2, <2>3 DEF CallIsTrue
<1>9. QED
  BY <1>7, <1>8

LEMMA ForgetSummaries ==
  ASSUME TypeOK, SummariesAreTrue, ~down, Undisturbed, ~slipped',
         NEW T \in SUBSET rows, Forget(T), Slips(RecordsOf(T)),
         UNCHANGED <<enabled, asks, backupVars>>
  PROVE  /\ \A b \in blocks' : BlockIsTrue(b)'
         /\ \A p \in Askers : CallIsTrue(p)'
<1>1. StoreOK /\ Removed(T) /\ T \subseteq Texts /\ UNCHANGED asks
  BY DEF TypeOK, Forget, StoreOK
<1>2. /\ rows' = rows \ T /\ current' = current \ T
      /\ blocks' \subseteq blocks /\ sources' \subseteq sources
  BY <1>1 DEF Removed
<1>3. \A p \in Askers : Writing(p) => asks[p].rows \cap T = {}
  BY DEF Slips, RecordsOf
<1>4. \A p \in Askers : /\ Writing(p)' <=> Writing(p)
                        /\ Stored(p)' <=> Stored(p)
                        /\ \A at : At(p, at)' <=> At(p, at)
                        /\ Stored(p) => Writing(p)
  BY <1>1 DEF Writing, Stored, At
<1>5. ASSUME NEW b \in blocks' PROVE BlockIsTrue(b)'
  <2>1. BlockIsTrue(b) /\ b \in blocks
    BY <1>2 DEF SummariesAreTrue, BlockIsTrue, Undisturbed
  <2>2. b.quotes \cap T = {}
    <3>1. CASE \E p \in Askers : Stored(p) /\ asks[p].block = b.id
      BY <1>3, <1>4, <2>1, <3>1 DEF SummariesAreTrue, Undisturbed
    <3>2. CASE ~\E p \in Askers : Stored(p) /\ asks[p].block = b.id
      BY <1>1, <2>1, <3>2, OutlivesRemoval DEF BlockIsTrue
    <3>3. QED
      BY <3>1, <3>2
  <2>3. TrueOf(rows', current', b)
    BY <1>1, <2>1, <2>2, OutlivesRemoval DEF BlockIsTrue
  <2>4. Exact(sources, b) => Exact(sources', b)
    BY <1>1, OutlivesRemoval
  <2>5. (\A p \in Askers : Stored(p)' => asks'[p].block # b.id) => Exact(sources', b)
    BY <1>1, <1>4, <2>1, <2>4 DEF BlockIsTrue
  <2>6. QED
    BY <2>3, <2>5 DEF BlockIsTrue, TrueOf, Exact
<1>6. ASSUME NEW p \in Askers PROVE CallIsTrue(p)'
  <2>1. CallIsTrue(p)
    BY DEF SummariesAreTrue, CallIsTrue, Undisturbed
  <2>2. Writing(p) => /\ asks[p].rows \subseteq rows'
                      /\ ~asks[p].stale => asks[p].rows \subseteq current'
    BY <1>2, <1>3, <2>1 DEF CallIsTrue
  <2>3. QED
    BY <1>1, <1>2, <1>4, <2>1, <2>2 DEF CallIsTrue
<1>7. QED
  BY <1>5, <1>6

\* A call's own steps.  Until it has a block, only what it sent matters.
LEMMA LookSummaries ==
  ASSUME TypeOK, SummariesAreTrue, ~down, Undisturbed, NEW p \in Askers,
         Gather(p) \/ NoSummary(p) \/ LookAgain(p) \/ Find(p)
  PROVE  /\ \A b \in blocks' : BlockIsTrue(b)'
         /\ \A q \in Askers : CallIsTrue(q)'
<1>1. ProcessesOK /\ UNCHANGED <<rows, current, blocks, sources>>
  BY DEF TypeOK, Gather, NoSummary, LookAgain, Find, Step
<1>2. PICK ask : /\ Step(p, ask)
                 /\ ask = None \/ ask.at \in {"asking", "checked", "found"}
                 /\ ask # None /\ ask.at # "asking" =>
                      /\ ask.rows \subseteq rows
                      /\ ~ask.stale => ask.rows \subseteq current
  <2>1. CASE Gather(p)
    <3> DEFINE ask == [at |-> "asking", rows |-> current, stale |-> FALSE,
                       block |-> None]
    <3>1. Step(p, ask) /\ ask.at = "asking"
      BY <2>1 DEF Gather
    <3> HIDE DEF ask
    <3>2. QED
      BY <3>1
  <2>2. CASE NoSummary(p)
    BY <2>2 DEF NoSummary
  <2>3. CASE LookAgain(p)
    <3>1. asks[p] \in Asks
      BY <1>1, <2>3, AskType DEF LookAgain, At
    <3> DEFINE st == ~HeldStill(asks[p].rows)
               ask == [asks[p] EXCEPT !.at = "checked", !.stale = st]
    <3>2. st \in BOOLEAN /\ (~st => asks[p].rows \subseteq current)
      BY DEF HeldStill
    <3>3. CASE StillThere(asks[p].rows)
      <4>1. Step(p, ask) /\ asks[p].rows \subseteq rows
        BY <2>3, <3>3 DEF LookAgain, StillThere
      <4> HIDE DEF st
      <4>2. ask.at = "checked" /\ ask.rows = asks[p].rows /\ ask.stale = st
        BY <3>1 DEF Asks
      <4> HIDE DEF ask
      <4>3. QED
        BY <3>2, <4>1, <4>2
    <3>4. CASE ~StillThere(asks[p].rows)
      BY <2>3, <3>4 DEF LookAgain
    <3>5. QED
      BY <3>3, <3>4
  <2>4. CASE Find(p)
    <3>1. PICK i : Step(p, [asks[p] EXCEPT !.at = "found", !.block = i])
      BY <2>4 DEF Find
    <3>2. asks[p] \in Asks /\ CallIsTrue(p) /\ Writing(p)
      BY <1>1, <2>4, AskType
         DEF Find, At, Writing, SummariesAreTrue, Undisturbed, CallIsTrue
    <3> DEFINE ask == [asks[p] EXCEPT !.at = "found", !.block = i]
    <3>3. ask.at = "found" /\ ask.rows = asks[p].rows /\ ask.stale = asks[p].stale
      BY <3>2 DEF Asks
    <3>4. Step(p, ask)
      BY <3>1
    <3> HIDE DEF ask
    <3>5. QED
      BY <3>2, <3>3, <3>4 DEF CallIsTrue
  <2>5. QED
    BY <2>1, <2>2, <2>3, <2>4
<1>3. \A q \in Askers : /\ q = p => asks'[q] = ask
                        /\ q # p => asks'[q] = asks[q]
  BY <1>1, <1>2, SteppedAt
<1>4. ~Stored(p) /\ ~Stored(p)'
  BY <1>2, <1>3 DEF Stored, At, Gather, NoSummary, LookAgain, Find
<1>5. \A q \in Askers \ {p} : /\ Writing(q)' <=> Writing(q)
                              /\ Stored(q)' <=> Stored(q)
                              /\ \A at : At(q, at)' <=> At(q, at)
  BY <1>3 DEF Writing, Stored, At
<1>6. ASSUME NEW b \in blocks' PROVE BlockIsTrue(b)'
  <2>1. BlockIsTrue(b)
    BY <1>1 DEF SummariesAreTrue, BlockIsTrue, Undisturbed
  <2>2. (\A q \in Askers : Stored(q)' => asks'[q].block # b.id)
          => \A q \in Askers : Stored(q) => asks[q].block # b.id
    BY <1>3, <1>4, <1>5
  <2>3. QED
    BY <1>1, <2>1, <2>2 DEF BlockIsTrue, TrueOf, Exact
<1>7. ASSUME NEW q \in Askers PROVE CallIsTrue(q)'
  <2>1. CallIsTrue(q)
    BY DEF SummariesAreTrue, CallIsTrue, Undisturbed
  <2>2. CASE q # p
    BY <1>1, <1>3, <1>5, <2>1, <2>2 DEF CallIsTrue
  <2>3. CASE q = p
    <3>1. Writing(p)' => /\ ask.rows \subseteq rows
                         /\ ~ask.stale => ask.rows \subseteq current
      BY <1>2, <1>3 DEF Writing, At
    <3>2. ~At(p, "cleared")'
      BY <1>4 DEF Stored
    <3>3. QED
      BY <1>1, <1>3, <1>4, <2>3, <3>1, <3>2 DEF CallIsTrue
  <2>4. QED
    BY <2>2, <2>3
<1>8. QED
  BY <1>6, <1>7

\* A call that writes is alone; the block it writes is its own until it cites.
LEMMA WriteBlockSummaries ==
  ASSUME TypeOK, Numbered, SummariesAreTrue, WritersAreAlone, ~down, Undisturbed,
         NEW p \in Askers, Create(p) \/ Update(p)
  PROVE  /\ \A b \in blocks' : BlockIsTrue(b)'
         /\ \A q \in Askers : CallIsTrue(q)'
<1>1. /\ ProcessesOK /\ StoreOK /\ UNCHANGED <<rows, current, sources>>
      /\ Writing(p) /\ CallIsTrue(p) /\ At(p, "found")
      /\ asks[p] # None /\ asks[p] \in Asks
  <2>1. /\ ProcessesOK /\ StoreOK /\ UNCHANGED <<rows, current, sources>>
        /\ At(p, "found")
    BY DEF TypeOK, Create, Update, Step
  <2>2. Writing(p) /\ CallIsTrue(p) /\ asks[p] # None
    BY <2>1 DEF At, Writing, SummariesAreTrue, Undisturbed, CallIsTrue
  <2>3. QED
    BY <2>1, <2>2, AskType
<1>2. \A q \in Askers \ {p} : ~Writing(q)
  BY <1>1 DEF WritersAreAlone, Undisturbed
<1>3. ~Stored(p)
  BY <1>1 DEF Stored, At
<1>4. CASE asks' = [asks EXCEPT ![p] = None] /\ UNCHANGED blocks
  <2>1. \A q \in Askers : ~Writing(q)'
    BY <1>1, <1>2, <1>4 DEF ProcessesOK, Writing, At
  <2>2. \A q \in Askers : ~Stored(q) /\ ~Stored(q)' /\ ~At(q, "cleared")'
    BY <1>2, <1>3, <2>1 DEF Stored, Writing
  <2>3. QED
    BY <1>1, <1>4, <2>1, <2>2
       DEF SummariesAreTrue, Undisturbed, BlockIsTrue, CallIsTrue, TrueOf, Exact
<1>5. CASE \E i \in Nat :
             /\ Step(p, [asks[p] EXCEPT !.at = "stored", !.block = i])
             /\ blocks' = {b \in blocks : b.id # i} \cup {Block(p, i)}
  <2>1. PICK i \in Nat :
             /\ Step(p, [asks[p] EXCEPT !.at = "stored", !.block = i])
             /\ blocks' = {b \in blocks : b.id # i} \cup {Block(p, i)}
    BY <1>5
  <2>2. PICK new : new = Block(p, i)
    OBVIOUS
  <2>3. new.id = i /\ new.quotes = asks[p].rows /\ new.stale = asks[p].stale
    BY <1>1, <2>2, BlockType
  <2> DEFINE ask == [asks[p] EXCEPT !.at = "stored", !.block = i]
  <2>4. /\ ask # None /\ ask.at = "stored" /\ ask.block = i
        /\ ask.rows = asks[p].rows /\ ask.stale = asks[p].stale
    BY <1>1, SummariesAssumption DEF Asks
  <2>5. \A q \in Askers : /\ q = p => asks'[q] = ask
                          /\ q # p => asks'[q] = asks[q]
    BY <1>1, <2>1, SteppedAt
  <2> HIDE DEF ask
  <2>6. /\ Stored(p)' /\ Writing(p)' /\ ~At(p, "cleared")'
        /\ \A q \in Askers \ {p} :
             ~Stored(q) /\ ~Writing(q)' /\ ~Stored(q)' /\ ~At(q, "cleared")'
    BY <1>2, <2>4, <2>5 DEF Stored, Writing, At
  <2>7. TrueOf(rows, current, new)
    BY <1>1, <2>3 DEF CallIsTrue, TrueOf
  <2>8. ASSUME NEW b \in blocks' PROVE BlockIsTrue(b)'
    <3>1. CASE b = new
      BY <1>1, <2>3, <2>4, <2>5, <2>6, <2>7, <3>1 DEF BlockIsTrue, TrueOf
    <3>2. CASE b # new
      <4>1. b \in blocks
        BY <2>1, <2>2, <3>2
      <4>2. TrueOf(rows, current, b) /\ Exact(sources, b)
        BY <1>3, <2>6, <4>1 DEF SummariesAreTrue, Undisturbed
      <4>3. QED
        BY <1>1, <4>2 DEF BlockIsTrue, TrueOf, Exact
    <3>3. QED
      BY <3>1, <3>2
  <2>9. ASSUME NEW q \in Askers PROVE CallIsTrue(q)'
    <3>1. CASE q # p
      BY <2>6, <3>1 DEF CallIsTrue
    <3>2. CASE q = p
      BY <1>1, <2>1, <2>2, <2>3, <2>4, <2>5, <2>6, <3>2 DEF CallIsTrue
    <3>3. QED
      BY <3>1, <3>2
  <2>10. QED
    BY <2>8, <2>9
<1>6. CASE Create(p)
  <2>1. Unused \in Nat /\ Unused \notin {b.id : b \in blocks}
    BY UnusedIsNew DEF Taken, Numbered
  <2>2. PICK u \in Nat : u = Unused
    BY <2>1
  <2>3. {b \in blocks : b.id # u} = blocks
    BY <2>1, <2>2
  <2>4. blocks' = blocks \cup {Block(p, u)}
        /\ Step(p, [asks[p] EXCEPT !.at = "stored", !.block = u])
    BY <1>6, <2>2 DEF Create
  <2>5. QED
    BY <1>5, <2>3, <2>4
<1>7. CASE Update(p)
  <2> DEFINE i == asks[p].block
             old == {b \in blocks : b.id = i}
  <2>1. CASE old = {}
    BY <1>4, <1>7, <2>1 DEF Update, Step
  <2>2. CASE old # {}
    <3>1. i \in Nat
      BY <1>1, <2>2 DEF StoreOK, Blocks
    <3>2. /\ blocks' = (blocks \ old) \cup {Block(p, i)}
          /\ Step(p, [asks[p] EXCEPT !.at = "stored"])
      BY <1>7, <2>2 DEF Update
    <3>3. blocks \ old = {b \in blocks : b.id # i}
      OBVIOUS
    <3>4. [asks[p] EXCEPT !.at = "stored"] = [asks[p] EXCEPT !.at = "stored", !.block = i]
      BY <1>1 DEF Asks
    <3>5. QED
      BY <1>5, <3>1, <3>2, <3>3, <3>4
  <2>3. QED
    BY <2>1, <2>2
<1>8. QED
  BY <1>6, <1>7

LEMMA CiteSummaries ==
  ASSUME TypeOK, SummariesAreTrue, WritersAreAlone, ~down, Undisturbed,
         NEW p \in Askers, ClearSources(p) \/ CiteSources(p)
  PROVE  /\ \A b \in blocks' : BlockIsTrue(b)'
         /\ \A q \in Askers : CallIsTrue(q)'
<1> DEFINE i == asks[p].block
           R == asks[p].rows
<1>1. /\ ProcessesOK /\ StoreOK /\ UNCHANGED <<rows, current, blocks>>
      /\ asks[p] # None /\ asks[p] \in Asks /\ Stored(p) /\ Writing(p)
      /\ CallIsTrue(p) /\ R \subseteq Texts
  <2>1. /\ ProcessesOK /\ StoreOK /\ UNCHANGED <<rows, current, blocks>>
        /\ Stored(p)
    BY DEF TypeOK, ClearSources, CiteSources, Step, Stored
  <2>2. Writing(p) /\ CallIsTrue(p) /\ asks[p] # None
    BY <2>1 DEF At, Stored, Writing, SummariesAreTrue, Undisturbed, CallIsTrue
  <2>3. QED
    BY <2>1, <2>2, AskType
<1>2. \A q \in Askers \ {p} : ~Writing(q) /\ ~Stored(q)
  BY <1>1 DEF WritersAreAlone, Undisturbed, Writing, Stored
<1>3. \A b \in blocks : /\ TrueOf(rows, current, b)
                        /\ b.id # i => Exact(sources, b)
                        /\ b.id = i => b.quotes = R
  BY <1>1, <1>2 DEF SummariesAreTrue, Undisturbed, CallIsTrue
<1>4. ASSUME NEW ask, Step(p, ask)
      PROVE  /\ \A q \in Askers : /\ q = p => asks'[q] = ask
                                  /\ q # p => asks'[q] = asks[q]
             /\ \A q \in Askers \ {p} :
                  ~Writing(q)' /\ ~Stored(q)' /\ ~At(q, "cleared")'
  <2>1. \A q \in Askers : /\ q = p => asks'[q] = ask
                          /\ q # p => asks'[q] = asks[q]
    BY <1>1, <1>4, SteppedAt
  <2>2. QED
    BY <1>2, <2>1 DEF Writing, Stored, At
<1>5. CASE ClearSources(p)
  <2> DEFINE ask == [asks[p] EXCEPT !.at = "cleared"]
  <2>1. Step(p, ask) /\ sources' = {s \in sources : s[1] # i}
    BY <1>5 DEF ClearSources, Others
  <2>2. /\ ask # None /\ ask.at = "cleared" /\ ask.block = i
        /\ ask.rows = R /\ ask.stale = asks[p].stale
    BY <1>1, SummariesAssumption DEF Asks
  <2> HIDE DEF ask, i, R
  <2>3. asks'[p] = ask /\ Stored(p)' /\ asks'[p].block = i
    BY <1>4, <2>1, <2>2 DEF Stored, At
  <2>4. ASSUME NEW b \in blocks' PROVE BlockIsTrue(b)'
    <3>1. TrueOf(rows, current, b)' /\ (b.id # i => Exact(sources, b)')
      BY <1>1, <1>3, <2>1 DEF TrueOf, Exact
    <3>2. QED
      BY <2>3, <3>1 DEF BlockIsTrue
  <2>5. ASSUME NEW q \in Askers PROVE CallIsTrue(q)'
    <3>1. CASE q # p
      BY <1>4, <2>1, <3>1 DEF CallIsTrue
    <3>2. CASE q = p
      BY <1>1, <1>3, <2>1, <2>2, <2>3, <3>2 DEF CallIsTrue, i, R
    <3>3. QED
      BY <3>1, <3>2
  <2>6. QED
    BY <2>4, <2>5
<1>6. CASE CiteSources(p)
  <2> DEFINE new == {i} \X R
             fits == i \in {b.id : b \in blocks} /\ new \cap sources = {}
  <2>1. Step(p, None) /\ sources' = IF fits THEN sources \cup new ELSE sources
    BY <1>6 DEF CiteSources
  <2>2. At(p, "cleared") /\ new \cap sources = {}
    BY <1>1, <1>6 DEF CiteSources, CallIsTrue
  <2>3. asks'[p] = None /\ ~Writing(p)' /\ ~Stored(p)' /\ ~At(p, "cleared")'
    BY <1>4, <2>1 DEF Writing, Stored, At
  <2>4. ASSUME NEW b \in blocks' PROVE BlockIsTrue(b)'
    <3>1. b \in blocks
      BY <1>1
    <3>2. CASE b.id # i
      <4>1. Exact(sources, b) /\ TrueOf(rows, current, b)
        BY <1>3, <3>1, <3>2
      <4>2. \A t : <<b.id, t>> \notin new
        BY <3>2
      <4> HIDE DEF new
      <4>3. Exact(sources', b)
        BY <2>1, <4>1, <4>2 DEF Exact
      <4>4. QED
        BY <1>1, <4>1, <4>3 DEF BlockIsTrue, TrueOf, Exact
    <3>3. CASE b.id = i
      <4>1. sources' = sources \cup new
        BY <2>1, <2>2, <3>1, <3>3
      <4>2. b.quotes = R /\ TrueOf(rows, current, b)
        BY <1>3, <3>1, <3>3
      <4>3. \A t : <<i, t>> \notin sources
        BY <1>1, <2>2 DEF CallIsTrue
      <4>4. \A t : <<i, t>> \in sources' <=> t \in R
        BY <4>1, <4>3
      <4>5. Exact(sources', b)
        BY <3>3, <4>2, <4>4 DEF Exact
      <4>6. QED
        BY <1>1, <4>2, <4>5 DEF BlockIsTrue, TrueOf, Exact
    <3>4. QED
      BY <3>2, <3>3
  <2>5. ASSUME NEW q \in Askers PROVE CallIsTrue(q)'
    BY <1>4, <2>1, <2>3 DEF CallIsTrue
  <2>6. QED
    BY <2>4, <2>5
<1>7. QED
  BY <1>5, <1>6

LEMMA SummariesStep ==
  ASSUME TypeOK, Numbered, WritersAreAlone, RestoreIsTrue, SummariesAreTrue,
         [Next]_vars
  PROVE  SummariesAreTrue'
<1>1. Grows /\ StoreOK /\ ProcessesOK
  BY Growing DEF TypeOK
<1>2. SummariesAreTrue' <=>
        ((~down /\ Undisturbed)' => /\ \A b \in blocks' : BlockIsTrue(b)'
                                    /\ \A p \in Askers : CallIsTrue(p)')
  BY DEF SummariesAreTrue, BlockIsTrue, CallIsTrue
<1> SUFFICES ASSUME ~down', Undisturbed'
             PROVE  /\ \A b \in blocks' : BlockIsTrue(b)'
                    /\ \A p \in Askers : CallIsTrue(p)'
  BY <1>2
<1>3. Undisturbed /\ ~slipped'
  BY <1>1 DEF Undisturbed, Grows
<1>4. CASE down
  <2>1. Restored
    BY <1>4 DEF Next, vars, backupVars, Tick, BackupsNext, Dump, ReadTable,
       WriteFile, Prune, Clear, LoadRows, LoadBlocks, LoadSources, LoadReplies,
       Rest, ReadLedger, Replay, RestoreDies
  <2>2. /\ Sound(All) /\ UNCHANGED store
        /\ \A p \in Askers : asks[p] = None /\ asks'[p] = None
    <3>1. restoring # None /\ restoring.at = 6 /\ UNCHANGED store
      BY <2>1, TablesInOrder DEF Restored, RestoreIsTrue, core
    <3>2. UNCHANGED summaryVars
      BY <1>4, <2>1 DEF Next, vars, Restored, Tick, backupVars, summaryVars, Serves, ServiceDies
    <3>3. QED
      BY <1>1, <1>3, <1>4, <3>1, <3>2, TablesInOrder
         DEF RestoreIsTrue, ProcessesOK, Idle, summaryVars
  <2>3. ASSUME NEW p \in Askers PROVE CallIsTrue(p)'
    BY <2>2 DEF CallIsTrue, Writing, Stored, At
  <2>4. ASSUME NEW b \in blocks' PROVE BlockIsTrue(b)'
    BY <1>1, <2>2, AllType DEF Sound, BlockIsTrue, TrueOf, Exact, store
  <2>5. QED
    BY <2>3, <2>4
<1>5. CASE ~down
  <2>1. ASSUME UNCHANGED <<store, asks>>
        PROVE  /\ \A b \in blocks' : BlockIsTrue(b)'
               /\ \A p \in Askers : CallIsTrue(p)'
    BY <1>3, <1>5, <2>1 DEF SummariesAreTrue, BlockIsTrue, CallIsTrue, TrueOf,
       Exact, Writing, Stored, At, store
  <2>2. ASSUME ServiceDies
        PROVE  /\ \A b \in blocks' : BlockIsTrue(b)'
               /\ \A p \in Askers : CallIsTrue(p)'
    <3>1. Quiet
      BY <1>3, <2>2 DEF ServiceDies
    <3>2. \A p \in Askers : asks'[p] = None /\ ~Stored(p)
      BY <2>2, <3>1 DEF ServiceDies, Quiet, Writing, Stored
    <3>3. UNCHANGED <<rows, current, blocks, sources>>
      BY <2>2 DEF ServiceDies, Dies, store
    <3>4. ASSUME NEW p \in Askers PROVE CallIsTrue(p)'
      BY <3>2 DEF CallIsTrue, Writing, Stored, At
    <3>5. ASSUME NEW b \in blocks' PROVE BlockIsTrue(b)'
      BY <1>3, <1>5, <3>2, <3>3
         DEF SummariesAreTrue, BlockIsTrue, TrueOf, Exact
    <3>6. QED
      BY <3>4, <3>5
  <2>3. ASSUME NEW record \in RecordIds, Write(record), Slips({record}),
               UNCHANGED <<enabled, asks, backupVars>>
        PROVE  /\ \A b \in blocks' : BlockIsTrue(b)'
               /\ \A p \in Askers : CallIsTrue(p)'
    BY <1>3, <1>5, <2>3, WriteSummaries
  <2>4. ASSUME NEW T \in SUBSET rows, Forget(T), Slips(RecordsOf(T)),
               UNCHANGED <<enabled, asks, backupVars>>
        PROVE  /\ \A b \in blocks' : BlockIsTrue(b)'
               /\ \A p \in Askers : CallIsTrue(p)'
    BY <1>3, <1>5, <2>4, ForgetSummaries
  <2>5. ASSUME NEW p \in Askers,
               \/ Gather(p) \/ NoSummary(p) \/ LookAgain(p) \/ Find(p) \/ Create(p)
               \/ Update(p) \/ ClearSources(p) \/ CiteSources(p)
        PROVE  /\ \A b \in blocks' : BlockIsTrue(b)'
               /\ \A q \in Askers : CallIsTrue(q)'
    BY <1>3, <1>5, <2>5, LookSummaries, WriteBlockSummaries, CiteSummaries
  <2>6. ASSUME BackupsNext, UNCHANGED summaryVars
        PROVE  UNCHANGED <<store, asks>>
    <3>1. restoring = None
      BY <1>1, <1>5 DEF ProcessesOK
    <3>2. QED
      BY <2>6, <3>1 DEF BackupsNext, Dump, ReadTable, WriteFile, Prune, Clear,
         LoadRows, Loading, LoadBlocks, LoadSources, LoadReplies, ReadLedger,
         Replay, Restored, RestoreDies, core, summaryVars
  <2>7. ASSUME Serves
        PROVE  /\ \A b \in blocks' : BlockIsTrue(b)'
               /\ \A p \in Askers : CallIsTrue(p)'
    <3>1. ASSUME NEW record, Credit(record), UNCHANGED summaryVars
          PROVE  UNCHANGED <<store, asks>>
      BY <3>1 DEF Credit, summaryVars
    <3>2. ASSUME \/ Mirror \/ MirrorFails \/ \E T \in orphans : Repeat(T),
                 UNCHANGED summaryVars
          PROVE  UNCHANGED <<store, asks>>
      BY <3>2 DEF Mirror, MirrorFails, Repeat, summaryVars
    <3>3. ASSUME Switch PROVE UNCHANGED <<store, asks>>
      BY <3>3 DEF Switch
    <3>4. QED
      BY <2>1, <2>3, <2>4, <2>5, <2>7, <3>1, <3>2, <3>3 DEF Serves, SummariesNext
  <2>8. ASSUME (Tick /\ UNCHANGED summaryVars) \/ UNCHANGED vars
        PROVE  UNCHANGED <<store, asks>>
    BY <2>8 DEF Tick, vars, core, summaryVars
  <2>9. QED
    BY <2>1, <2>2, <2>6, <2>7, <2>8 DEF Next
<1>6. QED
  BY <1>4, <1>5

-----------------------------------------------------------------------------
(***************************************************************************)
(* The theorems.                                                           *)
(***************************************************************************)

\* The invariant holds: of writing and deleting (memory.ts), of summaries
\* (summaries.ts), and of dumping and restoring (backup.ts) together.
THEOREM RetentionHolds == Spec => []RetentionInv
<1>1. Init => RetentionInv
  BY InitRetention
<1>2. RetentionInv /\ [Next]_vars => RetentionInv'
  BY TypeStep, LinesStep, FilesStep, DumpStep, RestoreStep, DeletionStep,
     WritersStep, SummariesStep DEF RetentionInv
<1>3. QED
  BY <1>1, <1>2, PTL DEF Spec

\* The tables' foreign keys hold and one block has one id, between any two
\* statements of writes, summaries, dumps and restores (schema.prisma,
\* memory.ts, summaries.ts, backup.ts).
THEOREM RetentionTypeCorrect == Spec => []TypeOK
<1>1. RetentionInv => TypeOK
  BY DEF RetentionInv
<1>2. QED
  BY <1>1, RetentionHolds, PTL

\* A deletion whose line is in the file stays done through any number of
\* snapshots, restores and deaths, but for a snapshot begun in the line's own
\* instant or dumped from a store half restored (appendDeletions,
\* deletionsSince, replayDeletion, createBackup).
THEOREM DeletionsStand == Spec => []DeletionStands
<1>1. RetentionInv => DeletionStands
  BY DEF RetentionInv
<1>2. QED
  BY <1>1, RetentionHolds, PTL

\* No block quotes a deleted text, and one that does not say it is stale
\* quotes current versions only, as long as nothing slipped between a call's
\* last look and its last write (summarize, upsertBlock, replayDeletion).
THEOREM SummariesAreRight == Spec => []SummariesTellTheTruth
<1>1. RetentionInv => SummariesTellTheTruth
  BY DEF RetentionInv, SummariesAreTrue, TrueOf, SummariesTellTheTruth,
     QuotesNothingDeleted, FreshSummariesAreCurrent
<1>2. QED
  BY <1>1, RetentionHolds, PTL

\* A block cites exactly what it quotes whenever no call is writing, so that
\* every correction and deletion finds it (summarize, upsertBlock).
THEOREM BlocksCiteWhatTheyQuote == Spec => []CitesWhatItQuotes
<1>1. RetentionInv => CitesWhatItQuotes
  <2> SUFFICES ASSUME RetentionInv, ~down, Undisturbed, Quiet, NEW b \in blocks
               PROVE  {s[2] : s \in {x \in sources : x[1] = b.id}} = b.quotes
    BY DEF CitesWhatItQuotes
  <2>1. StoreOK /\ SummariesAreTrue
    BY DEF RetentionInv, TypeOK
  <2>2. Exact(sources, b)
    BY <2>1 DEF SummariesAreTrue, Quiet, Writing, Stored
  <2>3. b.quotes \subseteq Texts /\ sources \subseteq Nat \X Texts
    BY <2>1 DEF StoreOK, Blocks
  <2>4. ASSUME NEW t \in b.quotes
        PROVE  t \in {s[2] : s \in {x \in sources : x[1] = b.id}}
    <3>1. <<b.id, t>> \in sources
      BY <2>2, <2>3 DEF Exact
    <3>2. <<b.id, t>>[1] = b.id /\ <<b.id, t>>[2] = t
      OBVIOUS
    <3>3. QED
      BY <3>1, <3>2
  <2>5. ASSUME NEW s \in sources, s[1] = b.id PROVE s[2] \in b.quotes
    BY <2>2, <2>3, <2>5 DEF Exact
  <2>6. QED
    BY <2>4, <2>5
<1>2. QED
  BY <1>1, RetentionHolds, PTL

\* A snapshot taken while nobody wrote loads whole: the restore of it ends
\* only when it is done or killed (createBackup, restoreBackup).
THEOREM WholeSnapshotsRestore == Spec => WholeSnapshotsLoad
<1>1. ASSUME RetentionInv, [Next]_vars, restoring # None, restoring' = None, down',
             budget' = budget
      PROVE  restoring.file.torn
  <2>1. TypeOK /\ ProcessesOK /\ RestoreIsTrue /\ TrailOK
    BY <1>1 DEF RetentionInv, TypeOK
  <2>2. \A n \in Nat : [restoring EXCEPT !.at = n] \in Restores
    BY <1>1, <2>1, RestoreType DEF Restores
  <2>3. ~Loaded
    <3>1. restoring.at + 1 \in Nat
      BY <1>1, <2>1, RestoreType
    <3> DEFINE n == restoring.at + 1
    <3>2. [restoring EXCEPT !.at = n] # None
      BY <2>2, <3>1, BackupsAssumption
    <3>3. Loaded => restoring' = [restoring EXCEPT !.at = n]
      BY DEF Loaded
    <3>4. QED
      BY <1>1, <3>2, <3>3
  <2>4. ~RestoreDies
    BY <1>1, <2>1, Spending DEF RestoreDies, Kinds
  <2>5. ~ReadLedger /\ ~Replay
    <3>1. restoring \in Restores
      BY <1>1, <2>1, RestoreType
    <3>2. ASSUME ReadLedger PROVE FALSE
      <4> DEFINE L == Since(restoring.file)
                 n == restoring.at + 1
      <4>1. restoring' = [restoring EXCEPT !.at = n, !.lines = L]
        BY <3>2 DEF ReadLedger
      <4>2. n \in Nat /\ L \subseteq [record : RecordIds, at : Nat]
        BY <1>1, <2>1, RestoreType DEF Since, TrailOK
      <4> HIDE DEF L, n
      <4>3. restoring' \in Restores
        BY <3>1, <4>1, <4>2 DEF Restores
      <4>4. QED
        BY <1>1, <4>3, BackupsAssumption
    <3>3. ASSUME Replay PROVE FALSE
      <4>1. PICK m : restoring' = [restoring EXCEPT !.lines = @ \ {m}]
        BY <3>3 DEF Replay
      <4>2. restoring' \in Restores
        BY <3>1, <4>1 DEF Restores
      <4>3. QED
        BY <1>1, <4>2, BackupsAssumption
    <3>4. QED
      BY <3>2, <3>3
  <2>6. LoadSources
    <3>1. down
      BY <1>1, <2>1 DEF ProcessesOK
    <3>2. ~UNCHANGED backupVars
      BY <1>1 DEF backupVars
    <3>3. QED
      BY <1>1, <2>3, <2>4, <2>5, <3>1, <3>2
         DEF Next, vars, BackupsNext, Dump, ReadTable, WriteFile, Prune, Clear,
             LoadRows, LoadBlocks, LoadReplies, Restored
  <2>7. restoring.at = 3
    BY <2>1, <2>6, TablesInOrder, RestoreType DEF LoadSources, Loading
  <2>8. /\ rows = From.rows.live /\ gone = From.rows.gone /\ blocks = From.blocks
        /\ SnapshotFits(restoring.file)
    BY <1>1, <2>1, <2>7, TablesInOrder DEF RestoreIsTrue, Loads, From
  <2>9. ~restoring.file.torn =>
          From.sources \subseteq {b.id : b \in blocks} \X (rows \cup gone)
    BY <2>8 DEF SnapshotFits, Refers, From
  <2>10. {s \in From.sources : /\ s[1] \in {b.id : b \in blocks}
                               /\ s[2] \in rows \cup gone} # From.sources
    BY <2>3, <2>6 DEF LoadSources
  <2>11. QED
    BY <2>9, <2>10
<1>2. RetentionInv /\ [Next]_vars
        => [restoring # None /\ restoring' = None /\ down' /\ budget' = budget
              => restoring.file.torn]_vars
  BY <1>1
<1>3. QED
  BY <1>2, RetentionHolds, PTL DEF Spec, WholeSnapshotsLoad

=============================================================================
