-------------------------- MODULE PublisherProofs --------------------------
(***************************************************************************)
(* Proofs about Publisher for every set of workspaces and addresses, every *)
(* number of periods and every budget of disturbances.                     *)
(***************************************************************************)
EXTENDS PublisherInvariant, FiniteSetTheorems, SequenceTheorems, TLAPS

(***************************************************************************)
(* accrueWindow owes each address at most one positive row, for the period *)
(* it was asked about.                                                     *)
(***************************************************************************)
LEMMA OwedRows ==
  ASSUME TypeOK, NEW p \in Periods
  PROVE  /\ Owed(p) \in SUBSET Row
         /\ \A r \in Owed(p) : r.period = p
         /\ \A r, s \in Owed(p) : r.address = s.address => r = s
<1>1. ASSUME NEW a \in Addresses, EarnersOf(a, p) # {}
      PROVE  Cardinality(EarnersOf(a, p)) \in Nat \ {0}
  <2>1. EarnersOf(a, p) \subseteq Workspaces
    BY DEF EarnersOf, TypeOK
  <2>2. IsFiniteSet(EarnersOf(a, p))
    BY <2>1, ConstantsAssumption, FS_Subset
  <2>3. QED
    BY <1>1, <2>2, FS_CardinalityType, FS_EmptySet
<1>2. ASSUME NEW r \in Owed(p)
      PROVE  r \in Row /\ r.period = p
  BY <1>1 DEF Owed, Row
<1>3. ASSUME NEW r \in Owed(p), NEW s \in Owed(p), r.address = s.address
      PROVE  r = s
  BY <1>3 DEF Owed
<1>4. QED
  BY <1>2, <1>3

LEMMA InitIInv == Init => IInv
<1> SUFFICES ASSUME Init PROVE IInv
  OBVIOUS
<1>1. TypeOK
  <2>1. DOMAIN files = {} /\ history \in Seq(Roots) /\ mempool \in Seq(SUBSET Row)
    BY EmptySeq DEF Init
  <2>2. tick \in Ticks
    BY DEF Init, Ticks, NoTick, Roots
  <2>3. /\ now \in Periods
        /\ earned \in [Periods -> SUBSET Workspaces]
        /\ budget \in [Disturbances -> Nat]
    BY ConstantsAssumption DEF Init, Periods
  <2>4. QED
    BY <2>1, <2>2, <2>3 DEF Init, TypeOK
<1>2. ClosedRows /\ SettlesTheNext /\ TickLocals
  BY DEF Init, ClosedRows, SettlesTheNext, TickLocals, InTick, Publishing
<1>3. RootsExtend
  BY DEF Init, RootsExtend, OwnRoots
<1>4. QED
  BY <1>1, <1>2, <1>3 DEF IInv

\* Assigning one field of the tick's locals a value of its type.
LEMMA TickFields ==
  ASSUME NEW t \in Ticks
  PROVE  /\ \A n, u \in Nat : [t EXCEPT !.next = n, !.upto = u] \in Ticks
         /\ \A n \in Nat : [t EXCEPT !.index = n] \in Ticks
         /\ \A n \in Nat : [t EXCEPT !.index = n, !.sent = TRUE] \in Ticks
         /\ \A n \in Nat : [t EXCEPT !.sent = TRUE, !.index = n] \in Ticks
         /\ \A rows \in SUBSET Row : [t EXCEPT !.owed = rows] \in Ticks
         /\ \A rows \in SUBSET Row : [t EXCEPT !.target = rows] \in Ticks
         /\ \A n \in Nat : [t EXCEPT !.next = n, !.owed = {}] \in Ticks
         /\ \A root \in Roots : [t EXCEPT !.seen = root] \in Ticks
         /\ [t EXCEPT !.sent = TRUE] \in Ticks
         /\ t.next \in Nat /\ t.upto \in Nat /\ t.index \in Nat
         /\ t.owed \in SUBSET Row /\ t.target \in SUBSET Row
BY DEF Ticks

\* What a due period is, wherever the tick is about to use it.
LEMMA DuePeriod ==
  ASSUME IInv, pc \in InTick \ {"cursor"}
  PROVE  /\ cursor \in Cursors /\ tick.next \in Nat /\ tick.upto \in Nat
         /\ tick.next = cursor.last + 1
         /\ tick.next <= tick.upto => tick.next \in Periods /\ tick.next < now
<1>1. now \in Nat /\ now <= MaxPeriod /\ MaxPeriod \in Nat
  BY ConstantsAssumption DEF IInv, TypeOK, Periods
<1>2. tick.next \in Nat /\ tick.upto \in Nat
  BY TickFields DEF IInv, TypeOK
<1>3. cursor \in Cursors /\ tick.next = cursor.last + 1 /\ tick.upto < now
  BY DEF IInv, SettlesTheNext
<1>4. QED
  BY <1>1, <1>2, <1>3 DEF Periods

\* No step gives the tick in progress a value the code could not.
LEMMA TickStep == IInv /\ [Next]_vars => tick' \in Ticks
<1> SUFFICES ASSUME IInv, [Next]_vars PROVE tick' \in Ticks
  OBVIOUS
<1>1. /\ tick \in Ticks
      /\ now \in Nat /\ now >= 2
      /\ Len(history) \in Nat
      /\ pretended \in {None} \cup Indexed
      /\ ledger \in SUBSET Row
      /\ cursor \in {None} \cup Cursors
      /\ RootSeen \in Roots
  <2>1. RootSeen \in Roots
    BY DEF IInv, TypeOK, RootSeen, Indexed, Roots
  <2>2. QED
    BY <2>1, LenProperties DEF IInv, TypeOK, ClosedRows, Periods
<1>2. NoTick \in Ticks
  BY DEF NoTick, Ticks, Roots
<1>3. IndexSeen \in Nat
  BY <1>1 DEF IndexSeen, Indexed
<1>4. CASE EndTick
  BY <1>2, <1>4 DEF EndTick
<1>5. CASE Crash
  BY <1>2, <1>5 DEF Crash
<1>6. CASE ReadCursor
  <2>1. cursor'.last \in Nat /\ LastClosed \in Nat
    BY <1>1, <1>6, ConstantsAssumption
    DEF ReadCursor, ColdStart, LastClosed, Cursors, Periods
  <2>2. tick' = [tick EXCEPT !.next = cursor'.last + 1, !.upto = LastClosed]
    BY <1>6 DEF ReadCursor
  <2>3. cursor'.last + 1 \in Nat
    BY <2>1
  <2>4. QED
    BY <1>1, <2>1, <2>2, <2>3, TickFields
<1>7. CASE Settle
  <2>1. tick.next \in Periods
    BY <1>7, DuePeriod DEF Settle, InTick
  <2>2. Owed(tick.next) \in SUBSET Row
    BY <2>1, OwedRows DEF IInv
  <2>3. QED
    BY <1>1, <1>7, <2>2, TickFields DEF Settle
<1>8. CASE AdvanceCursor
  <2>1. tick.next + 1 \in Nat
    BY <1>1 DEF Ticks
  <2>2. tick' = [tick EXCEPT !.next = tick.next + 1, !.owed = {}]
    BY <1>8 DEF AdvanceCursor
  <2>3. QED
    BY <1>1, <2>1, <2>2, TickFields
<1>9. CASE BuildTree
  BY <1>1, <1>9, TickFields DEF BuildTree, CumulativeTotals, RowsThrough
<1>10. CASE SkipPublish
  <2>1. CASE tick' = [tick EXCEPT !.index = cursor.confirmed.index] /\ Remembered
    <3>1. cursor \in Cursors
      BY <1>10, DuePeriod DEF SkipPublish, InTick
    <3>2. cursor.confirmed.index \in Nat
      BY <2>1, <3>1 DEF Remembered, Cursors, Notes
    <3>3. QED
      BY <1>1, <2>1, <3>2, TickFields
  <2>2. QED
    BY <1>4, <1>10, <2>1 DEF SkipPublish
<1>11. CASE ReadRoot
  BY <1>1, <1>11, TickFields DEF ReadRoot
<1>12. CASE ReadIndex
  BY <1>1, <1>3, <1>12, TickFields DEF ReadIndex
<1>13. CASE SendRoot
  BY <1>1, <1>4, <1>13, TickFields DEF SendRoot
<1>14. CASE PretendToSend
  <2>1. IndexSeen + 1 \in Nat
    BY <1>3
  <2>2. QED
    BY <1>1, <1>14, <2>1, TickFields DEF PretendToSend
<1>15. CASE ReadBack
  BY <1>1, <1>15, TickFields DEF ReadBack
<1>16. CASE UNCHANGED tick
  BY <1>1, <1>16
<1>17. CASE World \/ LoseCursor \/ \E m \in Modes : Start(m)
  BY <1>16, <1>17
  DEF World, LoseCursor, Start, ClockAdvances, CreditRetrieval, LateCredit,
      ConnectWallet, Mine, ForeignPublish, Pause, Unpause, RememberedGrowsStale
<1>18. CASE \/ BeginTick \/ Record \/ AskChain \/ AskPaused \/ ReceiveReceipt
            \/ WriteNumbered \/ WriteLatest \/ Remember
  BY <1>4, <1>16, <1>18
  DEF BeginTick, Record, AskChain, AskPaused, ReceiveReceipt, WriteNumbered,
      WriteLatest, Remember
<1>19. CASE TickFails \/ RecordRefused
  BY <1>4, <1>19 DEF TickFails, RecordRefused
<1>20. CASE UNCHANGED vars
  BY <1>16, <1>20 DEF vars
<1>21. QED
  BY <1>5, <1>6, <1>7, <1>8, <1>9, <1>10, <1>11, <1>12, <1>13, <1>14, <1>15,
     <1>17, <1>18, <1>19, <1>20
  DEF Next, Work

\* No step gives any store a value the code could not.
LEMMA TypeStep == IInv /\ [Next]_vars => TypeOK'
<1> SUFFICES ASSUME IInv, [Next]_vars PROVE TypeOK'
  OBVIOUS
<1> USE DEF IInv, TypeOK, InTick
<1> DEFINE Spent(d) == Spend(d) => budget' \in [Disturbances -> Nat]
<1>1. \A d \in Disturbances : Spent(d)
  BY DEF Spend
<1>2. tick' \in Ticks
  BY TickStep
<1>3. CASE ClockAdvances
  BY <1>3, ConstantsAssumption DEF ClockAdvances, Periods
<1>4. ASSUME NEW w \in Workspaces, CreditRetrieval(w)
      PROVE  TypeOK'
  BY <1>4 DEF CreditRetrieval
<1>26. ASSUME NEW w \in Workspaces, LateCredit(w)
       PROVE  TypeOK'
  BY <1>1, <1>26 DEF LateCredit, Disturbances
<1>5. ASSUME NEW w \in Workspaces, NEW a \in Addresses \cup {NoWallet},
             ConnectWallet(w, a)
      PROVE  TypeOK'
  BY <1>1, <1>5 DEF ConnectWallet, Disturbances
<1>6. CASE Mine
  <2>1. mempool' \in Seq(SUBSET Row) /\ Head(mempool) \in SUBSET Row
    BY <1>6, HeadTailProperties DEF Mine
  <2>2. history' \in Seq(Roots)
    BY <1>6, <2>1, AppendProperties DEF Mine, Roots
  <2>3. QED
    BY <1>6, <2>1, <2>2 DEF Mine
<1>7. CASE ForeignPublish
  BY <1>1, <1>7, AppendProperties DEF ForeignPublish, Roots, Disturbances
<1>8. CASE Pause \/ Unpause
  BY <1>1, <1>8 DEF Pause, Unpause, Disturbances
<1>9. CASE RememberedGrowsStale
  <2>1. cursor \in Cursors /\ cursor.confirmed \in Notes
    BY <1>9 DEF RememberedGrowsStale, Cursors
  <2>2. [cursor.confirmed EXCEPT !.fresh = FALSE] \in Notes
    BY <2>1 DEF Notes
  <2>3. cursor' \in Cursors
    BY <1>9, <2>1, <2>2 DEF RememberedGrowsStale, Cursors
  <2>4. QED
    BY <1>9, <2>3 DEF RememberedGrowsStale
<1>10. ASSUME NEW m \in Modes, Start(m)
       PROVE  TypeOK'
  BY <1>10 DEF Start
<1>11. CASE Crash \/ LoseCursor \/ TickFails
  BY <1>1, <1>2, <1>11 DEF Crash, LoseCursor, TickFails, EndTick, Disturbances
<1>12. CASE BeginTick
  BY <1>12 DEF BeginTick
<1>13. CASE ReadCursor
  <2>1. now \in Nat /\ now >= 2 /\ now <= MaxPeriod /\ MaxPeriod \in Nat
    BY ConstantsAssumption DEF Periods, ClosedRows
  <2>2. ColdStart \in Cursors
    BY <2>1 DEF ColdStart, LastClosed, Cursors, Periods
  <2>3. cursor' \in {None} \cup Cursors
    BY <1>13, <2>2 DEF ReadCursor
  <2>4. QED
    BY <1>2, <1>13, <2>3 DEF ReadCursor
<1>14. CASE Settle \/ BuildTree \/ ReadRoot \/ ReadIndex \/ ReadBack
  BY <1>2, <1>14 DEF Settle, BuildTree, ReadRoot, ReadIndex, ReadBack
<1>15. CASE Record
  <2>1. tick.next \in Periods
    BY <1>15, DuePeriod DEF Record, TickLocals
  <2>2. QED
    BY <1>2, <1>15, <2>1, TickFields DEF Record
<1>16. CASE RecordRefused
  BY <1>2, <1>16 DEF RecordRefused, EndTick
<1>17. CASE AdvanceCursor
  <2>1. tick.next \in Periods /\ cursor \in Cursors
    BY <1>17, DuePeriod DEF AdvanceCursor, TickLocals
  <2>2. cursor' \in Cursors
    BY <1>17, <2>1 DEF AdvanceCursor, Cursors
  <2>3. QED
    BY <1>2, <1>17, <2>2 DEF AdvanceCursor
<1>18. CASE SkipPublish \/ AskChain \/ AskPaused \/ ReceiveReceipt
  BY <1>2, <1>18 DEF SkipPublish, AskChain, AskPaused, ReceiveReceipt, EndTick
<1>19. CASE SendRoot
  <2>1. mempool' \in Seq(SUBSET Row)
    <3>1. tick.target \in SUBSET Row
      BY TickFields
    <3>2. Append(mempool, tick.target) \in Seq(SUBSET Row)
      BY <3>1, AppendProperties
    <3>3. QED
      BY <1>19, <3>2 DEF SendRoot
  <2>2. QED
    BY <1>2, <1>19, <2>1 DEF SendRoot, EndTick
<1>20. CASE PretendToSend
  <2>1. IndexSeen + 1 \in Nat
    BY LenProperties DEF IndexSeen, Indexed
  <2>2. [root |-> tick.target, index |-> IndexSeen + 1] \in Indexed
    BY <2>1, TickFields DEF Indexed
  <2>3. QED
    BY <1>2, <1>20, <2>2 DEF PretendToSend
<1>21. CASE WriteNumbered
  BY <1>2, <1>21, TickFields DEF WriteNumbered
<1>22. CASE WriteLatest
  BY <1>2, <1>22, TickFields DEF WriteLatest, EndTick, Indexed
<1>23. CASE Remember
  <2>1. cursor \in Cursors
    BY <1>23 DEF Remember, SettlesTheNext
  <2>2. [root |-> tick.target, index |-> tick.index, fresh |-> TRUE] \in Notes
    BY TickFields DEF Notes
  <2>3. cursor' \in Cursors
    BY <1>23, <2>1, <2>2 DEF Remember, Cursors
  <2>4. QED
    BY <1>2, <1>23, <2>3 DEF Remember, EndTick
<1>24. CASE UNCHANGED vars
  BY <1>24 DEF vars
<1>25. QED
  BY <1>3, <1>4, <1>26, <1>5, <1>6, <1>7, <1>8, <1>9, <1>10, <1>11, <1>12,
     <1>13, <1>14, <1>15, <1>16, <1>17, <1>18, <1>19, <1>20, <1>21, <1>22, <1>23,
     <1>24
  DEF Next, World, Work

(***************************************************************************)
(* A tick only ever settles the period after the cursor, never one that is *)
(* still open, and what it read stays true while it works.                 *)
(***************************************************************************)
LEMMA SettlingStep ==
  IInv /\ [Next]_vars => ClosedRows' /\ SettlesTheNext' /\ TickLocals'
<1> SUFFICES ASSUME IInv, [Next]_vars
             PROVE  ClosedRows' /\ SettlesTheNext' /\ TickLocals'
  OBVIOUS
<1>1. /\ now \in Nat /\ now >= 2
      /\ ClosedRows /\ SettlesTheNext /\ TickLocals
      /\ \A r \in ledger : r.period \in Nat
      /\ cursor \in {None} \cup Cursors
  BY ConstantsAssumption DEF IInv, TypeOK, Periods, Row, ClosedRows
<1>2. cursor # None => cursor \in Cursors /\ cursor.last \in Nat
  BY <1>1, ConstantsAssumption DEF Cursors, Periods
<1>3. cursor' \in {None} \cup Cursors
  BY TypeStep DEF TypeOK
<1> DEFINE Same == UNCHANGED <<now, ledger, cursor, pc, tick, accepted>>
<1>4. CASE UNCHANGED <<now, ledger, cursor, accepted>> /\ EndTick
  BY <1>1, <1>4
  DEF EndTick, ClosedRows, SettlesTheNext, TickLocals, InTick, Publishing
<1>5. CASE Same
  BY <1>1, <1>5
  DEF ClosedRows, SettlesTheNext, TickLocals
<1>6. CASE ClockAdvances
  <2>1. now' = now + 1 /\ UNCHANGED <<ledger, cursor, pc, tick, accepted>>
    BY <1>6 DEF ClockAdvances
  <2>2. ClosedRows'
    BY <1>1, <1>2, <2>1 DEF ClosedRows
  <2>3. SettlesTheNext'
    <3>1. ASSUME pc \in InTick \ {"cursor"}
          PROVE  tick.upto \in Nat /\ cursor.last \in Nat
      BY <1>2, <3>1, DuePeriod, ConstantsAssumption DEF Cursors, Periods
    <3>2. QED
      BY <1>1, <2>1, <3>1 DEF SettlesTheNext
  <2>4. TickLocals'
    BY <1>1, <2>1 DEF TickLocals
  <2>5. QED
    BY <2>2, <2>3, <2>4
<1>7. CASE RememberedGrowsStale
  <2>1. cursor \in Cursors /\ cursor' \in Cursors /\ cursor'.last = cursor.last
    <3>1. cursor \in Cursors
      BY <1>2, <1>7 DEF RememberedGrowsStale
    <3>2. cursor' = [cursor EXCEPT !.confirmed =
                       [cursor.confirmed EXCEPT !.fresh = FALSE]]
      BY <1>7 DEF RememberedGrowsStale
    <3>3. cursor' \in [last : Periods, confirmed : {cursor'.confirmed}]
      BY <3>1, <3>2 DEF Cursors
    <3>4. cursor.confirmed \in Notes
      BY <1>7, <3>1 DEF Cursors, RememberedGrowsStale
    <3>5. QED
      BY <3>1, <3>2, <3>4 DEF Cursors, Notes
  <2>2. QED
    BY <1>1, <1>7, <2>1
    DEF RememberedGrowsStale, ClosedRows, SettlesTheNext, TickLocals
<1>8. CASE \/ \E w \in Workspaces : CreditRetrieval(w) \/ LateCredit(w)
           \/ \E w \in Workspaces, a \in Addresses \cup {NoWallet} :
                ConnectWallet(w, a)
           \/ Mine \/ ForeignPublish \/ Pause \/ Unpause
  BY <1>5, <1>8
  DEF CreditRetrieval, LateCredit, ConnectWallet, Mine, ForeignPublish,
      Pause, Unpause
<1>9. CASE \/ \E m \in Modes : Start(m)
           \/ Crash \/ LoseCursor
  BY <1>1, <1>9
  DEF Start, Crash, LoseCursor, ClosedRows, SettlesTheNext, TickLocals,
      InTick, Publishing
<1>10. CASE TickFails \/ RecordRefused
  BY <1>4, <1>10 DEF TickFails, RecordRefused
<1>11. CASE BeginTick
  BY <1>1, <1>11
  DEF BeginTick, ClosedRows, SettlesTheNext, TickLocals, Publishing
<1>12. CASE ReadCursor
  <2>1. cursor' \in Cursors /\ cursor'.last < now
    <3>1. CASE cursor = None
      <4>1. cursor' = ColdStart /\ ColdStart.last = now - 2
        BY <1>1, <1>12, <3>1 DEF ReadCursor, ColdStart, LastClosed
      <4>2. ColdStart \in Cursors
        BY <1>1, ConstantsAssumption
        DEF ColdStart, LastClosed, Cursors, Periods, IInv, TypeOK
      <4>3. QED
        BY <1>1, <4>1, <4>2
    <3>2. CASE cursor # None
      BY <1>1, <1>12, <3>2 DEF ReadCursor, ClosedRows
    <3>3. QED
      BY <3>1, <3>2
  <2>2. /\ tick'.next = cursor'.last + 1
        /\ tick'.upto = now - 1
        /\ UNCHANGED <<now, ledger>> /\ pc' = "settle"
    BY <1>12 DEF ReadCursor, LastClosed, IInv, TypeOK, Ticks
  <2>3. \A r \in ledger : r.period <= cursor'.last + 1
    BY <1>1, <1>12 DEF ReadCursor, ColdStart, LastClosed, ClosedRows
  <2>4. QED
    BY <1>1, <2>1, <2>2, <2>3
    DEF ClosedRows, SettlesTheNext, TickLocals, Publishing
<1>13. CASE Settle
  <2>1. /\ tick'.next = tick.next /\ tick'.upto = tick.upto
        /\ tick'.owed = Owed(tick.next) /\ tick.next <= tick.upto
        /\ UNCHANGED <<now, ledger, cursor>> /\ pc' = "record"
        /\ pc = "settle"
    BY <1>13 DEF Settle, IInv, TypeOK, Ticks
  <2>2. tick.next \in Periods
    BY <1>13, DuePeriod DEF Settle, InTick
  <2>3. /\ \A r \in tick'.owed : r.period = tick'.next
        /\ \A r, t \in tick'.owed : r.address = t.address => r = t
    BY <2>1, <2>2, OwedRows DEF IInv
  <2>4. QED
    BY <1>1, <2>1, <2>3
    DEF ClosedRows, SettlesTheNext, TickLocals, Publishing, InTick
<1>14. CASE Record
  <2>1. /\ pc = "record" /\ pc' = "advance" /\ ledger' = ledger \cup tick.owed
        /\ UNCHANGED <<now, cursor, tick>> /\ tick.next \in accepted'
    BY <1>14 DEF Record
  <2>2. /\ cursor \in Cursors /\ tick.next \in Nat /\ tick.upto \in Nat
        /\ tick.next = cursor.last + 1
        /\ tick.next <= tick.upto /\ tick.next < now
    BY <1>1, <2>1, DuePeriod DEF InTick, TickLocals
  <2>3. \A r \in tick.owed : r.period = tick.next
    BY <1>1, <2>1 DEF TickLocals
  <2>4. ClosedRows'
    BY <1>1, <2>1, <2>2, <2>3 DEF ClosedRows
  <2>5. SettlesTheNext'
    BY <1>1, <2>1, <2>2, <2>3 DEF SettlesTheNext, InTick
  <2>6. TickLocals'
    BY <2>1, <2>2 DEF TickLocals, Publishing
  <2>7. QED
    BY <2>4, <2>5, <2>6
<1>15. CASE AdvanceCursor
  <2>1. /\ pc = "advance" /\ pc' = "settle"
        /\ UNCHANGED <<now, ledger, accepted>>
    BY <1>15 DEF AdvanceCursor
  <2>2. /\ cursor \in Cursors /\ tick.next \in Nat /\ tick.upto \in Nat
        /\ tick.next = cursor.last + 1
        /\ tick.next <= tick.upto /\ tick.next < now /\ tick.next \in Periods
    BY <1>1, <2>1, DuePeriod DEF InTick, TickLocals
  <2>3. cursor' \in Cursors /\ cursor'.last = tick.next
    BY <1>15, <2>2 DEF AdvanceCursor, Cursors
  <2>4. tick'.next = tick.next + 1 /\ tick'.upto = tick.upto
    BY <1>15 DEF AdvanceCursor, IInv, TypeOK, Ticks
  <2>5. ClosedRows'
    BY <1>1, <2>1, <2>2, <2>3 DEF ClosedRows, SettlesTheNext, InTick
  <2>6. SettlesTheNext'
    BY <1>1, <2>1, <2>2, <2>3, <2>4 DEF SettlesTheNext, InTick
  <2>7. TickLocals'
    BY <2>1 DEF TickLocals, Publishing
  <2>8. QED
    BY <2>5, <2>6, <2>7
<1>16. CASE BuildTree
  <2>1. /\ pc = "settle" /\ pc' = "publish" /\ tick.next > tick.upto
        /\ UNCHANGED <<now, ledger, cursor, accepted>>
    BY <1>16 DEF BuildTree
  <2>2. tick.next \in Nat /\ tick.upto \in Nat
    BY <2>1, DuePeriod DEF InTick
  <2>3. /\ tick'.next = tick.next /\ tick'.upto = tick.upto
        /\ tick'.target = RowsThrough(ledger, tick.next - 1)
    BY <1>16 DEF BuildTree, CumulativeTotals, IInv, TypeOK, Ticks
  <2>4. RowsThrough(ledger, tick.next - 1) = ledger
    BY <1>1, <2>1, <2>2 DEF RowsThrough, SettlesTheNext, InTick
  <2>5. QED
    BY <1>1, <2>1, <2>3, <2>4
    DEF ClosedRows, SettlesTheNext, TickLocals, InTick
<1>17. CASE Remember
  <2>1. pc = "remember" /\ UNCHANGED <<now, ledger, accepted>>
    BY <1>17 DEF Remember
  <2>2. cursor \in Cursors
    BY <1>17, DuePeriod DEF Remember, InTick
  <2>3. cursor' \in Cursors /\ cursor'.last = cursor.last
    <3>1. cursor' # None => cursor' \in Cursors
      BY <1>3
    <3>2. [root |-> tick.target, index |-> tick.index, fresh |-> TRUE] \in Notes
      BY TickFields DEF Notes, IInv, TypeOK
    <3>3. QED
      BY <1>17, <2>2, <3>2 DEF Remember, Cursors
  <2>4. CASE pc' = "idle"
    BY <1>1, <2>1, <2>2, <2>3, <2>4
    DEF ClosedRows, SettlesTheNext, TickLocals, InTick, Publishing
  <2>5. CASE pc' = "numbered" /\ tick' = tick
    BY <1>1, <2>1, <2>2, <2>3, <2>5
    DEF ClosedRows, SettlesTheNext, TickLocals, InTick, Publishing
  <2>6. QED
    BY <1>17, <2>4, <2>5 DEF Remember, EndTick
<1>18. CASE \/ SkipPublish \/ AskChain \/ ReadRoot \/ ReadIndex \/ AskPaused
            \/ SendRoot \/ PretendToSend \/ ReceiveReceipt \/ ReadBack
            \/ WriteNumbered \/ WriteLatest
  <2>1. UNCHANGED <<now, ledger, cursor, accepted>>
    BY <1>18
    DEF SkipPublish, AskChain, ReadRoot, ReadIndex, AskPaused, SendRoot,
        PretendToSend, ReceiveReceipt, ReadBack, WriteNumbered, WriteLatest
  <2>2. \/ EndTick
        \/ /\ pc \in Publishing /\ pc' \in Publishing
           /\ tick'.next = tick.next /\ tick'.upto = tick.upto
           /\ tick'.target = tick.target
    <3>1. tick \in Ticks
      BY DEF IInv, TypeOK
    <3>2. pc \in Publishing
      BY <1>18
      DEF SkipPublish, AskChain, ReadRoot, ReadIndex, AskPaused, SendRoot,
          PretendToSend, ReceiveReceipt, ReadBack, WriteNumbered, WriteLatest,
          Publishing
    <3>3. EndTick \/ pc' \in Publishing
      BY <1>18
      DEF SkipPublish, AskChain, ReadRoot, ReadIndex, AskPaused, SendRoot,
          PretendToSend, ReceiveReceipt, ReadBack, WriteNumbered, WriteLatest,
          Publishing
    <3>4. \/ EndTick \/ tick' = tick
          \/ \E n : tick' = [tick EXCEPT !.index = n]
          \/ \E n : tick' = [tick EXCEPT !.seen = n]
          \/ tick' = [tick EXCEPT !.sent = TRUE]
          \/ \E n : tick' = [tick EXCEPT !.sent = TRUE, !.index = n]
      BY <1>18
      DEF SkipPublish, AskChain, ReadRoot, ReadIndex, AskPaused, SendRoot,
          PretendToSend, ReceiveReceipt, ReadBack, WriteNumbered, WriteLatest
    <3>5. QED
      BY <3>1, <3>2, <3>3, <3>4 DEF Ticks
  <2>3. CASE pc \in Publishing /\ pc' \in Publishing
             /\ tick'.next = tick.next /\ tick'.upto = tick.upto
             /\ tick'.target = tick.target
    BY <1>1, <2>1, <2>3
    DEF ClosedRows, SettlesTheNext, TickLocals, InTick, Publishing
  <2>4. QED
    BY <1>4, <2>1, <2>2, <2>3
<1>19. CASE UNCHANGED vars
  BY <1>5, <1>19 DEF vars
<1>20. QED
  BY <1>6, <1>7, <1>8, <1>9, <1>10, <1>11, <1>12, <1>13, <1>14, <1>15, <1>16,
     <1>17, <1>18, <1>19
  DEF Next, World, Work

\* Publishing one more root adds that root to the ones of this publisher.
LEMMA AppendRoot ==
  ASSUME history \in Seq(Roots), NEW root \in Roots,
         history' = Append(history, root)
  PROVE  OwnRoots' = (OwnRoots \cup {root}) \ {ForeignRoot}
<1>1. /\ DOMAIN history = 1..Len(history) /\ Len(history) \in Nat
      /\ Len(history') = Len(history) + 1
      /\ DOMAIN history' = 1..(Len(history) + 1)
      /\ \A i \in 1..Len(history) : history'[i] = history[i]
      /\ history'[Len(history) + 1] = root
  BY AppendProperties, LenProperties
<1>2. DOMAIN history' = (DOMAIN history) \cup {Len(history) + 1}
  BY <1>1
<1>3. QED
  BY <1>1, <1>2 DEF OwnRoots

(***************************************************************************)
(* When a period is recorded for the first time, it is newer than all that *)
(* is in the ledger: what was the ledger up to some period still is.       *)
(***************************************************************************)
LEMMA RecordedIsNewest ==
  ASSUME IInv, Record
  PROVE  /\ \A root : BookUpTo(root) => BookUpTo(root)'
         /\ \A r \in tick.owed : r \in Row /\ r.period = tick.next
         /\ tick.next \in Periods
         /\ \A r \in ledger : r.period <= tick.next
<1>1. /\ pc = "record" /\ RowsOf(ledger, tick.next) \in {{}, tick.owed}
      /\ ledger' = ledger \cup tick.owed
  BY DEF Record, AgreesWithLedger
<1>2. /\ tick.next \in Periods /\ tick.next \in Nat
      /\ cursor \in Cursors /\ tick.next = cursor.last + 1
  BY <1>1, DuePeriod DEF InTick, TickLocals, IInv
<1>3. /\ \A r \in tick.owed : r \in Row /\ r.period = tick.next
      /\ \A r \in ledger : r.period \in Nat /\ r.period <= tick.next
  <2>1. tick.owed \in SUBSET Row /\ ledger \in SUBSET Row
    BY TickFields DEF IInv, TypeOK
  <2>2. QED
    BY <1>1, <2>1 DEF IInv, TickLocals, SettlesTheNext, InTick, Row, Periods
<1>4. ASSUME NEW root, BookUpTo(root)
      PROVE  BookUpTo(root)'
  <2>1. PICK p \in Periods : root = RowsThrough(ledger, p)
    BY <1>4 DEF BookUpTo
  <2>2. p \in Nat /\ cursor.last \in Periods /\ cursor.last \in Nat
    BY <1>2, ConstantsAssumption DEF Cursors, Periods
  <2>3. CASE RowsOf(ledger, tick.next) = tick.owed
    BY <1>1, <2>1, <2>3 DEF BookUpTo, RowsOf
  <2>4. CASE RowsOf(ledger, tick.next) = {} /\ p < tick.next
    <3>1. root = RowsThrough(ledger', p)
      BY <1>1, <1>2, <1>3, <2>1, <2>2, <2>4 DEF RowsThrough
    <3>2. QED
      BY <3>1 DEF BookUpTo
  <2>5. CASE RowsOf(ledger, tick.next) = {} /\ p >= tick.next
    <3>1. \A r \in ledger : r.period <= cursor.last
      BY <1>2, <1>3, <2>2, <2>5 DEF RowsOf
    <3>2. root = RowsThrough(ledger', cursor.last)
      BY <1>1, <1>2, <1>3, <2>1, <2>2, <2>5, <3>1 DEF RowsThrough
    <3>3. QED
      BY <2>2, <3>2 DEF BookUpTo
  <2>6. QED
    BY <1>1, <1>2, <2>2, <2>3, <2>4, <2>5
<1>5. QED
  BY <1>2, <1>3, <1>4

(***************************************************************************)
(* What is sent is the whole ledger, so it extends all that went before.   *)
(***************************************************************************)
LEMMA SentRoot ==
  ASSUME IInv, pc = "send"
  PROVE  tick.target = ledger /\ BookUpTo(ledger)
<1>1. /\ cursor \in Cursors /\ tick.next \in Nat /\ tick.upto \in Nat
      /\ tick.next = cursor.last + 1 /\ cursor.last \in Nat
  BY DuePeriod, ConstantsAssumption DEF InTick, Cursors, Periods
<1>2. tick.next > tick.upto /\ tick.target = ledger
  BY DEF IInv, TickLocals, Publishing
<1>3. \A r \in ledger : r.period \in Nat /\ r.period <= tick.upto
  BY DEF IInv, TypeOK, SettlesTheNext, InTick, Row, Periods
<1>4. ledger = RowsThrough(ledger, cursor.last)
  BY <1>1, <1>2, <1>3 DEF RowsThrough
<1>5. QED
  BY <1>1, <1>2, <1>4 DEF BookUpTo, Cursors

\* Every root sent or published is still the book up to some period.
LEMMA RootsStep == IInv /\ [Next]_vars => RootsExtend'
<1> SUFFICES ASSUME IInv, [Next]_vars PROVE RootsExtend'
  OBVIOUS
<1>1. /\ RootsExtend
      /\ history \in Seq(Roots) /\ mempool \in Seq(SUBSET Row)
      /\ ledger \in SUBSET Row
      /\ Len(mempool) \in Nat
  BY LenProperties DEF IInv, TypeOK
<1>2. CASE UNCHANGED <<ledger, history, mempool>>
  BY <1>1, <1>2 DEF RootsExtend, OwnRoots, BookUpTo
<1>3. CASE Mine
  <2>1. /\ mempool' = Tail(mempool) /\ UNCHANGED ledger
        /\ mempool # <<>>
        /\ history' = history \/ history' = Append(history, Head(mempool))
    BY <1>3 DEF Mine
  <2>2. /\ Len(mempool) >= 1
        /\ Len(mempool') = Len(mempool) - 1
        /\ \A i \in 1..Len(mempool') : mempool'[i] = mempool[i + 1]
        /\ Head(mempool) = mempool[1] /\ Head(mempool) \in SUBSET Row
    BY <1>1, <2>1, HeadTailProperties, EmptySeq, LenProperties
  <2>3. OwnRoots' \subseteq OwnRoots \cup {mempool[1]}
    <3>1. CASE history' = history
      BY <3>1 DEF OwnRoots
    <3>2. CASE history' = Append(history, Head(mempool))
      BY <1>1, <2>2, <3>2, AppendRoot DEF Roots
    <3>3. QED
      BY <2>1, <3>1, <3>2
  <2>4. \A root : BookUpTo(root) => BookUpTo(root)'
    BY <2>1 DEF BookUpTo
  <2>5. \A i \in 1..Len(mempool') : i + 1 \in 1..Len(mempool) /\ 1 <= i + 1
    BY <1>1, <2>2
  <2>6. 1 \in 1..Len(mempool)
    BY <1>1, <2>2
  <2>7. /\ \A q \in OwnRoots' : BookUpTo(q)'
        /\ \A i \in 1..Len(mempool') : BookUpTo(mempool[i])'
    BY <1>1, <2>2, <2>3, <2>4, <2>5, <2>6 DEF RootsExtend
  <2>8. \A q \in OwnRoots', i \in 1..Len(mempool') : q \subseteq mempool'[i]
    BY <1>1, <2>2, <2>3, <2>5, <2>6 DEF RootsExtend
  <2>9. \A i, j \in 1..Len(mempool') :
          i <= j => mempool'[i] \subseteq mempool'[j]
    <3> SUFFICES ASSUME NEW i \in 1..Len(mempool'),
                        NEW j \in 1..Len(mempool'), i <= j
                 PROVE  mempool'[i] \subseteq mempool'[j]
      OBVIOUS
    <3>1. i + 1 <= j + 1
      OBVIOUS
    <3>2. QED
      BY <1>1, <2>2, <2>5, <3>1 DEF RootsExtend
  <2>10. QED
    BY <2>7, <2>8, <2>9 DEF RootsExtend
<1>4. CASE ForeignPublish
  <2>1. OwnRoots' = OwnRoots
    BY <1>1, <1>4, AppendRoot DEF ForeignPublish, Roots, OwnRoots
  <2>2. QED
    BY <1>1, <1>4, <2>1 DEF ForeignPublish, RootsExtend, BookUpTo
<1>5. CASE Record
  <2>1. \A root : BookUpTo(root) => BookUpTo(root)'
    BY <1>5, RecordedIsNewest
  <2>2. OwnRoots' = OwnRoots /\ mempool' = mempool
    BY <1>5 DEF Record, OwnRoots
  <2>3. QED
    BY <1>1, <2>1, <2>2 DEF RootsExtend
<1>6. CASE SendRoot
  <2>1. /\ mempool' = mempool \/ mempool' = Append(mempool, tick.target)
        /\ UNCHANGED <<ledger, history>> /\ pc = "send"
    BY <1>6 DEF SendRoot
  <2>2. tick.target = ledger /\ BookUpTo(ledger)
    BY <2>1, SentRoot
  <2>3. CASE mempool' = mempool
    BY <1>2, <2>1, <2>3
  <2>4. CASE mempool' = Append(mempool, ledger)
    <3>1. /\ Len(mempool') = Len(mempool) + 1
          /\ \A i \in 1..Len(mempool) : mempool'[i] = mempool[i]
          /\ mempool'[Len(mempool) + 1] = ledger
      BY <1>1, <2>4, AppendProperties
    <3>2. \A i \in 1..Len(mempool') :
            i \in 1..Len(mempool) \/ i = Len(mempool) + 1
      BY <1>1, <3>1
    <3>3. OwnRoots' = OwnRoots /\ \A root : BookUpTo(root) => BookUpTo(root)'
      BY <2>1 DEF OwnRoots, BookUpTo
    <3>4. \A root : BookUpTo(root) => root \subseteq ledger
      BY DEF BookUpTo, RowsThrough
    <3>5. /\ \A q \in OwnRoots' : BookUpTo(q)'
          /\ \A i \in 1..Len(mempool') : BookUpTo(mempool[i])'
      BY <1>1, <2>2, <3>1, <3>2, <3>3 DEF RootsExtend
    <3>6. \A q \in OwnRoots', i \in 1..Len(mempool') : q \subseteq mempool'[i]
      BY <1>1, <3>1, <3>2, <3>3, <3>4 DEF RootsExtend
    <3>7. \A i, j \in 1..Len(mempool') :
            i <= j => mempool'[i] \subseteq mempool'[j]
      <4> SUFFICES ASSUME NEW i \in 1..Len(mempool'),
                          NEW j \in 1..Len(mempool'), i <= j
                   PROVE  mempool'[i] \subseteq mempool'[j]
        OBVIOUS
      <4>1. CASE j = Len(mempool) + 1
        BY <1>1, <3>1, <3>2, <3>4, <4>1 DEF RootsExtend
      <4>2. CASE j \in 1..Len(mempool)
        <5>1. i \in 1..Len(mempool)
          BY <1>1, <4>2
        <5>2. QED
          BY <1>1, <3>1, <4>2, <5>1 DEF RootsExtend
      <4>3. QED
        BY <3>2, <4>1, <4>2
    <3>8. QED
      BY <3>5, <3>6, <3>7 DEF RootsExtend
  <2>5. QED
    BY <2>1, <2>2, <2>3, <2>4
<1>7. CASE \/ ClockAdvances \/ Pause \/ Unpause \/ RememberedGrowsStale
           \/ \E w \in Workspaces : CreditRetrieval(w) \/ LateCredit(w)
           \/ \E w \in Workspaces, a \in Addresses \cup {NoWallet} :
                ConnectWallet(w, a)
           \/ \E m \in Modes : Start(m)
           \/ Crash \/ LoseCursor \/ TickFails
  BY <1>2, <1>7
  DEF ClockAdvances, Pause, Unpause, RememberedGrowsStale, CreditRetrieval,
      LateCredit, ConnectWallet, Start, Crash, LoseCursor, TickFails
<1>8. CASE \/ BeginTick \/ ReadCursor \/ Settle \/ RecordRefused
           \/ AdvanceCursor \/ BuildTree \/ SkipPublish \/ AskChain
           \/ ReadRoot \/ ReadIndex \/ AskPaused \/ PretendToSend
           \/ ReceiveReceipt \/ ReadBack \/ WriteNumbered \/ WriteLatest
           \/ Remember
  BY <1>2, <1>8
  DEF BeginTick, ReadCursor, Settle, RecordRefused, AdvanceCursor, BuildTree,
      SkipPublish, AskChain, ReadRoot, ReadIndex, AskPaused, PretendToSend,
      ReceiveReceipt, ReadBack, WriteNumbered, WriteLatest, Remember
<1>9. CASE UNCHANGED vars
  BY <1>2, <1>9 DEF vars
<1>10. QED
  BY <1>3, <1>4, <1>5, <1>6, <1>7, <1>8, <1>9 DEF Next, World, Work

(***************************************************************************)
(* The inductive invariant holds in every behaviour of the publisher.      *)
(***************************************************************************)
THEOREM Invariant == Spec => []IInv
<1>1. Init => IInv
  BY InitIInv
<1>2. IInv /\ [Next]_vars => IInv'
  BY TypeStep, SettlingStep, RootsStep DEF IInv
<1>3. QED
  BY <1>1, <1>2, PTL DEF Spec

(***************************************************************************)
(* Every store and the process always hold values of their types.          *)
(***************************************************************************)
THEOREM TypeCorrect == Spec => []TypeOK
<1>1. IInv => TypeOK
  BY DEF IInv
<1>2. QED
  BY <1>1, Invariant, PTL

(***************************************************************************)
(* The cursor of publisher.json moves to the next period only, and only to *)
(* one the ledger has accepted (settle in service.ts).                     *)
(***************************************************************************)
THEOREM CursorNeverLeads == Spec => CursorFollowsLedger
<1> DEFINE Moves ==
      (cursor # None /\ cursor' # None /\ cursor'.last # cursor.last) =>
         /\ cursor'.last = cursor.last + 1
         /\ cursor'.last \in accepted
<1>1. IInv /\ [Next]_vars => [Moves]_vars
  <2> SUFFICES ASSUME IInv, [Next]_vars, cursor # None, cursor' # None,
                      cursor'.last # cursor.last
               PROVE  Moves
    OBVIOUS
  <2>1. cursor \in Cursors
    BY DEF IInv, TypeOK
  <2>2. CASE AdvanceCursor
    <3>1. pc = "advance" /\ cursor' = [cursor EXCEPT !.last = tick.next]
      BY <2>2 DEF AdvanceCursor
    <3>2. tick.next = cursor.last + 1 /\ tick.next \in accepted
      BY <3>1 DEF IInv, SettlesTheNext, TickLocals, InTick
    <3>3. QED
      BY <2>1, <3>1, <3>2 DEF Cursors
  <2>3. CASE RememberedGrowsStale \/ Remember
    BY <2>1, <2>3 DEF RememberedGrowsStale, Remember, Cursors
  <2>4. CASE ReadCursor \/ LoseCursor
    BY <2>4 DEF ReadCursor, LoseCursor
  <2>5. CASE UNCHANGED cursor
    BY <2>5
  <2>6. CASE \/ ClockAdvances \/ Mine \/ ForeignPublish \/ Pause \/ Unpause
             \/ \E w \in Workspaces : CreditRetrieval(w) \/ LateCredit(w)
             \/ \E w \in Workspaces, a \in Addresses \cup {NoWallet} :
                  ConnectWallet(w, a)
             \/ \E m \in Modes : Start(m)
             \/ Crash \/ TickFails
    BY <2>5, <2>6
    DEF ClockAdvances, Mine, ForeignPublish, Pause, Unpause, CreditRetrieval,
        LateCredit, ConnectWallet, Start, Crash, TickFails
  <2>7. CASE \/ BeginTick \/ Settle \/ Record \/ RecordRefused \/ BuildTree
             \/ SkipPublish \/ AskChain \/ ReadRoot \/ ReadIndex \/ AskPaused
             \/ SendRoot \/ PretendToSend \/ ReceiveReceipt \/ ReadBack
             \/ WriteNumbered \/ WriteLatest
    BY <2>5, <2>7
    DEF BeginTick, Settle, Record, RecordRefused, BuildTree, SkipPublish,
        AskChain, ReadRoot, ReadIndex, AskPaused, SendRoot, PretendToSend,
        ReceiveReceipt, ReadBack, WriteNumbered, WriteLatest
  <2>8. CASE UNCHANGED vars
    BY <2>5, <2>8 DEF vars
  <2>9. QED
    BY <2>2, <2>3, <2>4, <2>6, <2>7, <2>8 DEF Next, World, Work
<1>2. QED
  BY <1>1, Invariant, PTL DEF Spec, CursorFollowsLedger

(***************************************************************************)
(* The publisher implements RewardBook: Record settles a period of the     *)
(* book or changes nothing, Mine publishes a root that is the book up to   *)
(* some period and extends every earlier one, and no other step touches    *)
(* either (recordAccruals and runOnce).                                    *)
(***************************************************************************)
THEOREM Refinement == Spec => KeepsTheBook
<1>1. Init => Book!Init
  BY DEF Init, Book!Init, OwnRoots
<1>2. IInv /\ [Next]_vars => [Book!Next]_<<ledger, OwnRoots>>
  <2> SUFFICES ASSUME IInv, [Next]_vars
               PROVE  Book!Next \/ UNCHANGED <<ledger, OwnRoots>>
    OBVIOUS
  <2>1. CASE UNCHANGED <<ledger, history>>
    BY <2>1 DEF OwnRoots
  <2>2. CASE Record
    <3>1. /\ ledger' = ledger \cup tick.owed /\ UNCHANGED OwnRoots
          /\ RowsOf(ledger, tick.next) \in {{}, tick.owed} /\ pc = "record"
      BY <2>2 DEF Record, AgreesWithLedger, OwnRoots
    <3>2. CASE RowsOf(ledger, tick.next) = tick.owed
      BY <3>1, <3>2 DEF RowsOf
    <3>3. CASE RowsOf(ledger, tick.next) = {}
      <4>1. /\ \A r \in tick.owed : r \in Row /\ r.period = tick.next
            /\ tick.next \in Periods
        BY <2>2, RecordedIsNewest
      <4>2. \A r, t \in tick.owed : r.address = t.address => r = t
        BY <3>1 DEF IInv, TickLocals
      <4>3. ledger' \ ledger \subseteq tick.owed /\ ledger \subseteq ledger'
        BY <3>1
      <4>4. Book!SettlementOf(tick.next, ledger' \ ledger)
        BY <4>1, <4>2, <4>3 DEF Book!SettlementOf, Book!Row, Row
      <4>5. Book!RowsOf(tick.next) = {}
        BY <3>3 DEF Book!RowsOf, RowsOf
      <4>6. Book!SettlePeriod
        BY <3>1, <4>1, <4>3, <4>4, <4>5 DEF Book!SettlePeriod
      <4>7. QED
        BY <4>6 DEF Book!Next
    <3>4. QED
      BY <3>1, <3>2, <3>3
  <2>3. CASE Mine
    <3>1. /\ UNCHANGED ledger /\ mempool # <<>>
          /\ history' = history \/ history' = Append(history, Head(mempool))
          /\ RootsExtend
          /\ history \in Seq(Roots) /\ mempool \in Seq(SUBSET Row)
      BY <2>3 DEF Mine, IInv, TypeOK
    <3>2. /\ Head(mempool) = mempool[1] /\ 1 \in 1..Len(mempool)
          /\ Head(mempool) \in SUBSET Row
      BY <3>1, HeadTailProperties, EmptySeq, LenProperties
    <3>3. CASE history' = Append(history, Head(mempool))
      <4>1. ForeignRoot \notin SUBSET Row
        BY ConstantsAssumption DEF Row, Periods
      <4>2. ForeignRoot \notin OwnRoots
        BY DEF OwnRoots
      <4>3. OwnRoots' = OwnRoots \cup {mempool[1]}
        BY <3>1, <3>2, <3>3, <4>1, <4>2, AppendRoot DEF Roots
      <4>4. PICK p \in Periods : mempool[1] = RowsThrough(ledger, p)
        BY <3>1, <3>2 DEF RootsExtend, BookUpTo
      <4>5. Book!RowsThrough(p) = mempool[1]
        BY <4>4 DEF Book!RowsThrough, RowsThrough
      <4>6. \A q \in OwnRoots : q \subseteq mempool[1]
        BY <3>1, <3>2 DEF RootsExtend
      <4>7. Book!PublishRoot
        BY <3>1, <4>3, <4>5, <4>6 DEF Book!PublishRoot
      <4>8. QED
        BY <4>7 DEF Book!Next
    <3>4. QED
      BY <2>1, <3>1, <3>3
  <2>4. CASE ForeignPublish
    <3>1. OwnRoots' = OwnRoots
      BY <2>4, AppendRoot DEF ForeignPublish, Roots, OwnRoots, IInv, TypeOK
    <3>2. QED
      BY <2>4, <3>1 DEF ForeignPublish
  <2>5. CASE \/ ClockAdvances \/ Pause \/ Unpause \/ RememberedGrowsStale
             \/ \E w \in Workspaces : CreditRetrieval(w) \/ LateCredit(w)
             \/ \E w \in Workspaces, a \in Addresses \cup {NoWallet} :
                  ConnectWallet(w, a)
             \/ \E m \in Modes : Start(m)
             \/ Crash \/ LoseCursor \/ TickFails
    BY <2>1, <2>5
    DEF ClockAdvances, Pause, Unpause, RememberedGrowsStale, CreditRetrieval,
      LateCredit, ConnectWallet, Start, Crash, LoseCursor, TickFails
  <2>6. CASE \/ BeginTick \/ ReadCursor \/ Settle \/ RecordRefused
             \/ AdvanceCursor \/ BuildTree \/ SkipPublish \/ AskChain
             \/ ReadRoot \/ ReadIndex \/ AskPaused \/ SendRoot
             \/ PretendToSend \/ ReceiveReceipt \/ ReadBack \/ WriteNumbered
             \/ WriteLatest \/ Remember
    BY <2>1, <2>6
    DEF BeginTick, ReadCursor, Settle, RecordRefused, AdvanceCursor,
        BuildTree, SkipPublish, AskChain, ReadRoot, ReadIndex, AskPaused,
        SendRoot, PretendToSend, ReceiveReceipt, ReadBack, WriteNumbered,
        WriteLatest, Remember
  <2>7. CASE UNCHANGED vars
    BY <2>1, <2>7 DEF vars
  <2>8. QED
    BY <2>2, <2>3, <2>4, <2>5, <2>6, <2>7 DEF Next, World, Work
<1>3. QED
  BY <1>1, <1>2, Invariant, PTL DEF Spec, KeepsTheBook, Book!Spec

(***************************************************************************)
(* Earners who appear after a period was recorded are paid nothing by it.  *)
(***************************************************************************)
LEMMA EarnersGrow ==
  ASSUME NEW rows \in SUBSET Row, NEW some, NEW all, some \subseteq all,
         PaysOnce(rows, some)
  PROVE  PaysOnce(rows, all)
<1>1. PICK payee \in [some -> Addresses \cup {NoWallet}] :
        \A r \in rows :
          r.amount = Cardinality({w \in some : payee[w] = r.address})
  BY DEF PaysOnce
<1> DEFINE wider == [w \in all |-> IF w \in some THEN payee[w] ELSE NoWallet]
<1>2. wider \in [all -> Addresses \cup {NoWallet}]
  BY <1>1
<1>3. ASSUME NEW r \in rows
      PROVE  r.amount = Cardinality({w \in all : wider[w] = r.address})
  <2>1. r.address \in Addresses
    BY DEF Row
  <2>2. {w \in all : wider[w] = r.address} =
          {w \in some : payee[w] = r.address}
    BY <2>1, ConstantsAssumption
  <2>3. QED
    BY <1>1, <2>2
<1>4. QED
  BY <1>2, <1>3 DEF PaysOnce

\* accrueWindow pays each earner once: to the wallet its owner has now.
LEMMA OwedPaysOnce ==
  ASSUME TypeOK, NEW p \in Periods
  PROVE  PaysOnce(Owed(p), earned[p])
<1> DEFINE payee == [w \in earned[p] |-> wallet[w]]
<1>1. payee \in [earned[p] -> Addresses \cup {NoWallet}]
  BY DEF TypeOK
<1>2. \A r \in Owed(p) : {w \in earned[p] : payee[w] = r.address} =
                          EarnersOf(r.address, p)
  BY DEF EarnersOf
<1>3. \A r \in Owed(p) : r.amount = Cardinality(EarnersOf(r.address, p))
  BY DEF Owed
<1>4. QED
  BY <1>1, <1>2, <1>3 DEF PaysOnce

\* Each earner stays paid once, whatever is recorded or replayed.
LEMMA EarnersStep ==
  ASSUME IInv, EarnersPaidOnce, [Next]_vars
  PROVE  EarnersPaidOnce'
<1>1. /\ TypeOK /\ earned \in [Periods -> SUBSET Workspaces]
      /\ ledger \in SUBSET Row /\ tick.owed \in SUBSET Row
      /\ \A p \in Periods : RowsOf(ledger, p) \in SUBSET Row
  BY TickFields DEF IInv, TypeOK, RowsOf
<1>2. pc = "record" => tick.next \in Periods
  BY DuePeriod DEF IInv, TickLocals, InTick
<1>3. ASSUME UNCHANGED ledger,
             \A p \in Periods : earned[p] \subseteq earned'[p],
             pc' = "record" => pc = "record" /\ tick' = tick
      PROVE  EarnersPaidOnce'
  <2>1. \A p \in Periods : PaysOnce(RowsOf(ledger', p), earned'[p])
    BY <1>1, <1>3, EarnersGrow DEF EarnersPaidOnce, NothingPaidTwice
  <2>2. pc' = "record" => PaysOnce(tick'.owed, earned'[tick'.next])
    BY <1>1, <1>2, <1>3, EarnersGrow DEF EarnersPaidOnce
  <2>3. QED
    BY <2>1, <2>2 DEF EarnersPaidOnce, NothingPaidTwice, PaysOnce, RowsOf
<1>4. CASE Settle
  <2>1. /\ tick'.next = tick.next /\ tick'.owed = Owed(tick.next)
        /\ UNCHANGED <<ledger, earned>>
    BY <1>1, <1>4 DEF Settle, TypeOK, Ticks
  <2>2. tick.next \in Periods
    BY <1>4, DuePeriod DEF Settle, InTick
  <2>3. PaysOnce(tick'.owed, earned[tick'.next])
    BY <1>1, <2>1, <2>2, OwedPaysOnce
  <2>4. QED
    BY <2>1, <2>3 DEF EarnersPaidOnce, NothingPaidTwice, PaysOnce, RowsOf
<1>5. CASE Record
  <2>1. /\ pc = "record" /\ pc' = "advance" /\ UNCHANGED earned
        /\ ledger' = ledger \cup tick.owed
        /\ RowsOf(ledger, tick.next) \in {{}, tick.owed}
    BY <1>5 DEF Record, AgreesWithLedger
  <2>2. \A r \in tick.owed : r.period = tick.next
    BY <1>5, RecordedIsNewest
  <2>3. RowsOf(ledger', tick.next) = tick.owed
    BY <2>1, <2>2 DEF RowsOf
  <2>4. \A p \in Periods \ {tick.next} : RowsOf(ledger', p) = RowsOf(ledger, p)
    BY <2>1, <2>2 DEF RowsOf
  <2>5. \A p \in Periods : PaysOnce(RowsOf(ledger', p), earned[p])
    BY <2>1, <2>3, <2>4 DEF EarnersPaidOnce, NothingPaidTwice
  <2>6. QED
    BY <2>1, <2>5 DEF EarnersPaidOnce, NothingPaidTwice, PaysOnce, RowsOf
<1>6. CASE BeginTick \/ \E w \in Workspaces : CreditRetrieval(w) \/ LateCredit(w)
  BY <1>1, <1>3, <1>6 DEF BeginTick, CreditRetrieval, LateCredit
<1>7. CASE UNCHANGED <<ledger, earned>> /\ pc' # "record"
  BY <1>3, <1>7
<1>8. CASE UNCHANGED <<ledger, earned, pc, tick>>
  BY <1>3, <1>8
<1>9. CASE \/ ClockAdvances \/ Mine \/ ForeignPublish \/ Pause \/ Unpause
           \/ RememberedGrowsStale \/ LoseCursor
           \/ \E w \in Workspaces, a \in Addresses \cup {NoWallet} :
                ConnectWallet(w, a)
  BY <1>8, <1>9
  DEF ClockAdvances, Mine, ForeignPublish, Pause, Unpause, LoseCursor,
      RememberedGrowsStale, ConnectWallet
<1>10. CASE \/ \E m \in Modes : Start(m)
            \/ Crash \/ TickFails \/ ReadCursor \/ RecordRefused
            \/ AdvanceCursor \/ BuildTree \/ SkipPublish \/ AskChain
            \/ ReadRoot \/ ReadIndex \/ AskPaused \/ SendRoot
            \/ PretendToSend \/ ReceiveReceipt \/ ReadBack \/ WriteNumbered
            \/ WriteLatest \/ Remember
  BY <1>7, <1>10
  DEF Start, Crash, TickFails, ReadCursor, RecordRefused, AdvanceCursor,
      BuildTree, SkipPublish, AskChain, ReadRoot, ReadIndex, AskPaused,
      SendRoot, PretendToSend, ReceiveReceipt, ReadBack, WriteNumbered,
      WriteLatest, Remember, EndTick
<1>11. CASE UNCHANGED vars
  BY <1>8, <1>11 DEF vars
<1>12. QED
  BY <1>4, <1>5, <1>6, <1>9, <1>10, <1>11 DEF Next, World, Work

(***************************************************************************)
(* What a workspace earned in a period is paid to one address at most,     *)
(* whatever wallets move, cursors are lost and periods are replayed        *)
(* (recordAccruals).                                                       *)
(***************************************************************************)
THEOREM EarnersArePaidOnce == Spec => []NothingPaidTwice
<1>1. Init => EarnersPaidOnce
  <2> SUFFICES ASSUME Init PROVE EarnersPaidOnce
    OBVIOUS
  <2>1. \A p \in Periods : RowsOf(ledger, p) = {}
    BY DEF Init, RowsOf
  <2>2. \A p \in Periods :
          [w \in earned[p] |-> NoWallet] \in
            [earned[p] -> Addresses \cup {NoWallet}]
    OBVIOUS
  <2>3. QED
    BY <2>1, <2>2 DEF Init, EarnersPaidOnce, NothingPaidTwice, PaysOnce
<1>2. IInv /\ EarnersPaidOnce /\ [Next]_vars => EarnersPaidOnce'
  BY EarnersStep
<1>3. EarnersPaidOnce => NothingPaidTwice
  BY DEF EarnersPaidOnce
<1>4. QED
  BY <1>1, <1>2, <1>3, Invariant, PTL DEF Spec

\* A root that is on chain stays there.
LEMMA OwnRootsGrow ==
  ASSUME IInv, [Next]_vars
  PROVE  OwnRoots \subseteq OwnRoots'
<1>1. history \in Seq(Roots) /\ mempool \in Seq(SUBSET Row)
  BY DEF IInv, TypeOK
<1>2. CASE Mine
  <2>1. \/ history' = history
        \/ mempool # <<>> /\ history' = Append(history, Head(mempool))
    BY <1>2 DEF Mine
  <2>2. mempool # <<>> => Head(mempool) \in Roots
    BY <1>1, HeadTailProperties DEF Roots
  <2>3. CASE history' = history
    BY <2>3 DEF OwnRoots
  <2>4. CASE mempool # <<>> /\ history' = Append(history, Head(mempool))
    <3>1. OwnRoots' = (OwnRoots \cup {Head(mempool)}) \ {ForeignRoot}
      BY <1>1, <2>2, <2>4, AppendRoot
    <3>2. QED
      BY <3>1 DEF OwnRoots
  <2>5. QED
    BY <2>1, <2>3, <2>4
<1>3. CASE ForeignPublish
  <2>1. OwnRoots' = (OwnRoots \cup {ForeignRoot}) \ {ForeignRoot}
    BY <1>1, <1>3, AppendRoot DEF ForeignPublish, Roots
  <2>2. QED
    BY <2>1 DEF OwnRoots
<1>4. CASE UNCHANGED history
  BY <1>4 DEF OwnRoots
<1>5. CASE \/ ClockAdvances \/ Pause \/ Unpause \/ RememberedGrowsStale
           \/ \E w \in Workspaces : CreditRetrieval(w) \/ LateCredit(w)
           \/ \E w \in Workspaces, a \in Addresses \cup {NoWallet} :
                ConnectWallet(w, a)
           \/ \E m \in Modes : Start(m)
           \/ Crash \/ LoseCursor \/ TickFails
  BY <1>4, <1>5
  DEF ClockAdvances, Pause, Unpause, RememberedGrowsStale, CreditRetrieval,
      LateCredit, ConnectWallet, Start, Crash, LoseCursor, TickFails
<1>6. CASE Work
  BY <1>4, <1>6
  DEF Work, BeginTick, ReadCursor, Settle, Record, RecordRefused,
      AdvanceCursor, BuildTree, SkipPublish, AskChain, ReadRoot, ReadIndex,
      AskPaused, SendRoot, PretendToSend, ReceiveReceipt, ReadBack,
      WriteNumbered, WriteLatest, Remember
<1>7. CASE UNCHANGED vars
  BY <1>4, <1>7 DEF vars
<1>8. QED
  BY <1>2, <1>3, <1>5, <1>6, <1>7 DEF Next, World

\* Steps of the tick, one call at a time.
LEMMA InHandStep ==
  ASSUME "dry" \notin Modes, IInv, KnownOnChain, [Next]_vars
  PROVE  InHandOnChain'
<1>1. /\ OwnRoots \subseteq OwnRoots' /\ InHandOnChain /\ pretended = None /\ NotedOnChain
      /\ tick \in Ticks /\ cursor \in {None} \cup Cursors
      /\ history \in Seq(Roots) /\ mempool \in Seq(SUBSET Row)
  BY OwnRootsGrow DEF KnownOnChain, IInv, TypeOK
<1>2. ForeignRoot \notin SUBSET Row
  BY ConstantsAssumption DEF Row, Periods
<1>3. tick.target \in SUBSET Row
  BY <1>1, TickFields
<1>4. CASE UNCHANGED <<pc, tick, mempool, receipt>>
  BY <1>1, <1>4 DEF InHandOnChain
<1>5. CASE pc' \in {"down", "idle", "cursor", "settle", "record", "advance",
                    "publish", "askPaused", "send"}
  BY <1>5 DEF InHandOnChain
<1>6. CASE Mine
  <2>1. /\ mempool # <<>> /\ mempool' = Tail(mempool) /\ UNCHANGED <<pc, tick>>
        /\ history' = IF paused THEN history ELSE Append(history, Head(mempool))
        /\ receipt' = IF Len(mempool) > 1 THEN receipt
                      ELSE IF paused THEN "reverted" ELSE "mined"
    BY <1>6 DEF Mine
  <2>2. /\ Len(mempool) \in Nat /\ Len(mempool) >= 1
        /\ Len(mempool') = Len(mempool) - 1
        /\ \A i \in 1..Len(mempool') : mempool'[i] = mempool[i + 1]
        /\ Head(mempool) = mempool[1] /\ Head(mempool) \in SUBSET Row
        /\ mempool' \in Seq(SUBSET Row)
    BY <1>1, <2>1, HeadTailProperties, EmptySeq, LenProperties
  <2>3. CASE Len(mempool) > 1
    <3>1. /\ Len(mempool') \in 1..Len(mempool')
          /\ mempool'[Len(mempool')] = mempool[Len(mempool)]
          /\ mempool' # <<>>
      <4>1. Len(mempool') \in 1..Len(mempool')
        BY <2>2, <2>3
      <4>2. mempool'[Len(mempool')] = mempool[Len(mempool') + 1]
        BY <2>2, <4>1
      <4>3. Len(mempool') + 1 = Len(mempool) /\ Len(mempool') # 0
        BY <2>2, <2>3
      <4>4. QED
        BY <4>1, <4>2, <4>3, EmptySeq
    <3>2. QED
      BY <1>1, <2>1, <2>3, <3>1 DEF InHandOnChain
  <2>4. CASE Len(mempool) = 1
    <3>1. mempool' = <<>>
      BY <2>2, <2>4, EmptySeq
    <3>2. pc = "wait" /\ receipt' = "mined" => tick.target \in OwnRoots'
      <4>1. SUFFICES ASSUME pc = "wait", receipt' = "mined"
                     PROVE  tick.target \in OwnRoots'
        OBVIOUS
      <4>2. ~paused /\ mempool[1] = tick.target
        BY <1>1, <2>1, <2>4, <4>1 DEF InHandOnChain
      <4>3. history' = Append(history, tick.target) /\ tick.target \in Roots
        BY <1>3, <2>1, <2>2, <4>2 DEF Roots
      <4>4. tick.target # ForeignRoot
        BY <1>2, <1>3
      <4>5. QED
        BY <1>1, <4>3, <4>4, AppendRoot
    <3>3. QED
      BY <1>1, <2>1, <3>1, <3>2 DEF InHandOnChain
  <2>5. QED
    BY <2>2, <2>3, <2>4
<1>7. CASE AskChain
  BY <1>7 DEF AskChain, InHandOnChain
<1>8. CASE ReadRoot
  <2>1. /\ pc = "readRoot" /\ pc' = "readIndex"
        /\ tick'.target = tick.target /\ tick'.seen = RootSeen
        /\ UNCHANGED history
    BY <1>1, <1>8 DEF ReadRoot, Ticks
  <2>2. ASSUME RootSeen = tick.target
        PROVE  tick.target \in OwnRoots'
    <3>1. history # <<>> /\ history[Len(history)] = tick.target
      BY <1>1, <2>1, <2>2 DEF RootSeen, InHandOnChain
    <3>2. Len(history) \in DOMAIN history
      BY <1>1, <3>1, LenProperties, EmptySeq
    <3>3. QED
      BY <1>2, <1>3, <2>1, <3>1, <3>2 DEF OwnRoots
  <2>3. tick.target # {}
    BY <1>1, <2>1 DEF InHandOnChain
  <2>4. QED
    BY <2>1, <2>2, <2>3 DEF InHandOnChain
<1>9. CASE ReadIndex
  <2>1. /\ pc = "readIndex" /\ tick'.target = tick.target
        /\ pc' = IF tick.seen = tick.target THEN "remember" ELSE "askPaused"
    BY <1>1, <1>9 DEF ReadIndex, Ticks
  <2>2. QED
    BY <1>1, <2>1 DEF InHandOnChain
<1>10. CASE SendRoot
  <2>1. CASE EndTick
    BY <1>5, <2>1 DEF EndTick
  <2>2. CASE /\ mempool' = Append(mempool, tick.target) /\ receipt' = "none"
             /\ pc' = "wait" /\ tick' = [tick EXCEPT !.sent = TRUE]
    <3>1. tick'.target = tick.target
      BY <1>1, <2>2 DEF Ticks
    <3>2. /\ Len(mempool') = Len(mempool) + 1
          /\ mempool'[Len(mempool) + 1] = tick.target
          /\ mempool' # <<>>
      BY <1>1, <1>3, <2>2, AppendProperties
    <3>3. QED
      BY <2>2, <3>1, <3>2 DEF InHandOnChain
  <2>3. QED
    BY <1>10, <2>1, <2>2 DEF SendRoot
<1>11. CASE PretendToSend
  BY <1>11 DEF PretendToSend, IInv, TypeOK
<1>12. CASE ReceiveReceipt
  <2>1. CASE EndTick
    BY <1>5, <2>1 DEF EndTick
  <2>2. CASE receipt = "mined" /\ pc' = "readBack" /\ tick' = tick
    <3>1. pc = "wait"
      BY <1>12 DEF ReceiveReceipt
    <3>2. tick.target \in OwnRoots
      BY <1>1, <2>2, <3>1 DEF InHandOnChain
    <3>3. QED
      BY <1>1, <2>2, <3>2 DEF InHandOnChain
  <2>3. QED
    BY <1>12, <2>1, <2>2 DEF ReceiveReceipt
<1>13. CASE ReadBack \/ WriteNumbered \/ WriteLatest \/ Remember
  <2>1. CASE EndTick
    BY <1>5, <2>1 DEF EndTick
  <2>2. CASE ~EndTick
    <3>1. /\ pc \in {"readBack", "numbered", "latest", "remember"}
          /\ pc' \in {"readBack", "numbered", "latest", "remember"}
          /\ tick'.target = tick.target
      BY <1>1, <1>13, <2>2
      DEF ReadBack, WriteNumbered, WriteLatest, Remember, Ticks
    <3>2. QED
      BY <1>1, <3>1 DEF InHandOnChain
  <2>3. QED
    BY <2>1, <2>2
<1>14. CASE SkipPublish
  <2>1. CASE EndTick
    BY <1>5, <2>1 DEF EndTick
  <2>2. CASE /\ Remembered /\ pc' = "numbered"
             /\ tick' = [tick EXCEPT !.index = cursor.confirmed.index]
    <3>1. tick'.target = tick.target
      BY <1>1, <2>2 DEF Ticks
    <3>2. pc = "publish"
      BY <1>14 DEF SkipPublish
    <3>3. cursor \in Cursors
      BY <3>2, DuePeriod DEF InTick
    <3>4. cursor # None
      BY <3>3, AbsentAssumption
    <3>5. tick.target \in OwnRoots
      <4>1. cursor.confirmed # None /\ cursor.confirmed.root = tick.target
        BY <2>2 DEF Remembered
      <4>2. QED
        BY <1>1, <3>4, <4>1 DEF NotedOnChain
    <3>6. QED
      BY <1>1, <2>2, <3>1, <3>5 DEF InHandOnChain
  <2>3. QED
    BY <1>14, <2>1, <2>2 DEF SkipPublish
<1>15. CASE \/ ClockAdvances \/ ForeignPublish \/ Pause \/ Unpause
            \/ RememberedGrowsStale \/ LoseCursor
            \/ \E w \in Workspaces : CreditRetrieval(w) \/ LateCredit(w)
            \/ \E w \in Workspaces, a \in Addresses \cup {NoWallet} :
                 ConnectWallet(w, a)
  BY <1>4, <1>15
  DEF ClockAdvances, ForeignPublish, Pause, Unpause, RememberedGrowsStale,
      LoseCursor, CreditRetrieval, LateCredit, ConnectWallet
<1>16. CASE \/ \E m \in Modes : Start(m)
            \/ Crash \/ TickFails \/ BeginTick \/ ReadCursor \/ Settle
            \/ Record \/ RecordRefused \/ AdvanceCursor \/ BuildTree
  BY <1>5, <1>16
  DEF Start, Crash, TickFails, BeginTick, ReadCursor, Settle, Record,
      RecordRefused, AdvanceCursor, BuildTree, EndTick
<1>17. CASE AskPaused
  BY <1>5, <1>17 DEF AskPaused, EndTick
<1>18. CASE UNCHANGED vars
  BY <1>4, <1>18 DEF vars
<1>19. QED
  BY <1>6, <1>7, <1>8, <1>9, <1>10, <1>11, <1>12, <1>13, <1>14, <1>15, <1>16,
     <1>17, <1>18
  DEF Next, World, Work

\* What is served and what is noted, whatever the step.
LEMMA KnownStep ==
  ASSUME "dry" \notin Modes, IInv, KnownOnChain, [Next]_vars
  PROVE  KnownOnChain'
<1>1. /\ OwnRoots \subseteq OwnRoots' /\ InHandOnChain /\ pretended = None /\ NotedOnChain
      /\ ServedRootWasOnChain
      /\ tick \in Ticks /\ cursor \in {None} \cup Cursors
  BY OwnRootsGrow DEF KnownOnChain, IInv, TypeOK
<1>2. ASSUME pretended' = None, UNCHANGED <<latest, cursor>>
      PROVE  pretended' = None /\ ServedRootWasOnChain' /\ NotedOnChain'
  BY <1>1, <1>2 DEF ServedRootWasOnChain, NotedOnChain
<1>3. pretended' = None /\ ServedRootWasOnChain' /\ NotedOnChain'
  <2>1. CASE WriteLatest
    <3>1. /\ pc = "latest" /\ UNCHANGED <<cursor, pretended>>
          /\ latest' = [root |-> tick.target, index |-> tick.index]
      BY <2>1 DEF WriteLatest
    <3>2. tick.target \in OwnRoots
      BY <1>1, <3>1 DEF InHandOnChain
    <3>3. QED
      BY <1>1, <3>1, <3>2 DEF ServedRootWasOnChain, NotedOnChain
  <2>2. CASE Remember
    <3>1. /\ pc = "remember" /\ UNCHANGED <<latest, pretended>>
          /\ cursor' = [cursor EXCEPT !.confirmed =
                [root |-> tick.target, index |-> tick.index, fresh |-> TRUE]]
      BY <2>2 DEF Remember
    <3>2. tick.target \in OwnRoots /\ cursor \in Cursors
      BY <1>1, <3>1, DuePeriod DEF InHandOnChain, InTick
    <3>3. cursor'.confirmed.root = tick.target
      BY <3>1, <3>2 DEF Cursors
    <3>4. QED
      BY <1>1, <3>1, <3>2, <3>3 DEF ServedRootWasOnChain, NotedOnChain
  <2>3. CASE RememberedGrowsStale
    <3>1. /\ UNCHANGED <<latest, pretended>> /\ cursor # None
          /\ cursor.confirmed # None
          /\ cursor' = [cursor EXCEPT !.confirmed.fresh = FALSE]
      BY <2>3 DEF RememberedGrowsStale
    <3>2. cursor \in Cursors /\ cursor.confirmed \in Notes
      BY <1>1, <3>1 DEF Cursors
    <3>3. cursor'.confirmed.root = cursor.confirmed.root
      BY <3>1, <3>2 DEF Cursors, Notes
    <3>4. QED
      BY <1>1, <3>1, <3>3 DEF ServedRootWasOnChain, NotedOnChain
  <2>4. CASE AdvanceCursor
    <3>1. /\ UNCHANGED <<latest, pretended>> /\ pc = "advance"
          /\ cursor' = [cursor EXCEPT !.last = tick.next]
      BY <2>4 DEF AdvanceCursor
    <3>2. cursor \in Cursors /\ cursor # None
      BY <3>1, DuePeriod, AbsentAssumption DEF InTick
    <3>3. cursor'.confirmed = cursor.confirmed
      BY <3>1, <3>2 DEF Cursors
    <3>4. QED
      BY <1>1, <3>1, <3>2, <3>3 DEF ServedRootWasOnChain, NotedOnChain
  <2>5. CASE ReadCursor \/ LoseCursor
    BY <1>1, <2>5
    DEF ReadCursor, LoseCursor, ColdStart, ServedRootWasOnChain, NotedOnChain
  <2>6. CASE \/ ClockAdvances \/ Mine \/ ForeignPublish \/ Pause \/ Unpause
             \/ \E w \in Workspaces : CreditRetrieval(w) \/ LateCredit(w)
             \/ \E w \in Workspaces, a \in Addresses \cup {NoWallet} :
                  ConnectWallet(w, a)
             \/ \E m \in Modes : Start(m)
             \/ Crash \/ TickFails
    BY <1>1, <1>2, <2>6
    DEF ClockAdvances, Mine, ForeignPublish, Pause, Unpause, CreditRetrieval,
        LateCredit, ConnectWallet, Start, Crash, TickFails
  <2>7. CASE \/ BeginTick \/ Settle \/ Record \/ RecordRefused \/ BuildTree
             \/ SkipPublish \/ AskChain \/ ReadRoot \/ ReadIndex
             \/ AskPaused \/ SendRoot \/ ReceiveReceipt \/ ReadBack
             \/ WriteNumbered
    BY <1>1, <1>2, <2>7
    DEF BeginTick, Settle, Record, RecordRefused, BuildTree, SkipPublish,
        AskChain, ReadRoot, ReadIndex, AskPaused, SendRoot, ReceiveReceipt,
        ReadBack, WriteNumbered
  <2>8. CASE PretendToSend
    BY <2>8 DEF PretendToSend, IInv, TypeOK
  <2>9. CASE UNCHANGED vars
    BY <1>1, <1>2, <2>9 DEF vars
  <2>10. QED
    BY <2>1, <2>2, <2>3, <2>4, <2>5, <2>6, <2>7, <2>8, <2>9
    DEF Next, World, Work
<1>4. InHandOnChain'
  BY InHandStep
<1>5. QED
  BY <1>3, <1>4 DEF KnownOnChain

LEMMA KnownInit == Init => KnownOnChain
BY DEF Init, KnownOnChain, ServedRootWasOnChain, NotedOnChain,
       InHandOnChain

(***************************************************************************)
(* Where no rehearsal shares the files, the proofs that are served and the *)
(* root that is not published again have both been on chain, through       *)
(* crashes, timeouts, transactions mined after they were given up, other   *)
(* publishers and a lost cursor (publish and writePublication).  A dry run *)
(* writes the same files for a root it only pretended to send.             *)
(***************************************************************************)
THEOREM PublishedWasOnChain ==
  ASSUME "dry" \notin Modes
  PROVE  Spec => []PublishedMeansOnChain
<1>1. IInv /\ KnownOnChain /\ [Next]_vars => KnownOnChain'
  BY KnownStep
<1>2. IInv /\ KnownOnChain => PublishedMeansOnChain
  <2> SUFFICES ASSUME IInv, KnownOnChain
               PROVE  SkipsOnlyWhatIsOnChain
    BY DEF PublishedMeansOnChain, KnownOnChain
  <2>1. ASSUME pc = "publish", Remembered
        PROVE  tick.target \in OwnRoots
    <3>1. cursor # None
      BY <2>1, DuePeriod, AbsentAssumption DEF InTick
    <3>2. QED
      BY <2>1, <3>1 DEF Remembered, KnownOnChain, NotedOnChain
  <2>2. QED
    BY <2>1 DEF SkipsOnlyWhatIsOnChain
<1>3. QED
  BY <1>1, <1>2, KnownInit, Invariant, PTL DEF Spec

\* While only this publisher publishes, a root of its that is the whole
\* ledger is the newest on chain if it is on chain at all.
LEMMA NewestIsTarget ==
  ASSUME IInv, Numbered, OnlyOurs, pc \in Publishing, tick.target \in OwnRoots
  PROVE  PublishedAs(Len(history), tick.target)
<1>1. /\ history \in Seq(Roots) /\ Len(history) \in Nat
      /\ DOMAIN history = 1..Len(history)
  BY LenProperties DEF IInv, TypeOK
<1>2. PICK i \in DOMAIN history : history[i] = tick.target
  BY DEF OwnRoots
<1>3. Len(history) \in DOMAIN history /\ i <= Len(history)
  BY <1>1, <1>2
<1>4. history[i] \subseteq history[Len(history)]
  BY <1>2, <1>3 DEF Numbered, HistoryExtends
<1>5. history[Len(history)] \in OwnRoots
  BY <1>3 DEF OwnRoots, OnlyOurs
<1>6. tick.target = ledger
  BY DEF IInv, TickLocals
<1>7. history[Len(history)] \subseteq ledger
  BY <1>5 DEF IInv, RootsExtend, BookUpTo, RowsThrough
<1>8. QED
  BY <1>2, <1>3, <1>4, <1>6, <1>7 DEF PublishedAs

\* What is on chain keeps its number, and each root extends those before.
LEMMA HistoryGrows ==
  ASSUME IInv, Numbered, OnlyOurs', [Next]_vars
  PROVE  /\ OnlyOurs
         /\ \A i, root : PublishedAs(i, root) => PublishedAs(i, root)'
         /\ HistoryExtends'
<1>1. /\ history \in Seq(Roots) /\ mempool \in Seq(SUBSET Row)
      /\ Len(history) \in Nat /\ DOMAIN history = 1..Len(history)
  BY LenProperties DEF IInv, TypeOK
<1>2. CASE UNCHANGED history
  BY <1>2 DEF OnlyOurs, PublishedAs, Numbered, HistoryExtends
<1>3. ASSUME NEW root \in Roots, history' = Append(history, root)
      PROVE  /\ OnlyOurs
             /\ \A i \in DOMAIN history : history'[i] = history[i]
             /\ DOMAIN history' = DOMAIN history \cup {Len(history) + 1}
             /\ history'[Len(history) + 1] = root
  <2>1. /\ Len(history') = Len(history) + 1
        /\ DOMAIN history' = 1..(Len(history) + 1)
        /\ \A i \in 1..Len(history) : history'[i] = history[i]
        /\ history'[Len(history) + 1] = root
    BY <1>1, <1>3, AppendProperties
  <2>2. DOMAIN history' = DOMAIN history \cup {Len(history) + 1}
    BY <1>1, <2>1
  <2>3. QED
    BY <1>1, <2>1, <2>2 DEF OnlyOurs
<1>4. CASE Mine
  <2>1. \/ history' = history
        \/ mempool # <<>> /\ history' = Append(history, Head(mempool))
    BY <1>4 DEF Mine
  <2>2. CASE mempool # <<>> /\ history' = Append(history, Head(mempool))
    <3>1. /\ Head(mempool) = mempool[1] /\ 1 \in 1..Len(mempool)
          /\ Head(mempool) \in Roots
      BY <1>1, <2>2, HeadTailProperties, EmptySeq, LenProperties DEF Roots
    <3>2. /\ OnlyOurs
          /\ \A i \in DOMAIN history : history'[i] = history[i]
          /\ DOMAIN history' = DOMAIN history \cup {Len(history) + 1}
          /\ history'[Len(history) + 1] = mempool[1]
      BY <1>3, <2>2, <3>1
    <3>3. \A i \in DOMAIN history : history[i] \in OwnRoots
      BY <3>2 DEF OnlyOurs, OwnRoots
    <3>4. \A i \in DOMAIN history : history[i] \subseteq mempool[1]
      BY <3>1, <3>3 DEF IInv, RootsExtend
    <3>5. ASSUME NEW i \in DOMAIN history', NEW j \in DOMAIN history', i <= j
          PROVE  history'[i] \subseteq history'[j]
      <4>1. CASE j \in DOMAIN history
        <5>1. i \in DOMAIN history
          BY <1>1, <3>2, <3>5, <4>1
        <5>2. QED
          BY <3>2, <3>5, <4>1, <5>1 DEF Numbered, HistoryExtends
      <4>2. CASE j = Len(history) + 1
        BY <3>2, <3>4, <4>2
      <4>3. QED
        BY <3>2, <4>1, <4>2
    <3>6. QED
      BY <3>2, <3>5 DEF PublishedAs, HistoryExtends
  <2>3. QED
    BY <1>2, <2>1, <2>2
<1>5. CASE ForeignPublish
  <2>1. history' = Append(history, ForeignRoot) /\ ForeignRoot \in Roots
    BY <1>5 DEF ForeignPublish, Roots
  <2>2. Len(history) + 1 \in DOMAIN history' /\ history'[Len(history) + 1] = ForeignRoot
    BY <1>3, <2>1
  <2>3. QED
    BY <2>2 DEF OnlyOurs
<1>6. CASE \/ ClockAdvances \/ Pause \/ Unpause \/ RememberedGrowsStale
           \/ \E w \in Workspaces : CreditRetrieval(w) \/ LateCredit(w)
           \/ \E w \in Workspaces, a \in Addresses \cup {NoWallet} :
                ConnectWallet(w, a)
           \/ \E m \in Modes : Start(m)
           \/ Crash \/ LoseCursor \/ TickFails
  BY <1>2, <1>6
  DEF ClockAdvances, Pause, Unpause, RememberedGrowsStale, CreditRetrieval,
      LateCredit, ConnectWallet, Start, Crash, LoseCursor, TickFails
<1>7. CASE Work
  BY <1>2, <1>7
  DEF Work, BeginTick, ReadCursor, Settle, Record, RecordRefused,
      AdvanceCursor, BuildTree, SkipPublish, AskChain, ReadRoot, ReadIndex,
      AskPaused, SendRoot, PretendToSend, ReceiveReceipt, ReadBack,
      WriteNumbered, WriteLatest, Remember
<1>8. CASE UNCHANGED vars
  BY <1>2, <1>8 DEF vars
<1>9. QED
  BY <1>4, <1>5, <1>6, <1>7, <1>8 DEF Next, World

\* Every number filed, noted or in hand stays its root's.
LEMMA NumberStep ==
  ASSUME "dry" \notin Modes, IInv, KnownOnChain, Numbered, [Next]_vars
  PROVE  Numbered'
<1> SUFFICES ASSUME OnlyOurs' PROVE Numbered'
  BY DEF Numbered
<1>1. /\ OnlyOurs
      /\ \A i, root : PublishedAs(i, root) => PublishedAs(i, root)'
      /\ HistoryExtends'
  BY HistoryGrows
<1>2. /\ FiledUnderItsRoot /\ NumberInHand /\ NumberNoted
      /\ tick \in Ticks /\ cursor \in {None} \cup Cursors
  BY <1>1 DEF Numbered, IInv, TypeOK
<1>3. UNCHANGED files => FiledUnderItsRoot'
  BY <1>1, <1>2 DEF FiledUnderItsRoot, PublishedAs
<1>4. UNCHANGED cursor => NumberNoted'
  BY <1>1, <1>2 DEF NumberNoted
<1>5. UNCHANGED <<pc, tick>> => NumberInHand'
  BY <1>1, <1>2 DEF NumberInHand
<1>6. pc' \notin {"numbered", "latest", "remember"} => NumberInHand'
  BY DEF NumberInHand
<1>7. ASSUME FiledUnderItsRoot', NumberNoted', NumberInHand'
      PROVE  Numbered'
  BY <1>1, <1>7 DEF Numbered
<1>8. CASE WriteNumbered
  <2>1. /\ pc = "numbered" /\ UNCHANGED <<history, cursor, tick>>
        /\ files' = [i \in DOMAIN files \cup {tick.index} |->
                       IF i = tick.index THEN tick.target ELSE files[i]]
    BY <1>8 DEF WriteNumbered
  <2>2. PublishedAs(tick.index, tick.target)
    BY <1>2, <2>1 DEF NumberInHand
  <2>3. FiledUnderItsRoot'
    BY <1>2, <2>1, <2>2 DEF FiledUnderItsRoot, PublishedAs
  <2>4. NumberInHand'
    BY <1>1, <2>1, <2>2 DEF NumberInHand
  <2>5. QED
    BY <1>4, <1>7, <2>1, <2>3, <2>4
<1>9. CASE Remember
  <2>1. /\ pc = "remember" /\ UNCHANGED <<files, history>>
        /\ cursor' = [cursor EXCEPT !.confirmed =
              [root |-> tick.target, index |-> tick.index, fresh |-> TRUE]]
        /\ pc' = "idle" \/ (pc' = "numbered" /\ tick' = tick)
    BY <1>9 DEF Remember, EndTick
  <2>2. cursor \in Cursors /\ PublishedAs(tick.index, tick.target)
    BY <1>2, <2>1, DuePeriod DEF NumberInHand, InTick
  <2>3. NumberNoted'
    <3>1. /\ cursor'.confirmed.index = tick.index
          /\ cursor'.confirmed.root = tick.target
      BY <2>1, <2>2 DEF Cursors
    <3>2. PublishedAs(cursor.confirmed.index, cursor.confirmed.root)'
      BY <2>1, <2>2, <3>1 DEF PublishedAs
    <3>3. QED
      BY <3>2 DEF NumberNoted
  <2>4. NumberInHand'
    BY <1>1, <2>1, <2>2 DEF NumberInHand
  <2>5. QED
    BY <1>3, <1>7, <2>1, <2>3, <2>4
<1>10. CASE RememberedGrowsStale
  <2>1. /\ UNCHANGED <<files, pc, tick>> /\ cursor # None
        /\ cursor.confirmed # None
        /\ cursor' = [cursor EXCEPT !.confirmed.fresh = FALSE]
    BY <1>10 DEF RememberedGrowsStale
  <2>2. cursor \in Cursors /\ cursor.confirmed \in Notes
    BY <1>2, <2>1 DEF Cursors
  <2>3. /\ cursor'.confirmed.root = cursor.confirmed.root
        /\ cursor'.confirmed.index = cursor.confirmed.index
    BY <2>1, <2>2 DEF Cursors, Notes
  <2>4. NumberNoted'
    BY <1>1, <1>2, <2>1, <2>3 DEF NumberNoted
  <2>5. QED
    BY <1>3, <1>5, <1>7, <2>1, <2>4
<1>11. CASE AdvanceCursor
  <2>1. /\ UNCHANGED files /\ pc = "advance" /\ pc' = "settle"
        /\ cursor' = [cursor EXCEPT !.last = tick.next]
    BY <1>11 DEF AdvanceCursor
  <2>2. cursor \in Cursors /\ cursor # None
    BY <2>1, DuePeriod, AbsentAssumption DEF InTick
  <2>3. cursor'.confirmed = cursor.confirmed
    BY <2>1, <2>2 DEF Cursors
  <2>4. NumberNoted'
    BY <1>1, <1>2, <2>2, <2>3 DEF NumberNoted
  <2>5. QED
    BY <1>3, <1>6, <1>7, <2>1, <2>4
<1>12. CASE ReadCursor \/ LoseCursor
  <2>1. UNCHANGED files /\ pc' \in {"down", "settle"}
    BY <1>12 DEF ReadCursor, LoseCursor
  <2>2. NumberNoted'
    BY <1>1, <1>2, <1>12 DEF ReadCursor, LoseCursor, ColdStart, NumberNoted
  <2>3. QED
    BY <1>3, <1>6, <1>7, <2>1, <2>2
<1>13. CASE ReadIndex
  <2>1. /\ pc = "readIndex" /\ UNCHANGED <<files, cursor, history>>
        /\ tick' = [tick EXCEPT !.index = IndexSeen]
        /\ pc' = IF tick.seen = tick.target THEN "remember" ELSE "askPaused"
    BY <1>13 DEF ReadIndex
  <2>2. IndexSeen = Len(history)
    BY DEF KnownOnChain, IndexSeen
  <2>3. tick'.index = Len(history) /\ tick'.target = tick.target
    BY <1>2, <2>1, <2>2 DEF Ticks
  <2>4. CASE tick.seen = tick.target
    <3>1. tick.target \in OwnRoots
      BY <2>1, <2>4 DEF KnownOnChain, InHandOnChain
    <3>2. PublishedAs(Len(history), tick.target)
      BY <1>1, <2>1, <3>1, NewestIsTarget DEF Publishing
    <3>3. NumberInHand'
      BY <2>1, <2>3, <3>2 DEF NumberInHand, PublishedAs
    <3>4. QED
      BY <1>3, <1>4, <1>7, <2>1, <3>3
  <2>5. CASE tick.seen # tick.target
    BY <1>3, <1>4, <1>6, <1>7, <2>1, <2>5
  <2>6. QED
    BY <2>4, <2>5
<1>14. CASE ReadBack
  <2>1. /\ pc = "readBack" /\ UNCHANGED <<files, cursor, history>>
        /\ tick' = [tick EXCEPT !.index = Len(history)] /\ pc' = "numbered"
    BY <1>14 DEF ReadBack
  <2>2. tick'.index = Len(history) /\ tick'.target = tick.target
    BY <1>2, <2>1 DEF Ticks
  <2>3. PublishedAs(Len(history), tick.target)
    BY <1>1, <2>1, NewestIsTarget DEF Publishing, KnownOnChain,
                                          InHandOnChain
  <2>4. NumberInHand'
    BY <2>1, <2>2, <2>3 DEF NumberInHand, PublishedAs
  <2>5. QED
    BY <1>3, <1>4, <1>7, <2>1, <2>4
<1>15. CASE SkipPublish
  <2>1. UNCHANGED <<files, cursor, history>> /\ pc = "publish"
    BY <1>15 DEF SkipPublish
  <2>2. CASE EndTick
    BY <1>3, <1>4, <1>6, <1>7, <2>1, <2>2 DEF EndTick
  <2>3. CASE /\ Remembered /\ pc' = "numbered"
             /\ tick' = [tick EXCEPT !.index = cursor.confirmed.index]
    <3>1. cursor # None
      BY <2>1, DuePeriod, AbsentAssumption DEF InTick
    <3>2. PublishedAs(cursor.confirmed.index, tick.target)
      BY <1>2, <2>3, <3>1 DEF Remembered, NumberNoted
    <3>3. tick'.index = cursor.confirmed.index /\ tick'.target = tick.target
      BY <1>2, <2>3 DEF Ticks
    <3>4. NumberInHand'
      BY <2>1, <3>2, <3>3 DEF NumberInHand, PublishedAs
    <3>5. QED
      BY <1>3, <1>4, <1>7, <2>1, <3>4
  <2>4. QED
    BY <1>15, <2>2, <2>3 DEF SkipPublish
<1>16. CASE WriteLatest
  <2>1. /\ UNCHANGED <<files, cursor>> /\ pc = "latest"
        /\ pc' = "idle" \/ (pc' = "remember" /\ tick' = tick)
    BY <1>16 DEF WriteLatest, EndTick
  <2>2. NumberInHand'
    BY <1>1, <1>2, <2>1 DEF NumberInHand
  <2>3. QED
    BY <1>3, <1>4, <1>7, <2>1, <2>2
<1>17. CASE \/ ClockAdvances \/ Mine \/ ForeignPublish \/ Pause \/ Unpause
            \/ \E w \in Workspaces : CreditRetrieval(w) \/ LateCredit(w)
            \/ \E w \in Workspaces, a \in Addresses \cup {NoWallet} :
                 ConnectWallet(w, a)
  BY <1>3, <1>4, <1>5, <1>7, <1>17
  DEF ClockAdvances, Mine, ForeignPublish, Pause, Unpause, CreditRetrieval,
      LateCredit, ConnectWallet
<1>18. CASE \/ \E m \in Modes : Start(m)
            \/ Crash \/ TickFails \/ BeginTick \/ Settle \/ Record
            \/ RecordRefused \/ BuildTree \/ AskChain \/ ReadRoot
            \/ AskPaused \/ SendRoot \/ ReceiveReceipt
  BY <1>3, <1>4, <1>6, <1>7, <1>18
  DEF Start, Crash, TickFails, BeginTick, Settle, Record, RecordRefused,
      BuildTree, AskChain, ReadRoot, AskPaused, SendRoot, ReceiveReceipt,
      EndTick
<1>19. CASE PretendToSend
  BY <1>19 DEF PretendToSend, IInv, TypeOK
<1>20. CASE UNCHANGED vars
  BY <1>3, <1>4, <1>5, <1>7, <1>20 DEF vars
<1>21. QED
  BY <1>8, <1>9, <1>10, <1>11, <1>12, <1>13, <1>14, <1>15, <1>16, <1>17,
     <1>18, <1>19, <1>20
  DEF Next, World, Work

(***************************************************************************)
(* Where no other key publishes and no rehearsal shares the files, each    *)
(* numbered proof file holds the proofs of the root the chain has under    *)
(* that number, through timeouts, repeated sends, pauses and crashes       *)
(* (publish, and publishRoot of chain.ts, which reads the index back).     *)
(***************************************************************************)
THEOREM FilesCarryTheirNumber ==
  ASSUME "dry" \notin Modes
  PROVE  Spec => []FiledUnderItsOwnRoot
<1>1. Init => Numbered
  BY DEF Init, Numbered, FiledUnderItsRoot, HistoryExtends, NumberNoted,
         NumberInHand
<1>2. IInv /\ KnownOnChain /\ [Next]_vars => KnownOnChain'
  BY KnownStep
<1>3. IInv /\ KnownOnChain /\ Numbered /\ [Next]_vars => Numbered'
  BY NumberStep
<1>4. Numbered => FiledUnderItsOwnRoot
  BY DEF Numbered, FiledUnderItsOwnRoot, OnlyOurs
<1>5. QED
  BY <1>1, <1>2, <1>3, <1>4, KnownInit, Invariant, PTL DEF Spec

=============================================================================
