-------------------------- MODULE UsageReportsProofs --------------------------
(***************************************************************************)
(* Proofs about UsageReports, for any workspaces, requests and keys, any   *)
(* number of reports in progress, and any links, revocations and deaths.   *)
(***************************************************************************)
EXTENDS UsageReports, FiniteSetTheorems, TLAPS

(***************************************************************************)
(* The inductive invariant.  A row, once on file, may change hands but is  *)
(* never gone, so an id a call found on file still is.  A run asks about   *)
(* an id once, with keys their workspaces linked; the row it wrote down is *)
(* either the one on file, as it was and still unpaid, or was replaced by  *)
(* one with another id, which the update by id cannot touch.               *)
(***************************************************************************)
FoundStays ==
  \A w \in Workspaces : call[w] # None =>
    \A g \in Generations : call[w].found[g] # None => usage[g] # None

OwnKeys ==
  /\ \A w \in Workspaces : linked[w] \in everLinked[w] \cup {NoKey}
  /\ run # None =>
       \A w \in Workspaces :
         run.keys[w] \in everLinked[w] \cup {NoKey, Unasked}

RunIsCurrent ==
  run # None =>
    /\ IsFiniteSet(run.todo)
    /\ \A i, j \in run.todo : i.gen = j.gen => i = j
    /\ \A i \in run.todo :
         StillThere(i) => /\ usage[i.gen].holder = i.holder
                          /\ usage[i.gen].status = "pending"

UsageInv == /\ TypeOK /\ FoundStays /\ OwnKeys /\ RunIsCurrent
            /\ OnFileOnceAnswered /\ OnlyThePayerIsPaid

-----------------------------------------------------------------------------
(***************************************************************************)
(* Ids.                                                                    *)
(***************************************************************************)

\* Finitely many ids are on file or remembered for a request.
LEMMA KnownIsFinite ==
  ASSUME TypeOK, run # None => IsFiniteSet(run.todo), NEW g \in Generations
  PROVE  IsFiniteSet(Known(g))
<1> DEFINE W == {w \in Workspaces : call[w] # None /\ g \in call[w].todo
                                      /\ call[w].found[g] # None}
           C == {call[w].found[g].id : w \in W}
           I == {item \in run.todo : item.gen = g}
           R == {item.id : item \in I}
<1>1. IsFiniteSet(C)
  <2> DEFINE f == [w \in W |-> call[w].found[g].id]
  <2>1. f \in Surjection(W, C)
    BY DEF Surjection
  <2>2. IsFiniteSet(W)
    BY UsageAssumption, FS_Subset
  <2>3. QED
    BY <2>1, <2>2, FS_Surjection
<1>2. run # None => IsFiniteSet(R)
  <2> SUFFICES ASSUME run # None PROVE IsFiniteSet(R)
    OBVIOUS
  <2> DEFINE h == [item \in I |-> item.id]
  <2>1. h \in Surjection(I, R)
    BY DEF Surjection
  <2>2. IsFiniteSet(I)
    BY FS_Subset
  <2>3. QED
    BY <2>1, <2>2, FS_Surjection
<1>3. IsFiniteSet(IF usage[g] = None THEN {} ELSE {usage[g].id})
  BY FS_EmptySet, FS_Singleton
<1>4. IsFiniteSet(IF run = None THEN {} ELSE R)
  BY <1>2, FS_EmptySet
<1> DEFINE U == IF usage[g] = None THEN {} ELSE {usage[g].id}
           V == IF run = None THEN {} ELSE R
<1>5. Known(g) = (U \cup C) \cup V
  BY DEF Known
<1> HIDE DEF U, C, V
<1>6. IsFiniteSet(U) /\ IsFiniteSet(C) /\ IsFiniteSet(V)
  BY <1>1, <1>3, <1>4 DEF U, V
<1>7. IsFiniteSet(U \cup C)
  BY <1>6, FS_Union
<1>8. QED
  BY <1>5, <1>6, <1>7, FS_Union

\* A new row's id is one that nobody knows: among one more ids than are
\* known, one is not.
LEMMA FreshIdIsFresh ==
  ASSUME TypeOK, run # None => IsFiniteSet(run.todo), NEW g \in Generations
  PROVE  FreshId(g) \in Nat /\ FreshId(g) \notin Known(g)
<1> DEFINE K == Known(g)
           c == Cardinality(K)
<1>1. IsFiniteSet(K)
  BY KnownIsFinite
<1> HIDE DEF K
<1>2. c \in Nat
  BY <1>1, FS_CardinalityType
<1>3. IsFiniteSet(0..c) /\ Cardinality(0..c) = c + 1
  <2> HIDE DEF c
  <2>1. c \in Int /\ 0 \in Int /\ ~(0 > c) /\ c - 0 + 1 = c + 1
    BY <1>2
  <2>2. QED
    BY <2>1, FS_Interval
<1>4. \E n \in 0..c : n \notin K
  <2> SUFFICES ASSUME 0..c \in SUBSET K PROVE FALSE
    OBVIOUS
  <2>1. Cardinality(0..c) <= c
    BY <1>1, FS_Subset
  <2>2. QED
    BY <1>2, <1>3, <2>1
<1>5. FreshId(g) \in 0..c /\ FreshId(g) \notin K
  BY <1>4 DEF FreshId, K
<1>6. QED
  BY <1>2, <1>5 DEF K

-----------------------------------------------------------------------------
(***************************************************************************)
(* Types.                                                                  *)
(***************************************************************************)
LEMMA InitUsage == Init => UsageInv
<1> SUFFICES ASSUME Init PROVE UsageInv
  OBVIOUS
<1> USE UsageAssumption DEF Init
<1>1. TypeOK
  BY DEF TypeOK
<1>2. FoundStays /\ OwnKeys /\ RunIsCurrent
  BY DEF FoundStays, OwnKeys, RunIsCurrent
<1>3. OnFileOnceAnswered /\ OnlyThePayerIsPaid
  BY DEF OnFileOnceAnswered, OnlyThePayerIsPaid
<1>4. QED
  BY <1>1, <1>2, <1>3 DEF UsageInv

\* What a call or a run in progress holds.
LEMMA CallType ==
  ASSUME TypeOK, NEW w \in Workspaces, call[w] # None
  PROVE  /\ call[w] \in Calls
         /\ call[w].todo \in (SUBSET claims[w]) \ {{}}
         /\ call[w].todo \subseteq Generations
         /\ call[w].found \in [Generations -> Row \cup {None}]
BY DEF TypeOK, Calls

LEMMA RunType ==
  ASSUME TypeOK, run # None
  PROVE  /\ run \in Runs /\ run.todo \subseteq Items
         /\ run.keys \in [Workspaces -> Keys \cup {NoKey, Unasked}]
         /\ \A i \in run.todo :
              i.gen \in Generations /\ i.holder \in Workspaces /\ i.id \in Nat
BY DEF TypeOK, Runs, Items

\* No record is None.
LEMMA RecordsAreSomething ==
  /\ \A r \in Row : r # None
  /\ \A r \in Calls : r # None
  /\ \A r \in Runs : r # None
BY NoneAssumption

\* What Insert writes: a pending row of w's with an id nobody knows for each
\* id of the batch, and it answers for the batch.
LEMMA Inserted ==
  ASSUME TypeOK, RunIsCurrent, NEW w \in Workspaces,
         NEW batch \in SUBSET Generations, Insert(w, batch)
  PROVE  /\ usage' \in [Generations -> Row \cup {None}]
         /\ older' \in [Generations -> SUBSET Generations]
         /\ answered' \in [Workspaces -> SUBSET Generations]
         /\ \A g \in batch : /\ usage'[g] # None
                             /\ usage'[g].holder = w
                             /\ usage'[g].status = "pending"
                             /\ usage'[g].id \notin Known(g)
         /\ \A g \in Generations \ batch : usage'[g] = usage[g]
         /\ answered'[w] = answered[w] \cup batch
         /\ \A v \in Workspaces \ {w} : answered'[v] = answered[v]
<1>1. \A g \in Generations : FreshId(g) \in Nat /\ FreshId(g) \notin Known(g)
  BY FreshIdIsFresh DEF RunIsCurrent
<1>2. \A g \in Generations :
        [holder |-> w, status |-> "pending", id |-> FreshId(g)] \in Row
  BY <1>1 DEF Row
<1>3. usage' \in [Generations -> Row \cup {None}]
  BY <1>2 DEF Insert, TypeOK
<1>4. older' \in [Generations -> SUBSET Generations]
  BY DEF Insert, TypeOK
<1>5. answered' \in [Workspaces -> SUBSET Generations]
  BY DEF Insert, TypeOK
<1>6. \A g \in batch :
        usage'[g] = [holder |-> w, status |-> "pending", id |-> FreshId(g)]
  BY DEF Insert
<1>7. \A g \in batch : /\ usage'[g] # None
                       /\ usage'[g].holder = w
                       /\ usage'[g].status = "pending"
                       /\ usage'[g].id \notin Known(g)
  <2> SUFFICES ASSUME NEW g \in batch
               PROVE  /\ usage'[g] # None
                      /\ usage'[g].holder = w
                      /\ usage'[g].status = "pending"
                      /\ usage'[g].id \notin Known(g)
    OBVIOUS
  <2> DEFINE n == FreshId(g)
  <2>1. n \notin Known(g) /\ [holder |-> w, status |-> "pending", id |-> n] \in Row
    BY <1>1, <1>2
  <2>2. usage'[g] = [holder |-> w, status |-> "pending", id |-> n]
    BY <1>6
  <2> HIDE DEF n
  <2>3. QED
    BY <2>1, <2>2, RecordsAreSomething
<1>8. \A g \in Generations \ batch : usage'[g] = usage[g]
  BY DEF Insert
<1>9. /\ answered'[w] = answered[w] \cup batch
      /\ \A v \in Workspaces \ {w} : answered'[v] = answered[v]
  BY DEF Insert, TypeOK
<1>10. QED
  BY <1>3, <1>4, <1>5, <1>7, <1>8, <1>9

\* A report's next state, where it has one.
LEMMA CallWritten ==
  ASSUME TypeOK, NEW w \in Workspaces, NEW c \in Calls \cup {None},
         c # None => c.todo \in (SUBSET claims[w]) \ {{}},
         call' = [call EXCEPT ![w] = c], claims' = claims
  PROVE  /\ call' \in [Workspaces -> Calls \cup {None}]
         /\ \A v \in Workspaces :
              call'[v] # None => call'[v].todo \in (SUBSET claims'[v]) \ {{}}
<1>1. call' \in [Workspaces -> Calls \cup {None}]
  BY DEF TypeOK
<1>2. \A v \in Workspaces : call'[v] = IF v = w THEN c ELSE call[v]
  BY DEF TypeOK
<1>3. QED
  BY <1>1, <1>2 DEF TypeOK

\* A report keeps every variable in its type.
LEMMA ReportTypeStep ==
  ASSUME UsageInv, NEW w \in Workspaces,
         \/ \E batch \in SUBSET claims[w] : Report(w, batch)
         \/ Reporting(w) \/ ReportFails(w)
  PROVE  TypeOK'
<1> USE DEF TypeOK
<1>1. TypeOK /\ RunIsCurrent
  BY DEF UsageInv
<1>2. claims[w] \subseteq Generations
  BY <1>1, UsageAssumption
<1>3. ASSUME NEW batch \in SUBSET claims[w], Report(w, batch)
      PROVE  TypeOK'
  <2> DEFINE c == [at |-> "keys", todo |-> batch,
                   found |-> [g \in Generations |->
                                IF g \in batch THEN usage[g] ELSE None]]
  <2>1. c \in Calls
    BY <1>1, <1>2 DEF Calls
  <2>2. call' = [call EXCEPT ![w] = c] /\ c.todo = batch /\ batch # {}
    BY <1>3 DEF Report
  <2> HIDE DEF c
  <2>3. /\ call' \in [Workspaces -> Calls \cup {None}]
        /\ \A v \in Workspaces :
             call'[v] # None => call'[v].todo \in (SUBSET claims'[v]) \ {{}}
    <3>1. c \in Calls \cup {None} /\ claims' = claims
      BY <1>3, <2>1 DEF Report
    <3>2. c # None => c.todo \in (SUBSET claims[w]) \ {{}}
      BY <1>3, <2>2
    <3>3. QED
      BY <1>1, <2>2, <3>1, <3>2, CallWritten
  <2>4. QED
    BY <1>1, <1>3, <2>3 DEF Report
<1>4. CASE ReadKeys(w)
  <2> DEFINE fresh == {g \in call[w].todo :
                         \/ call[w].found[g] = None
                         \/ Stranded(w, call[w].found[g])}
  <2>1. call[w] # None /\ fresh \subseteq call[w].todo
    BY <1>4 DEF ReadKeys
  <2>2. /\ call' = [call EXCEPT ![w] = AfterKeys(w, fresh)]
        /\ answered' = [answered EXCEPT ![w] = @ \cup (call[w].todo \ fresh)]
    BY <1>4 DEF ReadKeys
  <2> HIDE DEF fresh
  <2>3. /\ AfterKeys(w, fresh) \in Calls \cup {None}
        /\ AfterKeys(w, fresh) # None =>
             AfterKeys(w, fresh).todo \in (SUBSET claims[w]) \ {{}}
    BY <1>1, <2>1, CallType DEF AfterKeys, Calls
  <2>4. /\ call' \in [Workspaces -> Calls \cup {None}]
        /\ \A v \in Workspaces :
             call'[v] # None => call'[v].todo \in (SUBSET claims[v]) \ {{}}
    BY <1>1, <2>2, <2>3
  <2>5. answered' \in [Workspaces -> SUBSET Generations]
    BY <1>1, <2>1, <2>2, CallType
  <2>6. QED
    BY <1>1, <1>4, <2>4, <2>5 DEF ReadKeys
<1>5. CASE Write(w)
  <2>1. call[w] # None /\ Insert(w, call[w].todo)
    BY <1>5 DEF Write
  <2>2. /\ usage' \in [Generations -> Row \cup {None}]
        /\ older' \in [Generations -> SUBSET Generations]
        /\ answered' \in [Workspaces -> SUBSET Generations]
    BY <1>1, <2>1, CallType, Inserted
  <2>3. QED
    BY <1>1, <1>5, <2>2 DEF Write
<1>6. CASE Collide(w)
  <2>1. call[w] # None
    BY <1>6 DEF Collide
  <2>2. [call[w] EXCEPT !.at = "one"] \in Calls
    BY <1>1, <2>1, CallType DEF Calls
  <2>3. [call[w] EXCEPT !.at = "one"].todo = call[w].todo
    BY <1>1, <2>1, CallType DEF Calls
  <2>4. call' = [call EXCEPT ![w] = [call[w] EXCEPT !.at = "one"]]
    BY <1>6 DEF Collide
  <2>5. /\ call' \in [Workspaces -> Calls \cup {None}]
        /\ \A v \in Workspaces :
             call'[v] # None => call'[v].todo \in (SUBSET claims[v]) \ {{}}
    BY <1>1, <2>1, <2>2, <2>3, <2>4, CallType
  <2>6. QED
    BY <1>1, <1>6, <2>5 DEF Collide, RollBack
<1>7. CASE WriteOne(w)
  <2>1. call[w] # None
    BY <1>7 DEF WriteOne
  <2>2. PICK g \in call[w].todo :
          /\ \/ Insert(w, {g})
             \/ /\ answered' = [answered EXCEPT ![w] = @ \cup {g}]
                /\ UNCHANGED <<usage, older>>
          /\ call' = [call EXCEPT ![w] =
                        IF call[w].todo = {g} THEN None
                        ELSE [call[w] EXCEPT !.todo = @ \ {g}]]
    BY <1>7 DEF WriteOne
  <2>3. g \in Generations
    BY <1>1, <2>1, CallType
  <2>4. /\ usage' \in [Generations -> Row \cup {None}]
        /\ older' \in [Generations -> SUBSET Generations]
        /\ answered' \in [Workspaces -> SUBSET Generations]
    <3>1. CASE Insert(w, {g})
      BY <1>1, <2>3, <3>1, Inserted
    <3>2. CASE /\ answered' = [answered EXCEPT ![w] = @ \cup {g}]
               /\ UNCHANGED <<usage, older>>
      BY <1>1, <2>3, <3>2
    <3>3. QED
      BY <2>2, <3>1, <3>2
  <2>5. /\ [call[w] EXCEPT !.todo = @ \ {g}] \in Calls
        /\ [call[w] EXCEPT !.todo = @ \ {g}].todo = call[w].todo \ {g}
    BY <1>1, <2>1, CallType DEF Calls
  <2>6. /\ call' \in [Workspaces -> Calls \cup {None}]
        /\ \A v \in Workspaces :
             call'[v] # None => call'[v].todo \in (SUBSET claims'[v]) \ {{}}
    <3> DEFINE c == IF call[w].todo = {g} THEN None
                    ELSE [call[w] EXCEPT !.todo = @ \ {g}]
    <3>1. c \in Calls \cup {None}
      BY <2>5
    <3>2. c # None => c.todo \in (SUBSET claims[w]) \ {{}}
      BY <1>1, <2>1, <2>5, CallType
    <3>3. call' = [call EXCEPT ![w] = c] /\ claims' = claims
      BY <1>1, <1>7, <2>2 DEF WriteOne
    <3> HIDE DEF c
    <3>4. QED
      BY <1>1, <3>1, <3>2, <3>3, CallWritten
  <2>7. QED
    BY <1>1, <1>7, <2>4, <2>6 DEF WriteOne
<1>8. CASE ReportFails(w)
  BY <1>1, <1>8, UsageAssumption DEF ReportFails, Fail
<1>9. QED
  BY <1>3, <1>4, <1>5, <1>6, <1>7, <1>8 DEF Reporting

\* So do links, revocations and runs.
LEMMA KeyTypeStep ==
  ASSUME UsageInv, NEW w \in Workspaces,
         \/ \E k \in Keys : LinkKey(w, k) \/ Revoke(k)
         \/ ResetRejected(w) \/ LinkDies(w) \/ ClearKey(w)
  PROVE  TypeOK'
<1> USE UsageAssumption DEF TypeOK
<1>1. TypeOK
  BY DEF UsageInv
<1>2. ASSUME NEW k \in Keys, LinkKey(w, k)
      PROVE  TypeOK'
  BY <1>1, <1>2 DEF LinkKey, SpendLink
<1>3. ASSUME NEW k \in Keys, Revoke(k)
      PROVE  TypeOK'
  BY <1>1, <1>3 DEF Revoke, Fail
<1>4. CASE ResetRejected(w)
  <2>1. \A g \in Generations : usage[g] # None =>
          [usage[g] EXCEPT !.status = "pending"] \in Row
    BY <1>1 DEF Row
  <2>2. usage' \in [Generations -> Row \cup {None}]
    BY <1>1, <1>4, <2>1 DEF ResetRejected
  <2>3. QED
    BY <1>1, <1>4, <2>2 DEF ResetRejected
<1>5. CASE LinkDies(w)
  BY <1>1, <1>5 DEF LinkDies, Fail
<1>6. CASE ClearKey(w)
  BY <1>1, <1>6 DEF ClearKey, Fail
<1>7. QED
  BY <1>2, <1>3, <1>4, <1>5, <1>6

LEMMA RunTypeStep ==
  ASSUME UsageInv, Running \/ RunDies
  PROVE  TypeOK'
<1> USE UsageAssumption DEF TypeOK
<1>1. TypeOK
  BY DEF UsageInv
<1>2. CASE BeginRun
  <2>1. PICK batch \in SUBSET Askable :
          run' = [todo |-> {[gen |-> g, holder |-> usage[g].holder,
                             id |-> usage[g].id,
                             older |-> older[g]] : g \in batch},
                  keys |-> [w \in Workspaces |-> Unasked]]
    BY <1>2 DEF BeginRun
  <2>2. \A g \in batch : /\ g \in Generations /\ usage[g].holder \in Workspaces
                         /\ usage[g].id \in Nat
                         /\ older[g] \in SUBSET Generations
    BY <1>1 DEF Askable, Row
  <2>3. run'.todo \subseteq Items
    BY <2>1, <2>2 DEF Items
  <2>4. run' \in Runs
    BY <2>1, <2>3 DEF Runs
  <2>5. QED
    BY <1>1, <1>2, <2>4 DEF BeginRun
<1>3. CASE EndRun \/ RunDies
  BY <1>1, <1>3 DEF EndRun, RunDies, Fail
<1>4. ASSUME run # None, NEW item \in run.todo,
             ResolveKey(item) \/ Defer(item) \/ Settle(item)
               \/ SettleMissing(item)
      PROVE  TypeOK'
  <2>1. /\ run \in Runs /\ run.todo \subseteq Items
        /\ run.keys \in [Workspaces -> Keys \cup {NoKey, Unasked}]
        /\ item.gen \in Generations /\ item.holder \in Workspaces
    BY <1>1, <1>4, RunType
  <2>2. [run EXCEPT !.todo = @ \ {item}] \in Runs
    BY <2>1 DEF Runs
  <2>3. CASE ResolveKey(item)
    <3>1. Resolve(item.holder) \in [Workspaces -> Keys \cup {NoKey, Unasked}]
      BY <1>1, <2>1 DEF Resolve
    <3>2. [run EXCEPT !.keys = Resolve(item.holder)] \in Runs
      BY <2>1, <3>1 DEF Runs
    <3>3. QED
      BY <1>1, <2>3, <3>2 DEF ResolveKey
  <2>4. CASE Defer(item)
    BY <1>1, <2>2, <2>4 DEF Defer, Done, Fail
  <2>5. CASE Settle(item)
    <3>1. usage[item.gen] \in Row
      BY <1>1, <2>1, <2>5 DEF Settle, StillThere
    <3>2. [usage[item.gen] EXCEPT !.status = Verdict(item)] \in Row
      BY <3>1 DEF Verdict, Row
    <3>3. usage' \in [Generations -> Row \cup {None}]
      BY <1>1, <2>1, <2>5, <3>2 DEF Settle
    <3>4. QED
      BY <1>1, <2>2, <2>5, <3>3 DEF Settle, Done
  <2>6. CASE SettleMissing(item)
    BY <1>1, <2>6 DEF SettleMissing
  <2>7. QED
    BY <1>4, <2>3, <2>4, <2>5, <2>6
<1>5. QED
  BY <1>2, <1>3, <1>4 DEF Running

LEMMA UsageTypeStep == UsageInv /\ [Next]_vars => TypeOK'
<1> SUFFICES ASSUME UsageInv, [Next]_vars PROVE TypeOK'
  OBVIOUS
<1>1. CASE Next
  <2>1. ASSUME NEW w \in Workspaces,
               \/ \E batch \in SUBSET claims[w] : Report(w, batch)
               \/ Reporting(w) \/ ReportFails(w)
        PROVE  TypeOK'
    BY <2>1, ReportTypeStep
  <2>2. ASSUME NEW w \in Workspaces,
               \/ \E k \in Keys : LinkKey(w, k)
               \/ ResetRejected(w) \/ LinkDies(w) \/ ClearKey(w)
        PROVE  TypeOK'
    BY <2>2, KeyTypeStep
  <2>3. ASSUME NEW k \in Keys, Revoke(k)
        PROVE  TypeOK'
    BY <2>3, UsageAssumption DEF UsageInv, TypeOK, Revoke, Fail
  <2>4. CASE Running \/ RunDies
    BY <2>4, RunTypeStep
  <2>5. QED
    BY <1>1, <2>1, <2>2, <2>3, <2>4 DEF Next
<1>2. CASE UNCHANGED vars
  BY <1>2 DEF UsageInv, TypeOK, vars
<1>3. QED
  BY <1>1, <1>2

-----------------------------------------------------------------------------
(***************************************************************************)
(* Reports.                                                                *)
(***************************************************************************)

\* What a step of a report does to the rows, the calls and the answers: rows
\* of a batch it inserts are pending, its own and of ids nobody knows; all
\* others are as they were.
NewOrSame(w, g) ==
  \/ usage'[g] = usage[g]
  \/ /\ usage'[g] # None
     /\ usage'[g].holder = w
     /\ usage'[g].status = "pending"
     /\ usage'[g].id \notin Known(g)
     /\ usage[g] # None => usage[g].status # "verified"

Told(w) ==
  /\ \A v \in Workspaces \ {w} : answered'[v] = answered[v]
  /\ \A g \in answered'[w] : g \in answered[w] \/ usage'[g] # None

Remembered(w) ==
  /\ \A v \in Workspaces \ {w} : call'[v] = call[v]
  /\ call'[w] # None =>
       \/ call[w] # None /\ call'[w].found = call[w].found
       \/ \A g \in Generations :
            call'[w].found[g] # None => usage[g] # None

ReportEffect(w) ==
  /\ \A g \in Generations : NewOrSame(w, g)
  /\ Told(w)
  /\ Remembered(w)
  /\ UNCHANGED <<linked, run, everLinked>>

\* What an insert that may go through does to the rows.
LEMMA InsertEffect ==
  ASSUME UsageInv, NEW w \in Workspaces, call[w] # None,
         NEW batch \in SUBSET Generations,
         CanInsert(w, batch), Insert(w, batch)
  PROVE  (\A g \in Generations : NewOrSame(w, g)) /\ Told(w)
<1>1. TypeOK /\ RunIsCurrent
  BY DEF UsageInv
<1>2. /\ \A g \in batch : /\ usage'[g] # None
                          /\ usage'[g].holder = w
                          /\ usage'[g].status = "pending"
                          /\ usage'[g].id \notin Known(g)
      /\ \A g \in Generations \ batch : usage'[g] = usage[g]
      /\ answered'[w] = answered[w] \cup batch
      /\ \A v \in Workspaces \ {w} : answered'[v] = answered[v]
  BY <1>1, Inserted
<1>3. \A g \in batch : usage[g] # None => usage[g].status # "verified"
  BY DEF CanInsert, Releases
<1>4. \A g \in Generations : NewOrSame(w, g)
  BY <1>2, <1>3 DEF NewOrSame
<1>5. Told(w)
  BY <1>2 DEF Told
<1>6. QED
  BY <1>4, <1>5

LEMMA ReportHasEffect ==
  ASSUME UsageInv, NEW w \in Workspaces,
         \/ \E batch \in SUBSET claims[w] : Report(w, batch)
         \/ Reporting(w) \/ ReportFails(w)
  PROVE  ReportEffect(w)
<1>1. TypeOK /\ FoundStays /\ RunIsCurrent
  BY DEF UsageInv
<1>2. /\ call \in [Workspaces -> Calls \cup {None}]
      /\ answered \in [Workspaces -> SUBSET Generations]
  BY <1>1 DEF TypeOK
<1>3. usage' = usage => \A g \in Generations : NewOrSame(w, g)
  BY DEF NewOrSame
<1>4. answered' = answered => Told(w)
  BY DEF Told
<1>5. ASSUME NEW batch \in SUBSET claims[w], Report(w, batch)
      PROVE  ReportEffect(w)
  <2> DEFINE c == [at |-> "keys", todo |-> batch,
                   found |-> [g \in Generations |->
                                IF g \in batch THEN usage[g] ELSE None]]
  <2>1. call' = [call EXCEPT ![w] = c]
    BY <1>5 DEF Report
  <2>2. \A g \in Generations : c.found[g] # None => usage[g] # None
    OBVIOUS
  <2> HIDE DEF c
  <2>3. Remembered(w)
    BY <1>2, <2>1, <2>2 DEF Remembered
  <2>4. QED
    BY <1>3, <1>4, <1>5, <2>3 DEF ReportEffect, Report
<1>6. CASE ReadKeys(w)
  <2> DEFINE fresh == {g \in call[w].todo :
                         \/ call[w].found[g] = None
                         \/ Stranded(w, call[w].found[g])}
  <2>1. /\ call[w] # None
        /\ call' = [call EXCEPT ![w] = AfterKeys(w, fresh)]
        /\ answered' = [answered EXCEPT ![w] = @ \cup (call[w].todo \ fresh)]
        /\ usage' = usage
    BY <1>6 DEF ReadKeys
  <2>2. \A g \in call[w].todo \ fresh : usage[g] # None
    BY <1>1, <2>1, CallType DEF FoundStays
  <2> HIDE DEF fresh
  <2>3. AfterKeys(w, fresh) # None => AfterKeys(w, fresh).found = call[w].found
    BY <1>1, <2>1, CallType DEF AfterKeys, Calls
  <2>4. Remembered(w)
    BY <1>2, <2>1, <2>3 DEF Remembered
  <2>5. Told(w)
    BY <1>2, <2>1, <2>2 DEF Told
  <2>6. QED
    BY <1>3, <1>6, <2>1, <2>4, <2>5 DEF ReportEffect, ReadKeys
<1>7. CASE Write(w)
  <2>1. /\ call[w] # None /\ call[w].todo \in SUBSET Generations
        /\ CanInsert(w, call[w].todo) /\ Insert(w, call[w].todo)
        /\ call' = [call EXCEPT ![w] = None]
    BY <1>1, <1>7, CallType DEF Write
  <2>2. (\A g \in Generations : NewOrSame(w, g)) /\ Told(w)
    BY <2>1, InsertEffect
  <2>3. Remembered(w)
    BY <1>2, <2>1 DEF Remembered
  <2>4. QED
    BY <1>7, <2>2, <2>3 DEF ReportEffect, Write
<1>8. CASE Collide(w)
  <2>1. call[w] # None /\ call' = [call EXCEPT ![w].at = "one"]
    BY <1>8 DEF Collide
  <2>2. Remembered(w)
    BY <1>1, <1>2, <2>1, CallType DEF Remembered, Calls
  <2>3. QED
    BY <1>3, <1>4, <1>8, <2>2 DEF ReportEffect, Collide, RollBack
<1>9. CASE WriteOne(w)
  <2>1. call[w] # None
    BY <1>9 DEF WriteOne
  <2>2. PICK g \in call[w].todo :
          /\ \/ CanInsert(w, {g}) /\ Insert(w, {g})
             \/ /\ ~CanInsert(w, {g})
                /\ answered' = [answered EXCEPT ![w] = @ \cup {g}]
                /\ UNCHANGED <<usage, older>>
          /\ call' = [call EXCEPT ![w] =
                        IF call[w].todo = {g} THEN None
                        ELSE [call[w] EXCEPT !.todo = @ \ {g}]]
    BY <1>9 DEF WriteOne
  <2>3. g \in Generations
    BY <1>1, <2>1, CallType
  <2>4. (\A h \in Generations : NewOrSame(w, h)) /\ Told(w)
    <3>1. CASE CanInsert(w, {g}) /\ Insert(w, {g})
      BY <2>1, <2>3, <3>1, InsertEffect
    <3>2. CASE /\ ~CanInsert(w, {g})
               /\ answered' = [answered EXCEPT ![w] = @ \cup {g}]
               /\ UNCHANGED <<usage, older>>
      <4>1. usage'[g] # None
        BY <3>2 DEF CanInsert
      <4>2. Told(w)
        BY <1>2, <3>2, <4>1 DEF Told
      <4>3. QED
        BY <1>3, <3>2, <4>2
    <3>3. QED
      BY <2>2, <3>1, <3>2
  <2>5. Remembered(w)
    <3> DEFINE c == IF call[w].todo = {g} THEN None
                    ELSE [call[w] EXCEPT !.todo = @ \ {g}]
    <3>1. c # None => c.found = call[w].found
      BY <1>1, <2>1, CallType DEF Calls
    <3>2. call' = [call EXCEPT ![w] = c]
      BY <2>2
    <3> HIDE DEF c
    <3>3. QED
      BY <1>2, <2>1, <3>1, <3>2 DEF Remembered
  <2>6. QED
    BY <1>9, <2>4, <2>5 DEF ReportEffect, WriteOne
<1>10. CASE ReportFails(w)
  <2>1. Remembered(w)
    BY <1>2, <1>10 DEF Remembered, ReportFails
  <2>2. QED
    BY <1>3, <1>4, <1>10, <2>1 DEF ReportEffect, ReportFails
<1>11. QED
  BY <1>5, <1>6, <1>7, <1>8, <1>9, <1>10 DEF Reporting

\* An item of the run remembers its row's id.
LEMMA ItemsAreKnown ==
  ASSUME TypeOK, run # None, NEW i \in run.todo
  PROVE  i.id \in Known(i.gen)
BY DEF Known

LEMMA ReportKeeps ==
  ASSUME UsageInv, NEW w \in Workspaces, ReportEffect(w)
  PROVE  /\ FoundStays' /\ OwnKeys' /\ RunIsCurrent'
         /\ OnFileOnceAnswered' /\ OnlyThePayerIsPaid'
<1>1. /\ TypeOK /\ FoundStays /\ OwnKeys /\ RunIsCurrent
      /\ OnFileOnceAnswered /\ OnlyThePayerIsPaid
  BY DEF UsageInv
<1>2. /\ UNCHANGED <<linked, run, everLinked>>
      /\ \A g \in Generations : NewOrSame(w, g)
  BY DEF ReportEffect
<1>3. \A g \in Generations : usage[g] # None => usage'[g] # None
  BY <1>2 DEF NewOrSame
<1>4. FoundStays'
  BY <1>1, <1>3 DEF FoundStays, ReportEffect, Remembered
<1>5. OwnKeys'
  BY <1>1, <1>2 DEF OwnKeys
<1>6. RunIsCurrent'
  <2> SUFFICES ASSUME run # None, NEW i \in run.todo, StillThere(i)'
               PROVE  /\ usage'[i.gen].holder = i.holder
                      /\ usage'[i.gen].status = "pending"
    BY <1>1, <1>2 DEF RunIsCurrent, StillThere
  <2>1. i.gen \in Generations /\ i.id \in Known(i.gen)
    BY <1>1, RunType, ItemsAreKnown
  <2>2. usage'[i.gen].id = i.id
    BY <1>2 DEF StillThere
  <2>3. usage'[i.gen] = usage[i.gen]
    BY <1>2, <2>1, <2>2 DEF NewOrSame
  <2>4. QED
    BY <1>1, <1>2, <2>3 DEF RunIsCurrent, StillThere
<1>7. OnFileOnceAnswered'
  BY <1>1, <1>3 DEF OnFileOnceAnswered, TypeOK, ReportEffect, Told
<1>8. OnlyThePayerIsPaid'
  BY <1>1, <1>2 DEF OnlyThePayerIsPaid, NewOrSame
<1>9. QED
  BY <1>4, <1>5, <1>6, <1>7, <1>8

-----------------------------------------------------------------------------
(***************************************************************************)
(* Keys.                                                                   *)
(***************************************************************************)
LEMMA LinksKeep ==
  ASSUME UsageInv, NEW w \in Workspaces,
         \/ \E k \in Keys : LinkKey(w, k)
         \/ LinkDies(w) \/ ClearKey(w)
         \/ \E k \in Keys : Revoke(k)
  PROVE  /\ FoundStays' /\ OwnKeys' /\ RunIsCurrent'
         /\ OnFileOnceAnswered' /\ OnlyThePayerIsPaid'
<1>1. /\ TypeOK /\ FoundStays /\ OwnKeys /\ RunIsCurrent
      /\ OnFileOnceAnswered /\ OnlyThePayerIsPaid
  BY DEF UsageInv
<1>2. /\ UNCHANGED <<usage, call, run, answered>>
      /\ \A v \in Workspaces : everLinked[v] \subseteq everLinked'[v]
      /\ \A v \in Workspaces : \/ linked'[v] = linked[v]
                               \/ linked'[v] \in everLinked'[v] \cup {NoKey}
  <2>1. ASSUME NEW k \in Keys, LinkKey(w, k)
        PROVE  /\ UNCHANGED <<usage, call, run, answered>>
               /\ \A v \in Workspaces : everLinked[v] \subseteq everLinked'[v]
               /\ \A v \in Workspaces :
                    \/ linked'[v] = linked[v]
                    \/ linked'[v] \in everLinked'[v] \cup {NoKey}
    BY <1>1, <2>1 DEF LinkKey, TypeOK
  <2>2. ASSUME ClearKey(w)
        PROVE  /\ UNCHANGED <<usage, call, run, answered>>
               /\ \A v \in Workspaces : everLinked[v] \subseteq everLinked'[v]
               /\ \A v \in Workspaces :
                    \/ linked'[v] = linked[v]
                    \/ linked'[v] \in everLinked'[v] \cup {NoKey}
    BY <1>1, <2>2 DEF ClearKey, TypeOK
  <2>3. QED
    BY <2>1, <2>2 DEF LinkDies, Revoke
<1>3. FoundStays' /\ OnFileOnceAnswered'
  BY <1>1, <1>2 DEF FoundStays, OnFileOnceAnswered
<1>4. OwnKeys'
  BY <1>1, <1>2 DEF OwnKeys
<1>5. RunIsCurrent'
  BY <1>1, <1>2 DEF RunIsCurrent, StillThere
<1>6. OnlyThePayerIsPaid'
  BY <1>1, <1>2 DEF OnlyThePayerIsPaid, TypeOK, Row
<1>7. QED
  BY <1>3, <1>4, <1>5, <1>6

\* Taking the rejections back leaves every row on file, with its id and
\* holder, and what was verified as it was.
LEMMA ResetKeeps ==
  ASSUME UsageInv, NEW w \in Workspaces, ResetRejected(w)
  PROVE  /\ FoundStays' /\ OwnKeys' /\ RunIsCurrent'
         /\ OnFileOnceAnswered' /\ OnlyThePayerIsPaid'
         /\ \A g \in Generations :
              usage[g] # None /\ usage[g].status = "verified" =>
                usage'[g] = usage[g]
<1>1. /\ TypeOK /\ FoundStays /\ OwnKeys /\ RunIsCurrent
      /\ OnFileOnceAnswered /\ OnlyThePayerIsPaid
  BY DEF UsageInv
<1>2. UNCHANGED <<call, run, linked, everLinked, answered>>
  BY DEF ResetRejected
<1>3. \A g \in Generations :
        /\ usage[g] # None <=> usage'[g] # None
        /\ usage[g] # None =>
             /\ usage'[g].holder = usage[g].holder
             /\ usage'[g].id = usage[g].id
             /\ usage'[g] = usage[g] \/ usage'[g].status = "pending"
        /\ usage[g] # None /\ usage[g].status # "rejected" =>
             usage'[g] = usage[g]
  <2> SUFFICES ASSUME NEW g \in Generations
               PROVE  /\ usage[g] # None <=> usage'[g] # None
                      /\ usage[g] # None =>
                           /\ usage'[g].holder = usage[g].holder
                           /\ usage'[g].id = usage[g].id
                           /\ \/ usage'[g] = usage[g]
                              \/ usage'[g].status = "pending"
                      /\ usage[g] # None /\ usage[g].status # "rejected" =>
                           usage'[g] = usage[g]
    OBVIOUS
  <2> DEFINE r == [usage[g] EXCEPT !.status = "pending"]
  <2>1. usage[g] # None =>
          /\ r \in Row /\ r.holder = usage[g].holder
          /\ r.id = usage[g].id /\ r.status = "pending"
    BY <1>1 DEF TypeOK, Row
  <2>2. usage'[g] = IF usage[g] # None /\ usage[g].holder = w
                         /\ usage[g].status = "rejected"
                    THEN r ELSE usage[g]
    BY DEF ResetRejected
  <2> HIDE DEF r
  <2>3. QED
    BY <2>1, <2>2, RecordsAreSomething
<1>4. FoundStays' /\ OwnKeys' /\ OnFileOnceAnswered'
  BY <1>1, <1>2, <1>3 DEF FoundStays, OwnKeys, OnFileOnceAnswered, TypeOK
<1>5. RunIsCurrent'
  <2> SUFFICES ASSUME run # None, NEW i \in run.todo, StillThere(i)'
               PROVE  /\ usage'[i.gen].holder = i.holder
                      /\ usage'[i.gen].status = "pending"
    BY <1>1, <1>2 DEF RunIsCurrent, StillThere
  <2>1. i.gen \in Generations
    BY <1>1, RunType
  <2>2. StillThere(i)
    BY <1>2, <1>3, <2>1 DEF StillThere
  <2>3. usage[i.gen].holder = i.holder /\ usage[i.gen].status = "pending"
    BY <1>1, <2>2 DEF RunIsCurrent
  <2>4. QED
    BY <1>3, <2>1, <2>2, <2>3 DEF StillThere
<1>6. OnlyThePayerIsPaid'
  BY <1>1, <1>2, <1>3 DEF OnlyThePayerIsPaid
<1>7. QED
  BY <1>3, <1>4, <1>5, <1>6

-----------------------------------------------------------------------------
(***************************************************************************)
(* Runs.                                                                   *)
(***************************************************************************)

\* A batch is written down with a row each, as the row is.
LEMMA BeginKeeps ==
  ASSUME UsageInv, BeginRun
  PROVE  /\ FoundStays' /\ OwnKeys' /\ RunIsCurrent'
         /\ OnFileOnceAnswered' /\ OnlyThePayerIsPaid'
<1>1. /\ TypeOK /\ FoundStays /\ OwnKeys
      /\ OnFileOnceAnswered /\ OnlyThePayerIsPaid
  BY DEF UsageInv
<1>2. UNCHANGED <<usage, call, linked, everLinked, answered>>
  BY DEF BeginRun
<1> DEFINE Item(g) == [gen |-> g, holder |-> usage[g].holder,
                       id |-> usage[g].id, older |-> older[g]]
<1>3. PICK batch \in SUBSET Askable :
        run' = [todo |-> {Item(g) : g \in batch},
                keys |-> [v \in Workspaces |-> Unasked]]
  BY DEF BeginRun
<1>4. FoundStays' /\ OnFileOnceAnswered' /\ OnlyThePayerIsPaid'
  BY <1>1, <1>2 DEF FoundStays, OnFileOnceAnswered, OnlyThePayerIsPaid
<1>5. OwnKeys'
  BY <1>1, <1>2, <1>3 DEF OwnKeys
<1>6. RunIsCurrent'
  <2>1. IsFiniteSet({Item(g) : g \in batch})
    <3> DEFINE f == [g \in batch |-> Item(g)]
    <3>1. f \in Surjection(batch, {Item(g) : g \in batch})
      BY DEF Surjection
    <3>2. IsFiniteSet(batch)
      BY UsageAssumption, FS_Subset DEF Askable
    <3>3. QED
      BY <3>1, <3>2, FS_Surjection
  <2>2. \A i, j \in run'.todo : i.gen = j.gen => i = j
    BY <1>3
  <2>3. \A i \in run'.todo : /\ usage'[i.gen].holder = i.holder
                             /\ usage'[i.gen].status = "pending"
    BY <1>2, <1>3 DEF Askable
  <2>4. QED
    BY <1>3, <2>1, <2>2, <2>3 DEF RunIsCurrent
<1>7. QED
  BY <1>4, <1>5, <1>6

\* An item that is looked at: the key is read as it is, the row is answered
\* for by its id, and it is off the list.
LEMMA ItemKeeps ==
  ASSUME UsageInv, run # None, NEW item \in run.todo,
         ResolveKey(item) \/ Defer(item) \/ Settle(item)
  PROVE  /\ FoundStays' /\ OwnKeys' /\ RunIsCurrent'
         /\ OnFileOnceAnswered' /\ OnlyThePayerIsPaid'
         /\ \A g \in Generations :
              usage[g] # None /\ usage[g].status = "verified" =>
                usage'[g] = usage[g]
<1>1. /\ TypeOK /\ FoundStays /\ OwnKeys /\ RunIsCurrent
      /\ OnFileOnceAnswered /\ OnlyThePayerIsPaid
  BY DEF UsageInv
<1>2. /\ run \in Runs /\ item.gen \in Generations
      /\ item.holder \in Workspaces
      /\ run.keys \in [Workspaces -> Keys \cup {NoKey, Unasked}]
  BY <1>1, RunType
<1>3. UNCHANGED <<call, linked, everLinked, answered>>
  BY DEF ResolveKey, Defer, Settle
<1> DEFINE left == [run EXCEPT !.todo = @ \ {item}]
<1>4. /\ left \in Runs /\ left # None
      /\ left.todo = run.todo \ {item} /\ left.keys = run.keys
  <2>1. /\ left.todo = run.todo \ {item} /\ left.keys = run.keys
        /\ left \in Runs
    BY <1>2 DEF Runs
  <2>2. QED
    BY <2>1, RecordsAreSomething
<1>5. CASE ResolveKey(item)
  <2> DEFINE r == [run EXCEPT !.keys = Resolve(item.holder)]
  <2>1. r.todo = run.todo /\ r.keys = Resolve(item.holder)
    BY <1>2 DEF Runs
  <2>2. run' = r /\ usage' = usage
    BY <1>5 DEF ResolveKey
  <2> HIDE DEF r
  <2>3. \A w \in Workspaces :
          Resolve(item.holder)[w] \in everLinked[w] \cup {NoKey, Unasked}
    BY <1>1, <1>2 DEF Resolve, OwnKeys
  <2>4. OwnKeys'
    BY <1>1, <1>3, <2>1, <2>2, <2>3 DEF OwnKeys
  <2>5. RunIsCurrent'
    BY <1>1, <2>1, <2>2 DEF RunIsCurrent, StillThere
  <2>6. FoundStays' /\ OnFileOnceAnswered' /\ OnlyThePayerIsPaid'
    BY <1>1, <1>3, <2>2
       DEF FoundStays, OnFileOnceAnswered, OnlyThePayerIsPaid
  <2>7. QED
    BY <2>2, <2>4, <2>5, <2>6
<1>6. CASE Defer(item)
  <2>1. run' = left /\ usage' = usage
    BY <1>6 DEF Defer, Done
  <2> HIDE DEF left
  <2>2. OwnKeys'
    BY <1>1, <1>3, <1>4, <2>1 DEF OwnKeys
  <2>3. RunIsCurrent'
    BY <1>1, <1>4, <2>1, FS_Subset DEF RunIsCurrent, StillThere
  <2>4. FoundStays' /\ OnFileOnceAnswered' /\ OnlyThePayerIsPaid'
    BY <1>1, <1>3, <2>1
       DEF FoundStays, OnFileOnceAnswered, OnlyThePayerIsPaid
  <2>5. QED
    BY <2>1, <2>2, <2>3, <2>4
<1>7. CASE Settle(item)
  <2> DEFINE row == [usage[item.gen] EXCEPT !.status = Verdict(item)]
  <2>1. run' = left /\ usage' = [usage EXCEPT ![item.gen] = row]
    BY <1>7 DEF Settle, Done
  <2>2. /\ usage[item.gen] \in Row
        /\ usage[item.gen].holder = item.holder
        /\ usage[item.gen].status = "pending"
    BY <1>1, <1>2, <1>7 DEF Settle, StillThere, RunIsCurrent, TypeOK
  <2>3. row \in Row /\ row.holder = item.holder /\ row.status = Verdict(item)
    BY <2>2 DEF Row, Verdict
  <2>4. row # None
    BY <2>3, RecordsAreSomething
  <2> HIDE DEF left, row
  <2>5. \A g \in Generations :
          usage'[g] = IF g = item.gen THEN row ELSE usage[g]
    BY <1>1, <1>2, <2>1 DEF TypeOK
  <2>6. OwnKeys'
    BY <1>1, <1>3, <1>4, <2>1 DEF OwnKeys
  <2>7. RunIsCurrent'
    <3> SUFFICES ASSUME NEW i \in run.todo, i # item, StillThere(i)'
                 PROVE  /\ usage'[i.gen].holder = i.holder
                        /\ usage'[i.gen].status = "pending"
      BY <1>1, <1>4, <2>1, FS_Subset DEF RunIsCurrent
    <3>1. i.gen # item.gen /\ i.gen \in Generations
      BY <1>1, RunType DEF RunIsCurrent
    <3>2. usage'[i.gen] = usage[i.gen]
      BY <2>5, <3>1
    <3>3. QED
      BY <1>1, <3>2 DEF RunIsCurrent, StillThere
  <2>8. OnlyThePayerIsPaid'
    <3> SUFFICES ASSUME Verdict(item) = "verified"
                 PROVE  PaidBy[item.gen] \in everLinked[item.holder]
      BY <1>1, <1>3, <2>3, <2>5 DEF OnlyThePayerIsPaid
    <3>1. KeyFor(item) \in Keys /\ PaidBy[item.gen] = KeyFor(item)
      BY <1>7 DEF Settle, Verdict
    <3>2. QED
      BY <1>1, <1>2, <3>1, UsageAssumption DEF OwnKeys, KeyFor
  <2>9. FoundStays' /\ OnFileOnceAnswered'
    BY <1>1, <1>3, <2>4, <2>5 DEF FoundStays, OnFileOnceAnswered, TypeOK
  <2>10. QED
    BY <2>2, <2>5, <2>6, <2>7, <2>8, <2>9
<1>8. QED
  BY <1>5, <1>6, <1>7

LEMMA RunEndKeeps ==
  ASSUME UsageInv, run' = None,
         UNCHANGED <<usage, call, linked, everLinked, answered>>
  PROVE  /\ FoundStays' /\ OwnKeys' /\ RunIsCurrent'
         /\ OnFileOnceAnswered' /\ OnlyThePayerIsPaid'
BY DEF UsageInv, FoundStays, OwnKeys, RunIsCurrent, OnFileOnceAnswered,
       OnlyThePayerIsPaid

-----------------------------------------------------------------------------
(***************************************************************************)
(* The theorems.                                                           *)
(***************************************************************************)

\* A step keeps the invariant, and a verified row as it is.
LEMMA UsageStep ==
  ASSUME UsageInv, [Next]_vars
  PROVE  /\ UsageInv'
         /\ \A g \in Generations :
              usage[g] # None /\ usage[g].status = "verified" =>
                usage'[g] = usage[g]
<1> DEFINE Keeps == /\ FoundStays' /\ OwnKeys' /\ RunIsCurrent'
                    /\ OnFileOnceAnswered' /\ OnlyThePayerIsPaid'
           Stands == \A g \in Generations :
                       usage[g] # None /\ usage[g].status = "verified" =>
                         usage'[g] = usage[g]
<1>1. ASSUME NEW w \in Workspaces,
             \/ \E batch \in SUBSET claims[w] : Report(w, batch)
             \/ Reporting(w) \/ ReportFails(w)
      PROVE  Keeps /\ Stands
  <2>1. ReportEffect(w)
    BY <1>1, ReportHasEffect
  <2>2. Stands
    BY <2>1 DEF ReportEffect, NewOrSame
  <2>3. QED
    BY <2>1, <2>2, ReportKeeps
<1>2. ASSUME NEW w \in Workspaces,
             \/ \E k \in Keys : LinkKey(w, k)
             \/ LinkDies(w) \/ ClearKey(w)
      PROVE  Keeps /\ Stands
  <2>1. Stands
    BY <1>2 DEF LinkKey, LinkDies, ClearKey
  <2>2. QED
    BY <1>2, <2>1, LinksKeep
<1>3. ASSUME NEW w \in Workspaces, ResetRejected(w)
      PROVE  Keeps /\ Stands
  BY <1>3, ResetKeeps
<1>4. ASSUME NEW k \in Keys, Revoke(k)
      PROVE  Keeps /\ Stands
  <2>1. UNCHANGED <<usage, call, run, linked, everLinked, answered>>
    BY <1>4 DEF Revoke
  <2>2. QED
    BY <2>1 DEF UsageInv, FoundStays, OwnKeys, RunIsCurrent, StillThere,
                OnFileOnceAnswered, OnlyThePayerIsPaid
<1>5. ASSUME BeginRun
      PROVE  Keeps /\ Stands
  <2>1. Keeps
    BY <1>5, BeginKeeps
  <2>2. Stands
    BY <1>5 DEF BeginRun
  <2>3. QED
    BY <2>1, <2>2
<1>6. ASSUME EndRun \/ RunDies
      PROVE  Keeps /\ Stands
  <2>1. run' = None /\ UNCHANGED <<usage, call, linked, everLinked, answered>>
    BY <1>6 DEF EndRun, RunDies
  <2>2. Keeps
    BY <2>1, RunEndKeeps
  <2>3. QED
    BY <2>1, <2>2
<1>7. ASSUME run # None, NEW item \in run.todo,
             ResolveKey(item) \/ Defer(item) \/ Settle(item)
      PROVE  Keeps /\ Stands
  BY <1>7, ItemKeeps
<1>8. ASSUME run # None, NEW item \in run.todo, SettleMissing(item)
      PROVE  Keeps /\ Stands
  BY <1>8, RunEndKeeps DEF SettleMissing
<1>9. ASSUME UNCHANGED vars
      PROVE  Keeps /\ Stands
  <2>1. UNCHANGED <<usage, call, run, linked, everLinked, answered>>
    BY <1>9 DEF vars
  <2>2. QED
    BY <2>1 DEF UsageInv, FoundStays, OwnKeys, RunIsCurrent, StillThere,
                OnFileOnceAnswered, OnlyThePayerIsPaid
<1>10. Keeps /\ Stands
  <2> HIDE DEF Keeps, Stands
  <2>1. ASSUME NEW w \in Workspaces,
               \/ \E batch \in SUBSET claims[w] : Report(w, batch)
               \/ Reporting(w) \/ ReportFails(w)
               \/ \E k \in Keys : LinkKey(w, k)
               \/ ResetRejected(w) \/ LinkDies(w) \/ ClearKey(w)
        PROVE  Keeps /\ Stands
    BY <1>1, <1>2, <1>3, <2>1
  <2>2. ASSUME Running \/ RunDies
        PROVE  Keeps /\ Stands
    BY <1>5, <1>6, <1>7, <1>8, <2>2 DEF Running
  <2>3. QED
    BY <1>4, <1>9, <2>1, <2>2 DEF Next
<1>11. TypeOK'
  BY UsageTypeStep
<1>12. QED
  BY <1>10, <1>11 DEF UsageInv

LEMMA UsageInvariant == Spec => []UsageInv
<1>1. UsageInv /\ [Next]_vars => UsageInv'
  BY UsageStep
<1>2. QED
  BY <1>1, InitUsage, PTL DEF Spec

\* Every reachable state of the reports, the keys and the verification runs
\* is well typed (usage.ts, usage-credentials.ts).
THEOREM UsageTypeCorrect == Spec => []TypeOK
<1>1. UsageInv => TypeOK
  BY DEF UsageInv
<1>2. QED
  BY <1>1, UsageInvariant, PTL

\* An id an agent was told is counted stays on file, through releases, rolled
\* back batches and lost calls (reportUsage).
THEOREM AnsweredStaysOnFile == Spec => []OnFileOnceAnswered
<1>1. UsageInv => OnFileOnceAnswered
  BY DEF UsageInv
<1>2. QED
  BY <1>1, UsageInvariant, PTL

\* Spend is confirmed only under a workspace that linked the key that paid
\* (verifyPendingUsage, openRouterUsageSource).
THEOREM ThePayerIsPaid == Spec => []OnlyThePayerIsPaid
<1>1. UsageInv => OnlyThePayerIsPaid
  BY DEF UsageInv
<1>2. QED
  BY <1>1, UsageInvariant, PTL

\* A verified row is never released, rejected or handed over (reportUsage,
\* verifyPendingUsage, setUsageCredential).
THEOREM VerifiedIsForGood == Spec => VerifiedStands
<1> DEFINE Stands == \A g \in Generations :
                       (usage[g] # None /\ usage[g].status = "verified") =>
                         usage'[g] = usage[g]
<1>1. UsageInv /\ [Next]_vars => [Stands]_vars
  BY UsageStep
<1>2. QED
  BY <1>1, UsageInvariant, PTL DEF Spec, VerifiedStands

=============================================================================
