------------------------- MODULE AccrualLedgerProofs -------------------------
(***************************************************************************)
(* When nothing is paid twice: as long as no two calls in progress ask for *)
(* overlapping windows with different figures.  The refusal of overlaps    *)
(* answers for calls that follow each other, the unique key for calls that *)
(* meet and agree.  One scheduler alone never races, and neither do any    *)
(* number of them that settle whole periods whose figures never change.    *)
(* What a caller was told is on file rests on the same invariant.          *)
(*                                                                         *)
(* The second part is about what a period owes: what a sum over a finite   *)
(* set is, and from that what a layer pays, everybody together and each.   *)
(*                                                                         *)
(* The third is about the tree: a proof's way up stands on one node of each*)
(* level, and every node is the leaf of an entry or a pair of nodes.       *)
(***************************************************************************)
EXTENDS Accruals, SequenceTheorems, FiniteSetTheorems, TLAPS

\* Two conditions under which calls never race.
OneScheduler == \A s, t \in Schedulers : s = t
WholePeriods == \A v, w \in Windows : Overlaps(v, w) => v = w
SettledFigures == MaxChanges = 0

\* What each insert wrote is on file, is rows of its own window, and is
\* something; every row on file came from an insert.
OnFile ==
  /\ \A i \in 1..Len(batches) :
       /\ batches[i].window \in Windows
       /\ batches[i].payable # {}
       /\ batches[i].payable \subseteq rows
       /\ \A r \in batches[i].payable : r.window = batches[i].window
  /\ \A r \in rows : \E i \in 1..Len(batches) : r.window = batches[i].window

\* A call carries rows of its own window, and some if it is about to write.
Carries ==
  \A s \in Schedulers :
    call[s] # None =>
      /\ \A r \in call[s].payable : r.window = call[s].window
      /\ call[s].at = "create" => call[s].payable # {}

Apart ==
  \A i, j \in 1..Len(batches) :
    i # j => ~Overlaps(batches[i].window, batches[j].window)


\* Two calls in progress that want the same instants want the same rows.
Alike ==
  \A s, t \in Schedulers :
    (/\ call[s] # None /\ call[t] # None
     /\ Overlaps(call[t].window, call[s].window)) =>
       s = t \/ call[t].payable = call[s].payable

\* What is about to be written overlaps nothing on file, or is on file.
Ready ==
  \A s \in Schedulers :
    In(s, "create") =>
      \/ \A r \in rows : ~Overlaps(r.window, call[s].window)
      \/ call[s].payable \subseteq rows

\* The inductive invariant.
LInv ==
  /\ TypeOK /\ OnFile /\ Carries
  /\ raced \/ (Apart /\ Alike /\ Ready)

\* Settled figures: a call carries what its window owes.
Agreed ==
  /\ changes = 0
  /\ \A s \in Schedulers :
       call[s] # None =>
         call[s].payable = Payable(call[s].window, owed[call[s].window])

\* Rows of what a window owes are rows, and rows of that window.
LEMMA PayableRows ==
  ASSUME NEW w \in Windows, NEW figures \in Figures
  PROVE  /\ Payable(w, figures) \subseteq Row
         /\ \A r \in Payable(w, figures) : r.window = w
  BY LedgerAssumption DEF Payable, Row, Figures

\* Overlapping has no direction.
LEMMA OverlapsSymmetric ==
  ASSUME NEW v \in Windows, NEW w \in Windows
  PROVE  Overlaps(v, w) <=> Overlaps(w, v)
  BY LedgerAssumption DEF Overlaps

\* The empty ledger satisfies the invariant.
LEMMA InitLedger == Init => LInv
<1> SUFFICES ASSUME Init PROVE LInv
  OBVIOUS
<1>1. batches = <<>> /\ batches \in Seq(Settlement) /\ Len(batches) = 0
  BY EmptySeq DEF Init
<1>2. 0 \in 0..MaxChanges /\ 0 \in 0..MaxCalls
  BY LedgerAssumption
<1>3. TypeOK
  BY <1>1, <1>2 DEF Init, TypeOK
<1>4. OnFile /\ Carries /\ Apart
  BY <1>1 DEF Init, OnFile, Carries, Apart
<1>5. Alike /\ Ready
  BY DEF Init, Alike, Ready, In
<1>6. QED
  BY <1>3, <1>4, <1>5 DEF LInv

\* A call returns: what the others carry and want is what it was.
LEMMA ReturnKeeps ==
  ASSUME LInv, NEW s \in Schedulers, Return(s), UNCHANGED <<rows, raced>>
  PROVE  /\ call' \in [Schedulers -> {None} \cup Calls]
         /\ Carries'
         /\ raced' \/ (Alike' /\ Ready')
<1>1. TypeOK /\ Carries /\ (raced \/ (Alike /\ Ready))
  BY DEF LInv
<1>2. \A t \in Schedulers : call'[t] # None => call'[t] = call[t]
  BY <1>1 DEF TypeOK, Return
<1>3. call' \in [Schedulers -> {None} \cup Calls]
  BY <1>1 DEF TypeOK, Return
<1>4. Carries'
  BY <1>1, <1>2 DEF Carries
<1>5. Alike => Alike'
  BY <1>2 DEF Alike
<1>6. Ready => Ready'
  BY <1>2 DEF Ready, In
<1>7. QED
  BY <1>1, <1>3, <1>4, <1>5, <1>6

\* A call that begins, and did not race, wants what those it meets want.
LEMMA AccrueStep ==
  ASSUME LInv, NEW s \in Schedulers, NEW w \in Windows, Accrue(s, w)
  PROVE  LInv'
<1>1. TypeOK /\ OnFile /\ Carries /\ (raced \/ (Apart /\ Alike /\ Ready))
  BY DEF LInv
<1>2. owed[w] \in Figures
  BY <1>1 DEF TypeOK
<1>3. PICK c : c = [at |-> "find", window |-> w,
                    payable |-> Payable(w, owed[w])]
  OBVIOUS
<1>4. /\ c \in Calls /\ c.at = "find" /\ c.window = w
      /\ c.payable = Payable(w, owed[w])
      /\ \A r \in c.payable : r.window = c.window
  BY <1>2, <1>3, PayableRows DEF Calls
<1>5. /\ call' = [call EXCEPT ![s] = c] /\ calls < MaxCalls
      /\ calls' = calls + 1
      /\ raced' = (raced \/ Races(s, w, c.payable))
      /\ UNCHANGED <<rows, owed, batches, told, changes>>
  BY <1>3, <1>4 DEF Accrue
<1>6. call'[s] = c /\ \A t \in Schedulers \ {s} : call'[t] = call[t]
  BY <1>1, <1>5 DEF TypeOK
<1>7. TypeOK'
  BY <1>1, <1>4, <1>5, LedgerAssumption DEF TypeOK
<1>8. Carries' /\ OnFile'
  BY <1>1, <1>4, <1>5, <1>6 DEF Carries, OnFile
<1>9. ASSUME ~raced'
      PROVE  Apart' /\ Alike' /\ Ready'
  <2>1. ~raced /\ ~Races(s, w, c.payable)
    BY <1>5, <1>9
  <2>2. ASSUME NEW t \in Schedulers \ {s}, call[t] # None,
               Overlaps(call[t].window, w) \/ Overlaps(w, call[t].window)
        PROVE  call[t].payable = c.payable
    <3>1. call[t].window \in Windows
      BY <1>1, <2>2 DEF TypeOK, Calls
    <3>2. Overlaps(call[t].window, w)
      BY <2>2, <3>1, OverlapsSymmetric
    <3>3. QED
      BY <2>1, <2>2, <3>2 DEF Races
  <2>3. Alike'
    BY <1>1, <1>4, <1>6, <2>1, <2>2 DEF Alike
  <2>4. Ready'
    BY <1>1, <1>4, <1>5, <1>6, <2>1 DEF Ready, In
  <2>5. QED
    BY <1>1, <1>5, <2>1, <2>3, <2>4 DEF Apart
<1>10. QED
  BY <1>7, <1>8, <1>9 DEF LInv

\* A call that found nothing is ready to write.
LEMMA FindNothingStep ==
  ASSUME LInv, NEW s \in Schedulers, FindNothing(s)
  PROVE  LInv'
<1>1. TypeOK /\ OnFile /\ Carries /\ (raced \/ (Apart /\ Alike /\ Ready))
  BY DEF LInv
<1>2. PICK c : c = [call[s] EXCEPT !.at = "create"]
  OBVIOUS
<1>3. call[s] \in Calls /\ call[s] # None /\ call[s].payable # {}
      /\ \A r \in rows : ~Overlaps(r.window, call[s].window)
  BY <1>1 DEF TypeOK, FindNothing, In, Overlapping
<1>4. c \in Calls /\ c.payable = call[s].payable /\ c.window = call[s].window
  BY <1>2, <1>3 DEF Calls
<1>5. call' = [call EXCEPT ![s] = c]
      /\ UNCHANGED <<rows, owed, batches, told, raced, changes, calls>>
  BY <1>2 DEF FindNothing
<1>6. call'[s] = c /\ \A t \in Schedulers \ {s} : call'[t] = call[t]
  BY <1>1, <1>5 DEF TypeOK
<1>7. TypeOK'
  BY <1>1, <1>4, <1>5 DEF TypeOK
<1>8. Carries' /\ OnFile'
  BY <1>1, <1>3, <1>4, <1>5, <1>6 DEF Carries, OnFile
<1>9. \A t \in Schedulers :
        call'[t] # None => /\ call[t] # None
                           /\ call'[t].window = call[t].window
                           /\ call'[t].payable = call[t].payable
  BY <1>3, <1>4, <1>6
<1>10. Alike => Alike'
  BY <1>9 DEF Alike
<1>11. Ready => Ready'
  BY <1>3, <1>4, <1>5, <1>6 DEF Ready, In
<1>12. Apart => Apart'
  BY <1>5 DEF Apart
<1>13. QED
  BY <1>1, <1>5, <1>7, <1>8, <1>10, <1>11, <1>12 DEF LInv

\* A step that neither begins a call nor writes.
LEMMA QuietStep ==
  ASSUME LInv,
         \/ \E w \in Windows, figures \in Figures : OwedChanges(w, figures)
         \/ \E s \in Schedulers :
              \/ FindNothingOwed(s) \/ FindSettled(s)
              \/ FindConflict(s) \/ CreateRefused(s) \/ Die(s)
         \/ UNCHANGED vars
  PROVE  LInv'
<1>1. TypeOK /\ OnFile /\ Carries /\ (raced \/ (Apart /\ Alike /\ Ready))
  BY DEF LInv
<1>2. ASSUME UNCHANGED <<rows, batches>>
      PROVE  OnFile' /\ (Apart => Apart')
  BY <1>1, <1>2 DEF OnFile, Apart
<1>3. CASE \E w \in Windows, figures \in Figures : OwedChanges(w, figures)
  <2>1. TypeOK'
    BY <1>1, <1>3, LedgerAssumption DEF TypeOK, OwedChanges
  <2>2. Carries' /\ (raced' \/ (Alike' /\ Ready')) /\ UNCHANGED <<rows, batches, raced>>
    BY <1>1, <1>3 DEF Carries, Alike, Ready, In, OwedChanges
  <2>3. QED
    BY <1>1, <1>2, <2>1, <2>2 DEF LInv
<1>4. ASSUME NEW s \in Schedulers, FindNothingOwed(s) \/ FindSettled(s)
      PROVE  LInv'
  <2>1. call[s] # None /\ Tell(s) /\ Return(s)
        /\ UNCHANGED <<rows, owed, batches, raced, changes, calls>>
    BY <1>4 DEF FindNothingOwed, FindSettled, In
  <2>2. told' \in SUBSET Settlement
    BY <1>1, <2>1 DEF TypeOK, Tell, Settlement, Calls
  <2>3. TypeOK'
    BY <1>1, <2>1, <2>2, ReturnKeeps DEF TypeOK
  <2>4. QED
    BY <1>1, <1>2, <2>1, <2>3, ReturnKeeps DEF LInv
<1>5. ASSUME NEW s \in Schedulers,
             FindConflict(s) \/ CreateRefused(s) \/ Die(s)
      PROVE  LInv'
  <2>1. Return(s)
        /\ UNCHANGED <<rows, owed, batches, told, raced, changes, calls>>
    BY <1>5 DEF FindConflict, CreateRefused, Die
  <2>2. TypeOK'
    BY <1>1, <2>1, ReturnKeeps DEF TypeOK
  <2>3. QED
    BY <1>1, <1>2, <2>1, <2>2, ReturnKeeps DEF LInv
<1>6. CASE UNCHANGED vars
  BY <1>6 DEF vars, LInv, TypeOK, OnFile, Carries, Apart, Alike, Ready, In
<1>7. QED
  BY <1>3, <1>4, <1>5, <1>6

\* An insert is of one period nobody wrote, unless calls raced.
LEMMA InsertStep ==
  ASSUME LInv, NEW s \in Schedulers, CreateMany(s)
  PROVE  LInv'
<1>1. TypeOK /\ OnFile /\ Carries /\ (raced \/ (Apart /\ Alike /\ Ready))
  BY DEF LInv
<1>2. PICK n : n = Len(batches) + 1
  OBVIOUS
<1>3. PICK b : b = [window |-> call[s].window, payable |-> call[s].payable]
  OBVIOUS
<1>4. /\ call[s] # None /\ call[s] \in Calls /\ call[s].at = "create"
      /\ rows' = rows \cup b.payable
      /\ batches' = Append(batches, b)
      /\ told' \in {told, told \cup {b}}
      /\ call' = [call EXCEPT ![s] = None]
      /\ UNCHANGED <<owed, raced, changes, calls>>
  BY <1>1, <1>3 DEF TypeOK, CreateMany, In, Tell, Return
<1>5. /\ b \in Settlement /\ b.payable # {}
      /\ b.window = call[s].window
      /\ \A r \in b.payable : r.window = b.window
  BY <1>1, <1>3, <1>4 DEF Carries, Settlement, Calls
<1>6. /\ batches' \in Seq(Settlement) /\ Len(batches') = n
      /\ Len(batches) \in Nat /\ n \in Nat
      /\ batches'[n] = b
      /\ \A i \in 1..Len(batches) : batches'[i] = batches[i]
  <2>1. batches \in Seq(Settlement)
    BY <1>1 DEF TypeOK
  <2>2. QED
    BY <1>2, <1>4, <1>5, <2>1, AppendProperties, LenProperties
<1>7. \A i \in 1..n : i = n \/ i \in 1..Len(batches)
  BY <1>2, <1>6
<1>8. TypeOK'
  BY <1>1, <1>4, <1>5, <1>6 DEF TypeOK, Settlement
<1>9. Carries'
  BY <1>1, <1>4 DEF TypeOK, Carries
<1>10. OnFile'
  <2>1. ASSUME NEW i \in 1..n
        PROVE  /\ batches'[i].window \in Windows
               /\ batches'[i].payable # {}
               /\ batches'[i].payable \subseteq rows'
               /\ \A r \in batches'[i].payable : r.window = batches'[i].window
    <3>1. CASE i = n
      BY <1>4, <1>5, <1>6, <3>1 DEF Settlement
    <3>2. CASE i \in 1..Len(batches)
      BY <1>1, <1>4, <1>6, <3>2 DEF OnFile
    <3>3. QED
      BY <1>7, <3>1, <3>2
  <2>2. \A i \in 1..Len(batches) : i \in 1..n
    BY <1>2, <1>6
  <2>3. ASSUME NEW r \in rows'
        PROVE  \E i \in 1..n : r.window = batches'[i].window
    <3>1. CASE r \in rows
      <4>1. PICK i \in 1..Len(batches) : r.window = batches[i].window
        BY <1>1, <3>1 DEF OnFile
      <4>2. QED
        BY <1>6, <2>2, <4>1
    <3>2. CASE r \in b.payable
      BY <1>2, <1>5, <1>6, <3>2
    <3>3. QED
      BY <1>4, <3>1, <3>2
  <2>4. QED
    BY <1>6, <2>1, <2>3 DEF OnFile
<1>11. ASSUME ~raced
       PROVE  \A r \in rows : ~Overlaps(r.window, b.window)
  <2>1. ~(b.payable \subseteq rows)
    BY <1>3, <1>5 DEF CreateMany, KeysFree
  <2>2. QED
    BY <1>1, <1>3, <1>4, <1>5, <1>11, <2>1 DEF Ready, In
<1>12. ASSUME ~raced
       PROVE  Apart'
  <2>1. ASSUME NEW i \in 1..Len(batches)
        PROVE  /\ ~Overlaps(batches[i].window, b.window)
               /\ ~Overlaps(b.window, batches[i].window)
    <3>1. PICK r : r \in batches[i].payable
      BY <1>1 DEF OnFile
    <3>2. r \in rows /\ r.window = batches[i].window
      BY <1>1, <3>1 DEF OnFile
    <3>3. ~Overlaps(batches[i].window, b.window)
      BY <1>11, <1>12, <3>2
    <3>4. batches[i].window \in Windows /\ b.window \in Windows
      BY <1>1, <1>5 DEF OnFile, Settlement
    <3>5. QED
      BY <3>3, <3>4, OverlapsSymmetric
  <2>2. ASSUME NEW i \in 1..n, NEW j \in 1..n, i # j
        PROVE  ~Overlaps(batches'[i].window, batches'[j].window)
    <3>1. CASE i = n
      BY <1>6, <1>7, <2>1, <2>2, <3>1
    <3>2. CASE j = n
      BY <1>6, <1>7, <2>1, <2>2, <3>2
    <3>3. CASE i \in 1..Len(batches) /\ j \in 1..Len(batches)
      BY <1>1, <1>6, <1>12, <2>2, <3>3 DEF Apart
    <3>4. QED
      BY <1>7, <3>1, <3>2, <3>3
  <2>3. QED
    BY <1>6, <2>2 DEF Apart
<1>13. \A t \in Schedulers : call'[t] # None => t # s /\ call'[t] = call[t]
  BY <1>1, <1>4 DEF TypeOK
<1>14. Alike => Alike'
  BY <1>13 DEF Alike
<1>15. ASSUME ~raced
       PROVE  Ready'
  <2> SUFFICES ASSUME NEW t \in Schedulers, In(t, "create")'
               PROVE  \/ \A r \in rows' : ~Overlaps(r.window, call'[t].window)
                      \/ call'[t].payable \subseteq rows'
    BY DEF Ready
  <2>1. t # s /\ call'[t] = call[t] /\ call[t] # None /\ In(t, "create")
    BY <1>13 DEF In
  <2>2. CASE Overlaps(b.window, call[t].window)
    BY <1>1, <1>3, <1>4, <1>15, <2>1, <2>2 DEF Alike
  <2>3. CASE ~Overlaps(b.window, call[t].window)
    BY <1>1, <1>4, <1>5, <1>15, <2>1, <2>3 DEF Ready
  <2>4. QED
    BY <2>2, <2>3
<1>16. QED
  BY <1>1, <1>4, <1>8, <1>9, <1>10, <1>12, <1>14, <1>15 DEF LInv

\* The invariant is inductive.
LEMMA NextLedger == LInv /\ [Next]_vars => LInv'
  BY AccrueStep, FindNothingStep, QuietStep, InsertStep DEF Next

\* Apart is NoInstantPaidTwice: a sequence's domain is its positions.
LEMMA ApartIsEnough == LInv => OnlyARacePaysTwice
<1> SUFFICES ASSUME LInv, ~raced PROVE NoInstantPaidTwice
  BY DEF OnlyARacePaysTwice
<1>1. DOMAIN batches = 1..Len(batches)
  BY LenProperties DEF LInv, TypeOK
<1>2. QED
  BY <1>1 DEF LInv, Apart, NoInstantPaidTwice

(***************************************************************************)
(* Every reachable state of the ledger and its callers is well typed.      *)
(***************************************************************************)
THEOREM LedgerTypeCorrect == Spec => []TypeOK
<1>1. LInv => TypeOK
  BY DEF LInv
<1>2. QED
  BY <1>1, InitLedger, NextLedger, PTL DEF Spec

(***************************************************************************)
(* No instant is paid for twice unless calls raced, for any number of      *)
(* schedulers, any windows and figures that change at any time             *)
(* (recordAccruals).                                                       *)
(***************************************************************************)
THEOREM PaidOnceWithoutARace == Spec => []OnlyARacePaysTwice
  BY InitLedger, NextLedger, ApartIsEnough, PTL DEF Spec

(***************************************************************************)
(* One scheduler never races, so it pays no instant twice, whatever        *)
(* windows it asks for and however their figures change under it: what the *)
(* publisher, being one process, relies on (recordAccruals).               *)
(***************************************************************************)
THEOREM OneSchedulerPaysOnce ==
  ASSUME OneScheduler
  PROVE  Spec => []NoInstantPaidTwice
<1>1. Init => ~raced
  BY DEF Init
<1>2. ~raced /\ [Next]_vars => ~raced'
  <2>1. \A s \in Schedulers, w \in Windows :
          Accrue(s, w) /\ ~raced => ~raced'
    BY OneScheduler DEF OneScheduler, Accrue, Races
  <2>2. QED
    BY <2>1
    DEF Next, vars, OwedChanges, FindNothing, FindNothingOwed, FindSettled,
        FindConflict, CreateMany, CreateRefused, Die
<1>3. OnlyARacePaysTwice /\ ~raced => NoInstantPaidTwice
  BY DEF OnlyARacePaysTwice
<1>4. QED
  BY <1>1, <1>2, <1>3, PaidOnceWithoutARace, PTL DEF Spec

(***************************************************************************)
(* Schedulers that settle whole periods whose figures never change do not  *)
(* race either, however many they are: "even if two schedulers fire at     *)
(* once" (recordAccruals: the unique key on address and periodStart).      *)
(***************************************************************************)
THEOREM SettledFiguresArePaidOnce ==
  ASSUME WholePeriods, SettledFigures
  PROVE  Spec => []NoInstantPaidTwice
<1> DEFINE Calm == Agreed /\ ~raced
<1>1. Init => Calm
  BY DEF Init, Agreed
<1>2. ASSUME TypeOK, Calm, [Next]_vars
      PROVE  Calm'
  <2>1. ASSUME NEW s \in Schedulers, NEW w \in Windows, Accrue(s, w)
        PROVE  Calm'
    <3>1. Agreed'
      BY <1>2, <2>1 DEF TypeOK, Agreed, Accrue
    <3>2. ~Races(s, w, Payable(w, owed[w]))
      <4> SUFFICES ASSUME NEW t \in Schedulers \ {s}, call[t] # None,
                          Overlaps(call[t].window, w)
                   PROVE  call[t].payable = Payable(w, owed[w])
        BY DEF Races
      <4>1. call[t].window = w
        BY <1>2, WholePeriods DEF WholePeriods, TypeOK, Calls
      <4>2. QED
        BY <1>2, <4>1 DEF Agreed
    <3>3. QED
      BY <1>2, <2>1, <3>1, <3>2 DEF Accrue
  <2>2. ASSUME NEW s \in Schedulers, FindNothing(s)
        PROVE  Calm'
    <3>1. \A t \in Schedulers :
            call'[t] # None => /\ call[t] # None
                               /\ call'[t].payable = call[t].payable
                               /\ call'[t].window = call[t].window
      BY <1>2, <2>2 DEF TypeOK, FindNothing, In, Calls
    <3>2. QED
      BY <1>2, <2>2, <3>1 DEF Agreed, FindNothing
  <2>3. ASSUME NEW w \in Windows, NEW figures \in Figures,
               OwedChanges(w, figures)
        PROVE  Calm'
    BY <1>2, <2>3, SettledFigures
    DEF SettledFigures, Agreed, OwedChanges
  <2>4. ASSUME NEW s \in Schedulers,
               \/ FindNothingOwed(s) \/ FindSettled(s) \/ FindConflict(s)
               \/ CreateMany(s) \/ CreateRefused(s) \/ Die(s)
        PROVE  Calm'
    <3>1. Return(s) /\ UNCHANGED <<owed, raced, changes>>
      BY <2>4
      DEF FindNothingOwed, FindSettled, FindConflict, CreateMany,
          CreateRefused, Die
    <3>2. QED
      BY <1>2, <3>1 DEF TypeOK, Agreed, Return
  <2>5. ASSUME UNCHANGED vars
        PROVE  Calm'
    BY <1>2, <2>5 DEF Agreed, vars
  <2>6. QED
    BY <1>2, <2>1, <2>2, <2>3, <2>4, <2>5 DEF Next
<1>3. OnlyARacePaysTwice /\ Calm => NoInstantPaidTwice
  BY DEF OnlyARacePaysTwice
<1>4. QED
  BY <1>1, <1>2, <1>3, LedgerTypeCorrect, PaidOnceWithoutARace, PTL DEF Spec

-----------------------------------------------------------------------------
(***************************************************************************)
(* What callers were told.                                                 *)
(***************************************************************************)

\* The rows of a window.
RowsAt(w) == {r \in rows : r.window = w}
Stands(t) == t.payable # {} => RowsAt(t.window) = t.payable
FiguresInv == LInv /\ (raced \/ \A t \in told : Stands(t))

\* Unless calls raced, an insert finds nothing on file over its window.
LEMMA InsertsIntoNothing ==
  ASSUME LInv, ~raced, NEW s \in Schedulers, CreateMany(s)
  PROVE  \A r \in rows : ~Overlaps(r.window, call[s].window)
<1>1. In(s, "create") /\ call[s].payable # {}
  BY DEF LInv, Carries, CreateMany, In
<1>2. ~(call[s].payable \subseteq rows)
  BY <1>1 DEF CreateMany, KeysFree
<1>3. QED
  BY <1>1, <1>2 DEF LInv, Ready

\* A window that is on file with the figures of a call has them as its rows.
LEMMA SettledStands ==
  ASSUME LInv, NEW s \in Schedulers, FindSettled(s)
  PROVE  RowsAt(call[s].window) = call[s].payable
<1>1. call[s] # None /\ call[s] \in Calls /\ call[s].payable = Overlapping(call[s].window)
  BY DEF LInv, TypeOK, FindSettled, In, SettledAs
<1>2. \A r \in call[s].payable : r.window = call[s].window
  BY <1>1 DEF LInv, Carries
<1>3. Overlaps(call[s].window, call[s].window)
  <2>1. call[s].window \in Windows
    BY <1>1 DEF Calls
  <2>2. QED
    BY <2>1, LedgerAssumption DEF Overlaps
<1>4. QED
  BY <1>1, <1>2, <1>3 DEF RowsAt, Overlapping

LEMMA FiguresStep == FiguresInv /\ [Next]_vars => FiguresInv'
<1> SUFFICES ASSUME FiguresInv, [Next]_vars PROVE FiguresInv'
  OBVIOUS
<1>1. LInv /\ LInv' /\ TypeOK
  BY NextLedger DEF FiguresInv, LInv
<1>2. ASSUME UNCHANGED <<rows, told>>, raced => raced' PROVE FiguresInv'
  BY <1>1, <1>2 DEF FiguresInv, Stands, RowsAt
<1>3. ASSUME NEW s \in Schedulers, NEW w \in Windows, Accrue(s, w)
      PROVE  raced => raced'
  BY <1>3 DEF Accrue
<1>4. ASSUME NEW s \in Schedulers, FindNothingOwed(s) PROVE FiguresInv'
  <2>1. /\ told' = told \cup {[window |-> call[s].window, payable |-> {}]}
        /\ UNCHANGED <<rows, raced>>
    BY <1>4 DEF FindNothingOwed, Tell
  <2>2. QED
    BY <1>1, <2>1 DEF FiguresInv, Stands, RowsAt
<1>5. ASSUME NEW s \in Schedulers, FindSettled(s) PROVE FiguresInv'
  <2>1. /\ told' = told \cup {[window |-> call[s].window, payable |-> call[s].payable]}
        /\ UNCHANGED <<rows, raced>>
    BY <1>5 DEF FindSettled, Tell
  <2>2. RowsAt(call[s].window) = call[s].payable
    BY <1>1, <1>5, SettledStands
  <2>3. QED
    BY <1>1, <2>1, <2>2 DEF FiguresInv, Stands, RowsAt
<1>6. ASSUME NEW s \in Schedulers, CreateMany(s) PROVE FiguresInv'
  <2> SUFFICES ASSUME ~raced', NEW t \in told', t.payable # {}
               PROVE  RowsAt(t.window)' = t.payable
    BY <1>1 DEF FiguresInv, Stands
  <2> DEFINE w == call[s].window
             new == call[s].payable
  <2>1. /\ rows' = rows \cup new /\ raced' = raced
        /\ told' = told \/ told' = told \cup {[window |-> w, payable |-> new]}
    BY <1>6 DEF CreateMany, Tell
  <2>2. /\ \A r \in rows : ~Overlaps(r.window, w)
        /\ \A r \in new : r.window = w
        /\ w \in Windows
    <3>1. \A r \in rows : ~Overlaps(r.window, w)
      BY <1>1, <1>6, <2>1, InsertsIntoNothing
    <3>2. call[s] # None /\ call[s] \in Calls
      BY <1>1, <1>6 DEF TypeOK, CreateMany, In
    <3>3. QED
      BY <1>1, <3>1, <3>2 DEF LInv, Carries, Calls
  <2>3. Overlaps(w, w)
    BY <2>2, LedgerAssumption DEF Overlaps
  <2> HIDE DEF w, new
  <2>4. RowsAt(w) = {}
    BY <2>2, <2>3 DEF RowsAt
  <2>5. CASE t \in told
    <3>1. RowsAt(t.window) = t.payable
      BY <2>1, <2>5 DEF FiguresInv, Stands
    <3>2. t.window # w
      BY <2>4, <3>1
    <3>3. QED
      BY <2>1, <2>2, <3>1, <3>2 DEF RowsAt
  <2>6. CASE t = [window |-> w, payable |-> new]
    BY <2>1, <2>2, <2>4, <2>6 DEF RowsAt
  <2>7. QED
    BY <2>1, <2>5, <2>6
<1>7. ASSUME NEW s \in Schedulers,
             FindNothing(s) \/ FindConflict(s) \/ CreateRefused(s) \/ Die(s)
      PROVE  UNCHANGED <<rows, told, raced>>
  BY <1>7 DEF FindNothing, FindConflict, CreateRefused, Die
<1>8. ASSUME NEW w \in Windows, NEW figures \in Figures, OwedChanges(w, figures)
      PROVE  UNCHANGED <<rows, told, raced>>
  BY <1>8 DEF OwedChanges
<1>9. ASSUME NEW s \in Schedulers, NEW w \in Windows, Accrue(s, w)
      PROVE  UNCHANGED <<rows, told>>
  BY <1>9 DEF Accrue
<1>10. CASE UNCHANGED vars
  BY <1>2, <1>10 DEF vars
<1>11. QED
  BY <1>2, <1>3, <1>4, <1>5, <1>6, <1>7, <1>8, <1>9, <1>10 DEF Next

(***************************************************************************)
(* What a caller was told is in the ledger is what the ledger says of that *)
(* window from then on, to the row, unless calls raced: through any number *)
(* of repeated calls, figures that change and answers that are lost        *)
(* (recordAccruals).                                                       *)
(***************************************************************************)
THEOREM AcceptedStands == Spec => []AcceptedFiguresStand
<1>1. Init => FiguresInv
  BY InitLedger DEF FiguresInv, Init
<1>2. FiguresInv => AcceptedFiguresStand
  BY DEF FiguresInv, Stands, RowsAt, AcceptedFiguresStand
<1>3. QED
  BY <1>1, <1>2, FiguresStep, PTL DEF Spec

\* Of some numbers one is the least.
LEMMA LeastNumber ==
  ASSUME NEW I \in SUBSET Nat, I # {}
  PROVE  \E n \in I : \A j \in I : n <= j
<1>1. IsWellFoundedOn(OpToRel(<, Nat), Nat)
  BY NatLessThanWellFounded
<1>2. PICK n \in I : \A j \in I : ~(<<j, n>> \in OpToRel(<, Nat))
  BY <1>1, WFMin
<1>3. \A j \in I : ~(j < n)
  BY <1>2 DEF OpToRel
<1>4. QED
  BY <1>3

\* A family of sets that has the empty one, and each that it has without any
\* one of its elements, has every subset of a finite set.
LEMMA EverySubset ==
  ASSUME NEW S, IsFiniteSet(S), NEW G, {} \in G,
         \A s \in SUBSET S : s # {} /\ (\A x \in s : s \ {x} \in G) => s \in G
  PROVE  SUBSET S \subseteq G
<1> SUFFICES ASSUME NEW s0 \in SUBSET S, s0 \notin G PROVE FALSE
  OBVIOUS
<1> DEFINE Out == {s \in SUBSET S : s \notin G}
           Sizes == {Cardinality(s) : s \in Out}
<1>1. \A s \in SUBSET S : IsFiniteSet(s) /\ Cardinality(s) \in Nat
  BY FS_Subset, FS_CardinalityType
<1>2. Sizes \in SUBSET Nat /\ Sizes # {}
  BY <1>1
<1>3. PICK n \in Sizes : \A j \in Sizes : n <= j
  BY <1>2, LeastNumber
<1>4. PICK s \in Out : Cardinality(s) = n
  OBVIOUS
<1>5. \A x \in s : s \ {x} \in G
  <2> TAKE x \in s
  <2>1. s \ {x} \in SUBSET S
    OBVIOUS
  <2>2. Cardinality(s \ {x}) = Cardinality(s) - 1
    BY <1>1, FS_RemoveElement
  <2>3. s \ {x} \notin Out
    BY <2>2, <1>1, <1>3, <1>4
  <2>4. QED
    BY <2>1, <2>3
<1>6. QED
  BY <1>4, <1>5

(***************************************************************************)
(* What a sum is: of nothing it is zero, and any element can be taken out  *)
(* of it first.                                                            *)
(***************************************************************************)
Pick(s) == CHOOSE x \in s : TRUE
Step(f, g, s) == IF s = {} THEN 0 ELSE f[Pick(s)] + g[s \ {Pick(s)}]
FoldsUp(f, S, g) == g = [s \in SUBSET S |-> Step(f, g, s)]

LEMMA SumUnfolds ==
  ASSUME NEW f, NEW S
  PROVE  SumOf(f, S) = (CHOOSE g : FoldsUp(f, S, g))[S]
BY Zenon DEF SumOf, MapThenSumSet, MapThenFoldSet, Step, Pick, FoldsUp

LEMMA PickIn == ASSUME NEW s, s # {} PROVE Pick(s) \in s
BY DEF Pick

\* Two functions that fold agree where both are defined.
LEMMA FoldsAlike ==
  ASSUME NEW f, NEW S, NEW T, NEW g, NEW h, IsFiniteSet(S),
         T \subseteq S, FoldsUp(f, S, g), FoldsUp(f, T, h)
  PROVE  g[T] = h[T]
<1> DEFINE G == {s \in SUBSET T : g[s] = h[s]}
<1>1. {} \in G
  BY DEF FoldsUp, Step
<1>2. \A s \in SUBSET T : s # {} /\ (\A x \in s : s \ {x} \in G) => s \in G
  <2> SUFFICES ASSUME NEW s \in SUBSET T, s # {}, \A x \in s : s \ {x} \in G
               PROVE  s \in G
    OBVIOUS
  <2>1. g[s \ {Pick(s)}] = h[s \ {Pick(s)}]
    BY PickIn
  <2>2. g[s] = Step(f, g, s) /\ h[s] = Step(f, h, s)
    BY DEF FoldsUp
  <2>3. QED
    BY <2>1, <2>2 DEF Step
<1>3. IsFiniteSet(T)
  BY FS_Subset
<1> HIDE DEF G
<1>4. SUBSET T \subseteq G
  BY <1>1, <1>2, <1>3, EverySubset
<1>5. QED
  BY <1>4 DEF G

\* There is such a function: what is left out of a set is a smaller one's.
LEMMA FoldsExists ==
  ASSUME NEW f, NEW S, IsFiniteSet(S)
  PROVE  \E g : FoldsUp(f, S, g)
<1> DEFINE G == {T \in SUBSET S : \E g : FoldsUp(f, T, g)}
<1>1. {} \in G
  <2> DEFINE g == [s \in SUBSET {} |-> 0]
  <2>1. FoldsUp(f, {}, g)
    BY DEF FoldsUp, Step
  <2>2. QED
    BY <2>1
<1>2. \A T \in SUBSET S : T # {} /\ (\A x \in T : T \ {x} \in G) => T \in G
  <2> SUFFICES ASSUME NEW T \in SUBSET S, T # {}, \A x \in T : T \ {x} \in G
               PROVE  \E g : FoldsUp(f, T, g)
    OBVIOUS
  <2> DEFINE Of(s) == (CHOOSE h : FoldsUp(f, s, h))[s]
             g == [s \in SUBSET T |-> IF s = T THEN f[Pick(T)] + Of(T \ {Pick(T)}) ELSE Of(s)]
  <2>1. \A s \in SUBSET T : s # T => \E h : FoldsUp(f, s, h)
    <3> SUFFICES ASSUME NEW s \in SUBSET T, s # T PROVE \E h : FoldsUp(f, s, h)
      OBVIOUS
    <3>1. PICK x \in T : x \notin s
      OBVIOUS
    <3>2. PICK h : FoldsUp(f, T \ {x}, h)
      OBVIOUS
    <3> DEFINE k == [u \in SUBSET s |-> h[u]]
    <3>3. \A u \in SUBSET s : k[u] = Step(f, h, u)
      BY <3>1, <3>2 DEF FoldsUp
    <3>4. \A u \in SUBSET s : Step(f, h, u) = Step(f, k, u)
      BY PickIn DEF Step
    <3>5. FoldsUp(f, s, k)
      BY <3>3, <3>4 DEF FoldsUp
    <3>6. QED
      BY <3>5
  <2>2. \A s \in SUBSET T : s # T /\ s # {} => Of(s) = f[Pick(s)] + Of(s \ {Pick(s)})
    <3> SUFFICES ASSUME NEW s \in SUBSET T, s # T, s # {}
                 PROVE  Of(s) = f[Pick(s)] + Of(s \ {Pick(s)})
      OBVIOUS
    <3> DEFINE r == s \ {Pick(s)}
    <3>1. r \in SUBSET T /\ r # T /\ r \subseteq s
      OBVIOUS
    <3>2. PICK h : h = (CHOOSE u : FoldsUp(f, s, u))
      OBVIOUS
    <3>3. PICK k : k = (CHOOSE u : FoldsUp(f, r, u))
      OBVIOUS
    <3>4. FoldsUp(f, s, h)
      BY <2>1, <3>2
    <3>5. FoldsUp(f, r, k)
      BY <2>1, <3>1, <3>3
    <3>6. IsFiniteSet(s)
      BY FS_Subset
    <3>7. h[r] = k[r]
      BY <3>1, <3>4, <3>5, <3>6, FoldsAlike
    <3>8. h[s] = f[Pick(s)] + h[r]
      BY <3>4 DEF FoldsUp, Step
    <3>9. QED
      BY <3>2, <3>3, <3>7, <3>8
  <2>3. Of({}) = 0
    <3>1. PICK h : h = (CHOOSE u : FoldsUp(f, {}, u))
      OBVIOUS
    <3>2. FoldsUp(f, {}, h)
      BY <2>1, <3>1
    <3>3. h[{}] = 0
      BY <3>2 DEF FoldsUp, Step
    <3>4. QED
      BY <3>1, <3>3
  <2>4. \A s \in SUBSET T : g[s] = Step(f, g, s)
    <3> SUFFICES ASSUME NEW s \in SUBSET T PROVE g[s] = Step(f, g, s)
      OBVIOUS
    <3>1. CASE s = {}
      BY <3>1, <2>3 DEF Step
    <3>2. CASE s # {}
      <4> DEFINE r == s \ {Pick(s)}
      <4>1. r \in SUBSET T /\ r # T
        BY PickIn, <3>2
      <4>2. g[r] = Of(r)
        BY <4>1
      <4>3. g[s] = f[Pick(s)] + Of(r)
        BY <2>2, <3>2
      <4>4. QED
        BY <3>2, <4>2, <4>3 DEF Step
    <3>3. QED
      BY <3>1, <3>2
  <2> HIDE DEF Of
  <2>5. g = [s \in SUBSET T |-> Step(f, g, s)]
    BY <2>4
  <2>6. QED
    BY <2>5 DEF FoldsUp
<1> HIDE DEF G
<1>3. SUBSET S \subseteq G
  BY <1>1, <1>2, EverySubset
<1>4. QED
  BY <1>3 DEF G

LEMMA SumOfNone == ASSUME NEW f PROVE SumOf(f, {}) = 0
<1>1. PICK g : g = (CHOOSE u : FoldsUp(f, {}, u))
  OBVIOUS
<1>2. FoldsUp(f, {}, g)
  BY <1>1, FoldsExists, FS_EmptySet
<1>3. g[{}] = 0
  BY <1>2 DEF FoldsUp, Step
<1>4. QED
  BY <1>1, <1>3, SumUnfolds

LEMMA SumOfPicked ==
  ASSUME NEW f, NEW S, IsFiniteSet(S), S # {}
  PROVE  SumOf(f, S) = f[Pick(S)] + SumOf(f, S \ {Pick(S)})
<1> DEFINE R == S \ {Pick(S)}
<1>1. PICK g : g = (CHOOSE u : FoldsUp(f, S, u))
  OBVIOUS
<1>2. PICK h : h = (CHOOSE u : FoldsUp(f, R, u))
  OBVIOUS
<1>3. IsFiniteSet(R)
  BY FS_Subset
<1>4. FoldsUp(f, S, g) /\ FoldsUp(f, R, h)
  BY <1>1, <1>2, <1>3, FoldsExists
<1>5. g[R] = h[R]
  BY <1>4, FoldsAlike
<1>6. g[S] = f[Pick(S)] + g[R]
  BY <1>4 DEF FoldsUp, Step
<1>7. SumOf(f, S) = g[S] /\ SumOf(f, R) = h[R]
  BY <1>1, <1>2, SumUnfolds
<1>8. QED
  BY <1>5, <1>6, <1>7


(***************************************************************************)
(* Sums of natural numbers.                                                *)
(***************************************************************************)
Counts(f, S) == \A x \in S : f[x] \in Nat

LEMMA SumIsNat ==
  ASSUME NEW f, NEW S, IsFiniteSet(S), Counts(f, S)
  PROVE  SumOf(f, S) \in Nat
<1> DEFINE G == {s \in SUBSET S : SumOf(f, s) \in Nat}
<1>1. {} \in G
  BY SumOfNone
<1>2. \A s \in SUBSET S : s # {} /\ (\A x \in s : s \ {x} \in G) => s \in G
  <2> SUFFICES ASSUME NEW s \in SUBSET S, s # {}, \A x \in s : s \ {x} \in G
               PROVE  SumOf(f, s) \in Nat
    OBVIOUS
  <2>1. IsFiniteSet(s) /\ Pick(s) \in s
    BY FS_Subset, PickIn
  <2>2. f[Pick(s)] \in Nat /\ SumOf(f, s \ {Pick(s)}) \in Nat
    BY <2>1 DEF Counts
  <2>3. QED
    BY <2>1, <2>2, SumOfPicked
<1> HIDE DEF G
<1>3. SUBSET S \subseteq G
  BY <1>1, <1>2, EverySubset
<1>4. QED
  BY <1>3 DEF G

\* Any element can be added last.
LEMMA SumTakes ==
  ASSUME NEW f, NEW S, IsFiniteSet(S), Counts(f, S), NEW x0 \in S
  PROVE  SumOf(f, S) = f[x0] + SumOf(f, S \ {x0})
<1> DEFINE G == {s \in SUBSET S : \A x \in s : SumOf(f, s) = f[x] + SumOf(f, s \ {x})}
<1>1. {} \in G
  OBVIOUS
<1>2. \A s \in SUBSET S : s # {} /\ (\A x \in s : s \ {x} \in G) => s \in G
  <2> SUFFICES ASSUME NEW s \in SUBSET S, s # {}, \A x \in s : s \ {x} \in G, NEW x \in s
               PROVE  SumOf(f, s) = f[x] + SumOf(f, s \ {x})
    OBVIOUS
  <2>1. PICK p \in s : p = Pick(s)
    BY PickIn
  <2>2. SumOf(f, s) = f[p] + SumOf(f, s \ {p})
    BY <2>1, FS_Subset, SumOfPicked
  <2>3. CASE x = p
    BY <2>2, <2>3
  <2>4. CASE x # p
    <3>1. s \ {p} \in G /\ s \ {x} \in G /\ x \in s \ {p} /\ p \in s \ {x}
      BY <2>4
    <3>2. SumOf(f, s \ {p}) = f[x] + SumOf(f, (s \ {p}) \ {x})
      BY <3>1
    <3>3. SumOf(f, s \ {x}) = f[p] + SumOf(f, (s \ {x}) \ {p})
      BY <3>1
    <3>4. (s \ {p}) \ {x} = (s \ {x}) \ {p}
      OBVIOUS
    <3>5. f[x] \in Nat /\ f[p] \in Nat /\ SumOf(f, (s \ {x}) \ {p}) \in Nat
      <4>1. IsFiniteSet((s \ {x}) \ {p}) /\ Counts(f, (s \ {x}) \ {p})
        BY FS_Subset DEF Counts
      <4>2. QED
        BY <4>1, SumIsNat DEF Counts
    <3>6. QED
      BY <2>2, <3>2, <3>3, <3>4, <3>5
  <2>5. QED
    BY <2>3, <2>4
<1> HIDE DEF G
<1>3. SUBSET S \subseteq G
  BY <1>1, <1>2, EverySubset
<1>4. QED
  BY <1>3 DEF G

LEMMA SumIsMonotone ==
  ASSUME NEW f, NEW g, NEW S, IsFiniteSet(S), Counts(f, S), Counts(g, S),
         \A x \in S : f[x] <= g[x]
  PROVE  SumOf(f, S) <= SumOf(g, S)
<1> DEFINE G == {s \in SUBSET S : SumOf(f, s) <= SumOf(g, s)}
<1>1. {} \in G
  BY SumOfNone
<1>2. \A s \in SUBSET S : s # {} /\ (\A x \in s : s \ {x} \in G) => s \in G
  <2> SUFFICES ASSUME NEW s \in SUBSET S, s # {}, \A x \in s : s \ {x} \in G
               PROVE  SumOf(f, s) <= SumOf(g, s)
    OBVIOUS
  <2>1. PICK p \in s : p = Pick(s)
    BY PickIn
  <2>2. SumOf(f, s) = f[p] + SumOf(f, s \ {p}) /\ SumOf(g, s) = g[p] + SumOf(g, s \ {p})
    BY <2>1, FS_Subset, SumOfPicked
  <2>3. SumOf(f, s \ {p}) \in Nat /\ SumOf(g, s \ {p}) \in Nat
    <3>1. IsFiniteSet(s \ {p}) /\ Counts(f, s \ {p}) /\ Counts(g, s \ {p})
      BY FS_Subset DEF Counts
    <3>2. QED
      BY <3>1, SumIsNat
  <2>4. f[p] \in Nat /\ g[p] \in Nat /\ f[p] <= g[p]
    BY DEF Counts
  <2>5. SumOf(f, s \ {p}) <= SumOf(g, s \ {p})
    OBVIOUS
  <2>6. QED
    BY <2>2, <2>3, <2>4, <2>5
<1> HIDE DEF G
<1>3. SUBSET S \subseteq G
  BY <1>1, <1>2, EverySubset
<1>4. QED
  BY <1>3 DEF G

LEMMA SumAlike ==
  ASSUME NEW f, NEW g, NEW S, IsFiniteSet(S), Counts(f, S), \A x \in S : f[x] = g[x]
  PROVE  SumOf(f, S) = SumOf(g, S)
<1>1. Counts(g, S)
  BY DEF Counts
<1>2. SumOf(f, S) <= SumOf(g, S) /\ SumOf(g, S) <= SumOf(f, S)
  BY <1>1, SumIsMonotone DEF Counts
<1>3. SumOf(f, S) \in Nat /\ SumOf(g, S) \in Nat
  BY <1>1, SumIsNat
<1>4. QED
  BY <1>2, <1>3

LEMMA Spreads ==
  ASSUME NEW c \in Nat, NEW a \in Nat, NEW b \in Nat
  PROVE  c * (a + b) = c * a + c * b /\ c * a \in Nat
OBVIOUS

LEMMA SumScales ==
  ASSUME NEW c \in Nat, NEW f, NEW g, NEW S, IsFiniteSet(S), Counts(f, S),
         \A x \in S : g[x] = c * f[x]
  PROVE  SumOf(g, S) = c * SumOf(f, S)
<1> DEFINE G == {s \in SUBSET S : SumOf(g, s) = c * SumOf(f, s)}
<1>1. {} \in G
  BY SumOfNone
<1>2. \A s \in SUBSET S : s # {} /\ (\A x \in s : s \ {x} \in G) => s \in G
  <2> SUFFICES ASSUME NEW s \in SUBSET S, s # {}, \A x \in s : s \ {x} \in G
               PROVE  SumOf(g, s) = c * SumOf(f, s)
    OBVIOUS
  <2>1. PICK p \in s : p = Pick(s)
    BY PickIn
  <2>2. SumOf(f, s) = f[p] + SumOf(f, s \ {p}) /\ SumOf(g, s) = g[p] + SumOf(g, s \ {p})
    BY <2>1, FS_Subset, SumOfPicked
  <2>3. SumOf(f, s \ {p}) \in Nat /\ f[p] \in Nat
    <3>1. IsFiniteSet(s \ {p}) /\ Counts(f, s \ {p})
      BY FS_Subset DEF Counts
    <3>2. QED
      BY <3>1, SumIsNat DEF Counts
  <2>4. SumOf(g, s \ {p}) = c * SumOf(f, s \ {p}) /\ g[p] = c * f[p]
    OBVIOUS
  <2>5. QED
    BY <2>2, <2>3, <2>4, Spreads
<1> HIDE DEF G
<1>3. SUBSET S \subseteq G
  BY <1>1, <1>2, EverySubset
<1>4. QED
  BY <1>3 DEF G

LEMMA SumSplits ==
  ASSUME NEW f, NEW S, NEW T, IsFiniteSet(S), IsFiniteSet(T), Counts(f, S \cup T), S \cap T = {}
  PROVE  SumOf(f, S \cup T) = SumOf(f, S) + SumOf(f, T)
<1> DEFINE G == {t \in SUBSET T : SumOf(f, S \cup t) = SumOf(f, S) + SumOf(f, t)}
<1>0. SumOf(f, S) \in Nat
  BY SumIsNat DEF Counts
<1>1. {} \in G
  <2>1. S \cup {} = S
    OBVIOUS
  <2>2. QED
    BY <1>0, <2>1, SumOfNone
<1>2. \A t \in SUBSET T : t # {} /\ (\A x \in t : t \ {x} \in G) => t \in G
  <2> SUFFICES ASSUME NEW t \in SUBSET T, t # {}, \A x \in t : t \ {x} \in G
               PROVE  SumOf(f, S \cup t) = SumOf(f, S) + SumOf(f, t)
    OBVIOUS
  <2>1. PICK p \in t : p = Pick(t)
    BY PickIn
  <2>2. IsFiniteSet(t) /\ Counts(f, t) /\ IsFiniteSet(t \ {p}) /\ Counts(f, t \ {p})
    BY FS_Subset DEF Counts
  <2>3. SumOf(f, t) = f[p] + SumOf(f, t \ {p})
    BY <2>2, SumTakes
  <2>4. IsFiniteSet(S \cup t) /\ Counts(f, S \cup t) /\ p \in S \cup t
    BY <2>2, FS_Union DEF Counts
  <2>5. SumOf(f, S \cup t) = f[p] + SumOf(f, (S \cup t) \ {p})
    BY <2>4, SumTakes
  <2>6. (S \cup t) \ {p} = S \cup (t \ {p})
    OBVIOUS
  <2>7. SumOf(f, S \cup (t \ {p})) = SumOf(f, S) + SumOf(f, t \ {p})
    OBVIOUS
  <2>8. f[p] \in Nat /\ SumOf(f, t \ {p}) \in Nat
    BY <2>2, SumIsNat DEF Counts
  <2>9. SumOf(f, S \cup t) = f[p] + (SumOf(f, S) + SumOf(f, t \ {p}))
    BY <2>5, <2>6, <2>7, Zenon
  <2>10. QED
    BY <1>0, <2>3, <2>8, <2>9
<1> HIDE DEF G
<1>3. SUBSET T \subseteq G
  BY <1>1, <1>2, EverySubset
<1>4. QED
  BY <1>3 DEF G

LEMMA SumOfPart ==
  ASSUME NEW f, NEW S, NEW T, IsFiniteSet(S), Counts(f, S), T \subseteq S
  PROVE  SumOf(f, T) <= SumOf(f, S)
<1> DEFINE R == S \ T
<1>1. IsFiniteSet(T) /\ IsFiniteSet(R) /\ Counts(f, T) /\ Counts(f, R)
  BY FS_Subset DEF Counts
<1>2. T \cup R = S /\ T \cap R = {}
  OBVIOUS
<1>3. SumOf(f, T) \in Nat /\ SumOf(f, R) \in Nat
  BY <1>1, SumIsNat
<1>4. SumOf(f, T \cup R) = SumOf(f, T) + SumOf(f, R)
  BY <1>1, <1>2, SumSplits
<1> HIDE DEF R
<1>5. SumOf(f, S) = SumOf(f, T) + SumOf(f, R)
  BY <1>2, <1>4, Zenon
<1>6. QED
  BY <1>3, <1>5

LEMMA SumOfOne ==
  ASSUME NEW f, NEW x, f[x] \in Nat
  PROVE  SumOf(f, {x}) = f[x]
<1>1. IsFiniteSet({x}) /\ Counts(f, {x}) /\ {x} \ {x} = {}
  BY FS_Singleton DEF Counts
<1>2. SumOf(f, {x}) = f[x] + SumOf(f, {x} \ {x})
  BY <1>1, SumTakes
<1>3. QED
  BY <1>1, <1>2, SumOfNone

Group(S, key, a) == {x \in S : key[x] = a}
Groups(S, key, A) == {x \in S : key[x] \in A}

\* Added up group by group, nothing is counted twice and nothing is left out.
LEMMA SumByGroup ==
  ASSUME NEW f, NEW S, IsFiniteSet(S), Counts(f, S), NEW key, NEW A, IsFiniteSet(A), NEW h,
         \A a \in A : h[a] = SumOf(f, Group(S, key, a))
  PROVE  SumOf(h, A) = SumOf(f, Groups(S, key, A))
<1> DEFINE Of(B) == Groups(S, key, B)
           G == {B \in SUBSET A : SumOf(h, B) = SumOf(f, Of(B))}
<1>0. Counts(h, A)
  <2> SUFFICES ASSUME NEW a \in A PROVE h[a] \in Nat
    BY DEF Counts
  <2> DEFINE s == Group(S, key, a)
  <2>1. IsFiniteSet(s) /\ Counts(f, s)
    BY FS_Subset DEF Counts, Group
  <2>2. SumOf(f, s) \in Nat
    BY <2>1, SumIsNat
  <2>3. QED
    BY <2>2
<1>1. {} \in G
  <2>1. Of({}) = {}
    BY DEF Groups
  <2>2. QED
    BY <2>1, SumOfNone
<1>2. \A B \in SUBSET A : B # {} /\ (\A a \in B : B \ {a} \in G) => B \in G
  <2> SUFFICES ASSUME NEW B \in SUBSET A, B # {}, \A a \in B : B \ {a} \in G
               PROVE  SumOf(h, B) = SumOf(f, Of(B))
    OBVIOUS
  <2>1. PICK a \in B : TRUE
    OBVIOUS
  <2> DEFINE s == Group(S, key, a)
             r == Of(B \ {a})
  <2>2. SumOf(h, B) = h[a] + SumOf(h, B \ {a})
    <3>1. IsFiniteSet(B) /\ Counts(h, B)
      BY <1>0, FS_Subset DEF Counts
    <3>2. QED
      BY <3>1, SumTakes
  <2>3. SumOf(h, B \ {a}) = SumOf(f, r)
    OBVIOUS
  <2>4. h[a] = SumOf(f, s)
    OBVIOUS
  <2>5. r \cup s = Of(B) /\ r \cap s = {}
    BY DEF Group, Groups
  <2>6. IsFiniteSet(r) /\ IsFiniteSet(s) /\ Counts(f, r) /\ Counts(f, s) /\ Counts(f, r \cup s)
    BY FS_Subset DEF Counts, Group, Groups
  <2> HIDE DEF s, r, Of
  <2>7. SumOf(f, r \cup s) = SumOf(f, r) + SumOf(f, s)
    BY <2>5, <2>6, SumSplits
  <2>8. SumOf(f, r) \in Nat /\ SumOf(f, s) \in Nat
    BY <2>6, SumIsNat
  <2>9. SumOf(f, Of(B)) = SumOf(f, r) + SumOf(f, s)
    BY <2>5, <2>7, Zenon
  <2>10. QED
    BY <2>2, <2>3, <2>4, <2>8, <2>9
<1> HIDE DEF G
<1>3. SUBSET A \subseteq G
  BY <1>1, <1>2, EverySubset
<1>4. QED
  BY <1>3 DEF G

(***************************************************************************)
(* Division, as the pricing uses it.                                       *)
(***************************************************************************)
LEMMA FloorBounds ==
  ASSUME NEW a \in Nat, NEW b \in Nat \ {0}
  PROVE  /\ a \div b \in Nat /\ a % b \in Nat /\ a % b < b
         /\ a = b * (a \div b) + (a % b)
         /\ b * (a \div b) <= a
OBVIOUS

LEMMA Exact ==
  ASSUME NEW a \in Nat, NEW b \in Nat \ {0}
  PROVE  (a * b) \div b = a
OBVIOUS

LEMMA FitsOnce ==
  ASSUME NEW a \in Nat, NEW b \in Nat, NEW c \in Nat \ {0}, c * a <= b * c
  PROVE  a <= b
OBVIOUS

LEMMA NothingLeft ==
  ASSUME NEW a \in Nat \ {0}, NEW b \in Nat \ {0}, a % b = 0
  PROVE  a \div b \in Nat \ {0} /\ a = b * (a \div b)
<1>1. a \div b \in Nat /\ a = b * (a \div b) + (a % b)
  BY FloorBounds
<1>2. a = b * (a \div b)
  BY <1>1
<1>3. QED
  BY <1>1, <1>2

\* As many periods begin in a day as go into it.
LEMMA PeriodsOfADay ==
  ASSUME NEW m \in Nat \ {0}, MinutesPerDay % m = 0
  PROVE  Cardinality({t \in 0..(MinutesPerDay - 1) : t % m = 0}) = MinutesPerDay \div m
<1> DEFINE T == {t \in 0..(MinutesPerDay - 1) : t % m = 0}
<1>0. PICK d \in Nat \ {0} : d = MinutesPerDay
  BY PricingAssumption
<1>1. PICK k \in Nat \ {0} : k = d \div m /\ d = m * k
  BY <1>0, NothingLeft
<1> DEFINE f == [i \in 1..k |-> m * (i - 1)]
<1>2. \A i \in 1..k : m * (i - 1) \in T
  <2> SUFFICES ASSUME NEW i \in 1..k PROVE m * (i - 1) \in 0..(d - 1) /\ (m * (i - 1)) % m = 0
    BY <1>0
  <2>1. PICK j \in Nat : j = i - 1 /\ j < k
    OBVIOUS
  <2>2. m * j \in Nat /\ m * j + m <= m * k
    BY <2>1
  <2>3. (m * j) % m = 0
    OBVIOUS
  <2>4. QED
    BY <1>1, <2>1, <2>2, <2>3
<1>3. \A i, j \in 1..k : m * (i - 1) = m * (j - 1) => i = j
  OBVIOUS
<1>4. \A t \in T : \E i \in 1..k : m * (i - 1) = t
  <2> SUFFICES ASSUME NEW t \in T PROVE \E i \in 1..k : m * (i - 1) = t
    OBVIOUS
  <2>1. t \in Nat /\ t % m = 0 /\ t < d
    BY <1>0
  <2>2. PICK j \in Nat : j = t \div m /\ t = m * j
    BY <2>1, FloorBounds
  <2>3. j < k
    BY <1>1, <2>1, <2>2
  <2>4. j + 1 \in 1..k /\ m * ((j + 1) - 1) = t
    BY <2>2, <2>3
  <2>5. QED
    BY <2>4
<1>5. f \in Bijection(1..k, T)
  <2>1. f \in [1..k -> T]
    BY <1>2
  <2>2. \A i, j \in 1..k : f[i] = f[j] => i = j
    BY <1>3
  <2>3. \A t \in T : \E i \in 1..k : f[i] = t
    BY <1>4
  <2> HIDE DEF f, T
  <2>4. QED
    BY <2>1, <2>2, <2>3 DEF Bijection, Injection, Surjection, IsInjective
<1>6. Cardinality(T) = k
  BY <1>5, FS_CountingElements DEF ExistsBijection
<1>7. QED
  BY <1>0, <1>1, <1>6

(***************************************************************************)
(* What a layer is priced with.                                            *)
(***************************************************************************)
Layer == [ceiling : Nat, rate : Nat, cap : Nat, minutes : Nat]

LEMMA LayersAreUsable ==
  ASSUME NEW layer \in Layers
  PROVE  layer \in Layer /\ UsableConfig(layer)
BY PricingAssumption DEF Layers, Layer

LEMMA UnitsCount ==
  ASSUME NEW units \in Units
  PROVE  units \in [Workspaces -> Nat]
BY PricingAssumption DEF Units

AtRate(layer, units) == SumOf(units, Workspaces) * layer.rate
Pool(layer, units) == Lesser(AtRate(layer, units), CeilingPerPeriod(layer))
Parts(layer, units) ==
  [w \in Workspaces |-> ProRata(Pool(layer, units), units[w], SumOf(units, Workspaces))]
Top(layer, units) == CapFor(Pool(layer, units), AtRate(layer, units), layer)
Shares(layer, units) ==
  [w \in Workspaces |-> Lesser(Parts(layer, units)[w], Top(layer, units))]

LEMMA Priced ==
  ASSUME NEW layer, NEW units, NEW wallets, NEW p, p = PriceLayer(layer, units, wallets)
  PROVE  /\ p.pool = Pool(layer, units)
         /\ p.contested <=> AtRate(layer, units) > Pool(layer, units)
         /\ p.cap = Top(layer, units)
         /\ p.wallets = wallets
         /\ p.proRata = Parts(layer, units)
         /\ p.share = Shares(layer, units)
BY DEF PriceLayer, Total, AtRate, Pool, Parts, Top, Shares

LEMMA PricedNaturals ==
  ASSUME NEW layer \in Layer, UsableConfig(layer), NEW units \in [Workspaces -> Nat]
  PROVE  /\ SumOf(units, Workspaces) \in Nat
         /\ \A w \in Workspaces : units[w] <= SumOf(units, Workspaces)
         /\ AtRate(layer, units) \in Nat /\ CeilingPerPeriod(layer) \in Nat
         /\ Pool(layer, units) \in Nat /\ Pool(layer, units) <= AtRate(layer, units)
         /\ Pool(layer, units) <= CeilingPerPeriod(layer)
         /\ Top(layer, units) \in Nat
         /\ Parts(layer, units) \in [Workspaces -> Nat]
         /\ Shares(layer, units) \in [Workspaces -> Nat]
         /\ \A w \in Workspaces : Shares(layer, units)[w] <= Parts(layer, units)[w]
<1>1. IsFiniteSet(Workspaces) /\ Counts(units, Workspaces)
  BY PricingAssumption DEF Counts
<1>2. PICK total \in Nat : total = SumOf(units, Workspaces)
  BY <1>1, SumIsNat
<1>3. \A w \in Workspaces : units[w] <= total
  <2> TAKE w \in Workspaces
  <2>1. SumOf(units, {w}) = units[w]
    BY SumOfOne
  <2>2. SumOf(units, {w}) <= total
    BY <1>1, <1>2, SumOfPart
  <2>3. QED
    BY <2>1, <2>2
<1>4. PICK rated \in Nat : rated = AtRate(layer, units)
  BY <1>2 DEF AtRate, Layer
<1>5. MinutesPerDay \div layer.minutes \in Nat \ {0}
  BY NothingLeft, PricingAssumption DEF UsableConfig, Layer
<1>6. PICK ceiling \in Nat : ceiling = CeilingPerPeriod(layer)
  BY <1>5, FloorBounds DEF CeilingPerPeriod, Layer
<1>7. PICK pool \in Nat : pool = Pool(layer, units) /\ pool <= rated /\ pool <= ceiling
  BY <1>4, <1>6 DEF Pool, Lesser
<1>8. PICK top \in Nat : top = Top(layer, units)
  <2>1. PICK c \in Nat : c = layer.cap
    BY DEF Layer
  <2>2. PICK n \in Nat : n = pool * c
    OBVIOUS
  <2>3. n \div BasisPoints \in Nat
    BY FloorBounds, PricingAssumption
  <2>4. QED
    BY <1>4, <1>7, <2>1, <2>2, <2>3 DEF Top, CapFor, Cap
<1>9. \A w \in Workspaces : ProRata(pool, units[w], total) \in Nat
  <2> TAKE w \in Workspaces
  <2>1. CASE units[w] = 0
    BY <2>1 DEF ProRata
  <2>2. CASE units[w] # 0
    <3>1. total \in Nat \ {0} /\ units[w] \in Nat
      BY <1>3, <2>2
    <3>2. PICK n \in Nat : n = pool * units[w]
      BY <3>1
    <3>3. n \div total \in Nat
      BY <3>1, <3>2, FloorBounds
    <3>4. QED
      BY <2>2, <3>2, <3>3 DEF ProRata
  <2>3. QED
    BY <2>1, <2>2
<1>10. Parts(layer, units) \in [Workspaces -> Nat]
  BY <1>2, <1>7, <1>9 DEF Parts
<1>11. /\ Shares(layer, units) \in [Workspaces -> Nat]
       /\ \A w \in Workspaces : Shares(layer, units)[w] <= Parts(layer, units)[w]
  BY <1>8, <1>10 DEF Shares, Lesser
<1>12. QED
  BY <1>2, <1>3, <1>4, <1>6, <1>7, <1>8, <1>10, <1>11

\* The parts of a pool do not exceed it.
LEMMA PartsFit ==
  ASSUME NEW layer \in Layer, UsableConfig(layer), NEW units \in [Workspaces -> Nat]
  PROVE  SumOf(Parts(layer, units), Workspaces) <= Pool(layer, units)
<1>1. IsFiniteSet(Workspaces) /\ Counts(units, Workspaces) /\ Counts(Parts(layer, units), Workspaces)
  BY PricingAssumption, PricedNaturals DEF Counts
<1>2. PICK total \in Nat : total = SumOf(units, Workspaces)
  BY PricedNaturals
<1>3. PICK pool \in Nat : pool = Pool(layer, units)
  BY PricedNaturals
<1>4. PICK sum \in Nat : sum = SumOf(Parts(layer, units), Workspaces)
  BY <1>1, SumIsNat
<1> DEFINE g == [w \in Workspaces |-> total * Parts(layer, units)[w]]
           h == [w \in Workspaces |-> pool * units[w]]
<1>5. \A w \in Workspaces : g[w] \in Nat /\ h[w] \in Nat /\ g[w] <= h[w]
  <2> TAKE w \in Workspaces
  <2>1. PICK u \in Nat : u = units[w] /\ u <= total
    BY <1>2, PricedNaturals
  <2>2. PICK n \in Nat : n = pool * u
    OBVIOUS
  <2>3. CASE u = 0
    <3>1. Parts(layer, units)[w] = ProRata(Pool(layer, units), units[w], SumOf(units, Workspaces))
      BY DEF Parts
    <3>2. Parts(layer, units)[w] = 0
      BY <2>1, <2>3, <3>1 DEF ProRata
    <3>3. total * 0 = 0 /\ pool * 0 = 0
      OBVIOUS
    <3>4. QED
      BY <2>1, <2>3, <3>2, <3>3
  <2>4. CASE u # 0
    <3>1. total \in Nat \ {0}
      BY <2>1, <2>4
    <3>2. Parts(layer, units)[w] = n \div total
      BY <1>2, <1>3, <2>1, <2>2, <2>4 DEF Parts, ProRata
    <3>3. n \div total \in Nat /\ total * (n \div total) <= n
      BY <3>1, FloorBounds
    <3>4. PICK q \in Nat : q = n \div total /\ total * q <= n
      BY <3>3
    <3>5. total * q \in Nat
      OBVIOUS
    <3>6. QED
      BY <2>1, <2>2, <3>2, <3>4, <3>5
  <2>5. QED
    BY <2>3, <2>4
<1>6. Counts(g, Workspaces) /\ Counts(h, Workspaces)
  BY <1>5 DEF Counts
<1>7. SumOf(g, Workspaces) <= SumOf(h, Workspaces)
  BY <1>1, <1>5, <1>6, SumIsMonotone
<1>8. SumOf(g, Workspaces) = total * sum
  BY <1>1, <1>4, SumScales
<1>9. SumOf(h, Workspaces) = pool * total
  BY <1>1, <1>2, SumScales
<1>10. CASE total = 0
  <2>1. \A w \in Workspaces : units[w] = 0
    <3> SUFFICES ASSUME NEW w \in Workspaces PROVE units[w] = 0
      OBVIOUS
    <3>1. units[w] \in Nat /\ units[w] <= total
      BY <1>2, PricedNaturals
    <3>2. QED
      BY <1>10, <3>1
  <2>2. \A w \in Workspaces : Parts(layer, units)[w] = 0
    BY <2>1 DEF Parts, ProRata
  <2>3. SumOf(Parts(layer, units), Workspaces) = 0 * SumOf(units, Workspaces)
    <3>1. \A w \in Workspaces : Parts(layer, units)[w] = 0 * units[w]
      BY <2>1, <2>2
    <3>2. QED
      BY <1>1, <3>1, SumScales
  <2>4. QED
    BY <1>2, <1>3, <2>3
<1>11. CASE total # 0
  <2>1. total * sum <= pool * total
    BY <1>7, <1>8, <1>9
  <2>2. sum <= pool
    BY <1>11, <2>1, FitsOnce
  <2>3. QED
    BY <1>3, <1>4, <2>2
<1>12. QED
  BY <1>10, <1>11

\* What an address is paid by a layer, as a sum.
LEMMA PaidIs ==
  ASSUME NEW layer \in Layer, UsableConfig(layer), NEW units \in [Workspaces -> Nat],
         NEW wallets, NEW a, NEW p, p = PriceLayer(layer, units, wallets)
  PROVE  /\ SumOf(Shares(layer, units), Group(Workspaces, wallets, a)) \in Nat
         /\ Paid(p, a) = Lesser(SumOf(Shares(layer, units), Group(Workspaces, wallets, a)),
                                Top(layer, units))
         /\ Paid(p, a) \in Nat /\ Paid(p, a) <= Top(layer, units)
         /\ Paid(p, a) <= SumOf(Shares(layer, units), Group(Workspaces, wallets, a))
<1> DEFINE mine == Group(Workspaces, wallets, a)
<1>1. IsFiniteSet(mine) /\ Counts(Shares(layer, units), mine)
  BY FS_Subset, PricingAssumption, PricedNaturals DEF Counts, Group
<1>2. SumOf(Shares(layer, units), mine) \in Nat
  BY <1>1, SumIsNat
<1>3. WorkspacesOf(p, a) = mine
  BY Priced DEF WorkspacesOf, Group
<1>4. Paid(p, a) = Lesser(SumOf(Shares(layer, units), mine), Top(layer, units))
  BY <1>3, Priced DEF Paid
<1>5. Top(layer, units) \in Nat
  BY PricedNaturals
<1>6. QED
  BY <1>2, <1>4, <1>5 DEF Lesser


(***************************************************************************)
(* The ceiling.                                                            *)
(***************************************************************************)
LEMMA WithinThePool ==
  ASSUME NEW layer \in Layer, UsableConfig(layer), NEW units \in [Workspaces -> Nat],
         NEW wallets, NEW p, p = PriceLayer(layer, units, wallets)
  PROVE  Distributed(p) <= p.pool
<1> DEFINE share == Shares(layer, units)
           paid == [a \in Payees |-> Paid(p, a)]
           due == [a \in Payees |-> SumOf(share, Group(Workspaces, wallets, a))]
           served == Groups(Workspaces, wallets, Payees)
<1>1. IsFiniteSet(Workspaces) /\ IsFiniteSet(Payees) /\ Counts(share, Workspaces)
  BY PricingAssumption, PricedNaturals DEF Counts
<1>2. \A a \in Payees : paid[a] \in Nat /\ due[a] \in Nat /\ paid[a] <= due[a]
  BY PaidIs
<1>3. SumOf(paid, Payees) <= SumOf(due, Payees)
  <2>1. Counts(paid, Payees) /\ Counts(due, Payees)
    BY <1>2 DEF Counts
  <2> HIDE DEF paid, due
  <2>2. QED
    BY <1>1, <1>2, <2>1, SumIsMonotone
<1>4. SumOf(due, Payees) = SumOf(share, served)
  <2>1. \A a \in Payees : due[a] = SumOf(share, Group(Workspaces, wallets, a))
    OBVIOUS
  <2> HIDE DEF due, share
  <2>2. QED
    BY <1>1, <2>1, SumByGroup
<1>5. SumOf(share, served) <= SumOf(share, Workspaces)
  <2>1. served \subseteq Workspaces
    BY DEF Groups
  <2> HIDE DEF served, share
  <2>2. QED
    BY <1>1, <2>1, SumOfPart
<1>6. SumOf(share, Workspaces) <= SumOf(Parts(layer, units), Workspaces)
  <2>1. /\ Counts(Parts(layer, units), Workspaces)
        /\ \A w \in Workspaces : share[w] <= Parts(layer, units)[w]
    BY PricedNaturals DEF Counts
  <2> HIDE DEF share
  <2>2. QED
    BY <1>1, <2>1, SumIsMonotone
<1>7. SumOf(Parts(layer, units), Workspaces) <= Pool(layer, units)
  BY PartsFit
<1>8. /\ SumOf(paid, Payees) \in Nat /\ SumOf(share, served) \in Nat
      /\ SumOf(share, Workspaces) \in Nat
      /\ SumOf(Parts(layer, units), Workspaces) \in Nat /\ Pool(layer, units) \in Nat
  <2>1. Counts(paid, Payees)
    BY <1>2 DEF Counts
  <2>2. IsFiniteSet(served) /\ Counts(share, served)
    BY <1>1, FS_Subset DEF Counts, Groups
  <2>3. Counts(Parts(layer, units), Workspaces)
    BY PricedNaturals DEF Counts
  <2> HIDE DEF served, share, paid
  <2>4. QED
    BY <1>1, <2>1, <2>2, <2>3, SumIsNat, PricedNaturals
<1>9. Distributed(p) = SumOf(paid, Payees)
  BY DEF Distributed, Added
<1> HIDE DEF served, share, paid, due
<1>10. SumOf(paid, Payees) <= Pool(layer, units)
  BY <1>3, <1>4, <1>5, <1>6, <1>7, <1>8
<1>11. p.pool = Pool(layer, units)
  BY Priced
<1>12. QED
  BY <1>9, <1>10, <1>11

LEMMA WithinTheDay ==
  ASSUME NEW layer \in Layer, UsableConfig(layer), NEW units \in [Workspaces -> Nat]
  PROVE  PeriodsBegunInADay(layer) * Pool(layer, units) <= layer.ceiling
<1>1. PICK m \in Nat \ {0} : m = layer.minutes /\ MinutesPerDay % m = 0
  BY DEF UsableConfig, Layer
<1>2. PICK k \in Nat \ {0} : k = MinutesPerDay \div m
  BY <1>1, NothingLeft, PricingAssumption
<1>3. PeriodsBegunInADay(layer) = k
  BY <1>1, <1>2, PeriodsOfADay DEF PeriodsBegunInADay
<1>4. PICK c \in Nat : c = layer.ceiling
  BY DEF Layer
<1>5. PICK q \in Nat : q = c \div k /\ k * q <= c
  BY <1>2, FloorBounds
<1>6. PICK pool \in Nat : pool = Pool(layer, units) /\ pool <= q
  BY <1>1, <1>2, <1>4, <1>5, PricedNaturals DEF CeilingPerPeriod
<1>7. k * pool <= k * q /\ k * pool \in Nat /\ k * q \in Nat
  BY <1>6
<1>8. k * pool <= c
  BY <1>5, <1>7
<1>9. QED
  BY <1>3, <1>4, <1>6, <1>8

LEMMA WithinTheCap ==
  ASSUME NEW layer \in Layer, UsableConfig(layer), NEW units \in [Workspaces -> Nat],
         NEW wallets, NEW p, p = PriceLayer(layer, units, wallets), p.contested, NEW a
  PROVE  BasisPoints * Paid(p, a) <= layer.cap * p.pool
<1>1. PICK pool \in Nat : pool = p.pool /\ pool = Pool(layer, units)
  BY Priced, PricedNaturals
<1>2. PICK c \in Nat : c = layer.cap
  BY DEF Layer
<1>3. PICK n \in Nat : n = pool * c /\ n = c * pool
  OBVIOUS
<1>4. PICK b \in Nat \ {0} : b = BasisPoints
  BY PricingAssumption
<1>5. PICK q \in Nat : q = n \div b /\ b * q <= n
  BY FloorBounds
<1>6. Top(layer, units) = q
  <2>1. AtRate(layer, units) > Pool(layer, units)
    BY Priced
  <2>2. QED
    BY <1>1, <1>2, <1>3, <1>4, <1>5, <2>1 DEF Top, CapFor, Cap
<1>7. PICK x \in Nat : x = Paid(p, a) /\ x <= q
  BY <1>6, PaidIs
<1>8. b * x <= b * q /\ b * x \in Nat /\ b * q \in Nat
  BY <1>7
<1>9. b * x <= n
  BY <1>5, <1>8
<1>10. QED
  BY <1>1, <1>2, <1>3, <1>4, <1>7, <1>9

LEMMA PoolsAreCeilings == PoolIsACeiling
<1> SUFFICES ASSUME NEW layer \in Layers, NEW units \in Units, NEW wallets \in Tried,
                    NEW p, p = PriceLayer(layer, units, wallets)
             PROVE  /\ Distributed(p) <= p.pool
                    /\ PeriodsBegunInADay(layer) * p.pool <= layer.ceiling
                    /\ p.contested =>
                         \A a \in Payees : BasisPoints * Paid(p, a) <= layer.cap * p.pool
  BY DEF PoolIsACeiling
<1>1. layer \in Layer /\ UsableConfig(layer) /\ units \in [Workspaces -> Nat]
  BY LayersAreUsable, UnitsCount
<1>2. Distributed(p) <= p.pool
  BY <1>1, WithinThePool
<1>3. PeriodsBegunInADay(layer) * p.pool <= layer.ceiling
  BY <1>1, WithinTheDay, Priced
<1>4. p.contested => \A a \in Payees : BasisPoints * Paid(p, a) <= layer.cap * p.pool
  BY <1>1, WithinTheCap
<1>5. QED
  BY <1>2, <1>3, <1>4

(***************************************************************************)
(* The denominator.                                                        *)
(***************************************************************************)
LEMMA NobodyElseMoves == OthersDoNotMove
<1> SUFFICES ASSUME NEW layer \in Layers, NEW units \in Units, NEW wallets \in Tried,
                    NEW w \in Workspaces, wallets[w] \in Reasons, NEW a \in Payees,
                    NEW before, before = PriceLayer(layer, units, wallets),
                    NEW then, then = [wallets EXCEPT ![w] = a],
                    NEW after, after = PriceLayer(layer, units, then),
                    NEW b \in Payees
             PROVE  IF b = a THEN Paid(after, b) >= Paid(before, b)
                    ELSE Paid(after, b) = Paid(before, b)
  BY DEF OthersDoNotMove
<1> DEFINE share == Shares(layer, units)
           was == Group(Workspaces, wallets, b)
           is == Group(Workspaces, then, b)
<1>1. layer \in Layer /\ UsableConfig(layer) /\ units \in [Workspaces -> Nat]
  BY LayersAreUsable, UnitsCount
<1>2. wallets[w] # b
  BY ReasonsAreNoAddresses
<1>3. was \subseteq is /\ (b # a => is = was)
  BY <1>2 DEF Tried, Group
<1>4. IsFiniteSet(is) /\ Counts(share, is)
  BY <1>1, FS_Subset, PricingAssumption, PricedNaturals DEF Counts, Group
<1>5. PICK top \in Nat : top = Top(layer, units)
  BY <1>1, PricedNaturals
<1>6. PICK x \in Nat : x = SumOf(share, was) /\ Paid(before, b) = Lesser(x, top)
  <2>1. SumOf(share, was) \in Nat /\ Paid(before, b) = Lesser(SumOf(share, was), top)
    BY <1>1, <1>5, PaidIs
  <2>2. QED
    BY <2>1
<1>7. PICK y \in Nat : y = SumOf(share, is) /\ Paid(after, b) = Lesser(y, top)
  <2>1. SumOf(share, is) \in Nat /\ Paid(after, b) = Lesser(SumOf(share, is), top)
    BY <1>1, <1>5, PaidIs
  <2>2. QED
    BY <2>1
<1> HIDE DEF share, was, is
<1>8. x <= y
  BY <1>3, <1>4, <1>6, <1>7, SumOfPart
<1>9. b # a => x = y
  BY <1>3, <1>6, <1>7
<1>10. QED
  BY <1>6, <1>7, <1>8, <1>9 DEF Lesser

(***************************************************************************)
(* The rate.                                                               *)
(***************************************************************************)
LEMMA QuietShares ==
  ASSUME NEW layer \in Layer, UsableConfig(layer), NEW units \in [Workspaces -> Nat],
         ~(AtRate(layer, units) > Pool(layer, units))
  PROVE  /\ Top(layer, units) = AtRate(layer, units)
         /\ \A w \in Workspaces : Shares(layer, units)[w] = layer.rate * units[w]
<1>1. PICK total \in Nat : total = SumOf(units, Workspaces)
  BY PricedNaturals
<1>2. PICK rate \in Nat : rate = layer.rate
  BY DEF Layer
<1>3. PICK pool \in Nat : pool = rate * total /\ pool = total * rate
  BY <1>1, <1>2
<1>4. AtRate(layer, units) = pool
  BY <1>1, <1>2, <1>3 DEF AtRate
<1>5. Pool(layer, units) = pool
  BY <1>3, <1>4, PricedNaturals
<1>6. Top(layer, units) = pool
  BY <1>4, <1>5 DEF Top, CapFor
<1>7. ASSUME NEW w \in Workspaces
      PROVE  Shares(layer, units)[w] = rate * units[w]
  <2>1. PICK u \in Nat : u = units[w] /\ u <= total
    BY <1>1, PricedNaturals
  <2>2. PICK n \in Nat : n = rate * u /\ n <= pool
    <3>1. rate * u \in Nat /\ rate * u <= rate * total
      BY <2>1
    <3>2. QED
      BY <1>3, <3>1
  <2>3. ProRata(pool, u, total) = n
    <3>1. CASE u = 0
      BY <2>2, <3>1 DEF ProRata
    <3>2. CASE u # 0
      <4>1. total \in Nat \ {0}
        BY <2>1, <3>2
      <4>2. pool * u = n * total
        BY <1>3, <2>2
      <4>3. QED
        BY <3>2, <4>1, <4>2, Exact DEF ProRata
    <3>3. QED
      BY <3>1, <3>2
  <2>4. Parts(layer, units)[w] = n
    BY <1>1, <1>5, <2>1, <2>3 DEF Parts
  <2>5. Shares(layer, units)[w] = n
    BY <1>6, <2>2, <2>4 DEF Shares, Lesser
  <2>6. QED
    BY <2>1, <2>2, <2>5
<1>8. QED
  BY <1>2, <1>4, <1>6, <1>7

\* An address is paid the rate for what its workspaces earned, all of it.
LEMMA QuietLayerPays ==
  ASSUME NEW layer \in Layer, UsableConfig(layer), NEW units \in [Workspaces -> Nat],
         NEW wallets, NEW p, p = PriceLayer(layer, units, wallets), ~p.contested, NEW a
  PROVE  Paid(p, a) = layer.rate * SumOf(units, Group(Workspaces, wallets, a))
<1> DEFINE mine == Group(Workspaces, wallets, a)
<1>1. ~(AtRate(layer, units) > Pool(layer, units))
  BY Priced
<1>2. PICK rate \in Nat : rate = layer.rate
  BY DEF Layer
<1>3. /\ IsFiniteSet(Workspaces) /\ Counts(units, Workspaces)
      /\ mine \subseteq Workspaces /\ IsFiniteSet(mine) /\ Counts(units, mine)
  BY PricingAssumption, FS_Subset DEF Counts, Group
<1>4. \A w \in mine : Shares(layer, units)[w] = rate * units[w]
  BY <1>1, <1>2, <1>3, QuietShares
<1> HIDE DEF mine
<1>5. PICK sum \in Nat : sum = SumOf(units, mine)
  BY <1>3, SumIsNat
<1>6. PICK total \in Nat : total = SumOf(units, Workspaces) /\ sum <= total
  BY <1>3, <1>5, SumOfPart, PricedNaturals
<1>7. SumOf(Shares(layer, units), mine) = rate * sum
  BY <1>2, <1>3, <1>4, <1>5, SumScales
<1>8. Top(layer, units) = total * rate
  BY <1>1, <1>2, <1>6, QuietShares DEF AtRate
<1>9. rate * sum \in Nat /\ total * rate \in Nat /\ rate * sum <= total * rate
  BY <1>6
<1>10. Paid(p, a) = Lesser(SumOf(Shares(layer, units), mine), Top(layer, units))
  BY PaidIs DEF mine
<1>11. Paid(p, a) = rate * sum
  BY <1>7, <1>8, <1>9, <1>10 DEF Lesser
<1>12. QED
  BY <1>2, <1>5, <1>11 DEF mine

\* What entries add up to, each counted with its number of units.
Worth(entries) == [r \in entries |-> r.units]
RowsFor(entries, wallets, a) == {r \in entries : wallets[r.workspace] = a}

LEMMA SumByWorkspace ==
  ASSUME NEW entries, IsFiniteSet(entries),
         \A r \in entries : r.workspace \in Workspaces /\ r.units \in Nat,
         NEW wallets, NEW a
  PROVE  /\ UnitsOf(entries) \in [Workspaces -> Nat]
         /\ SumOf(UnitsOf(entries), Group(Workspaces, wallets, a)) = Earned(entries, wallets, a)
         /\ Earned(entries, wallets, a) \in Nat
         /\ Earned(entries, wallets, a) = SumOf(Worth(entries), RowsFor(entries, wallets, a))
<1> DEFINE f == Worth(entries)
           key == [r \in entries |-> r.workspace]
           A == Group(Workspaces, wallets, a)
           of == RowsFor(entries, wallets, a)
           g == [r \in of |-> r.units]
<1>1. Counts(f, entries)
  BY DEF Counts, Worth
<1>2. \A w \in Workspaces : UnitsOf(entries)[w] = SumOf(f, Group(entries, key, w)) /\ UnitsOf(entries)[w] \in Nat
  <2> SUFFICES ASSUME NEW w \in Workspaces
               PROVE  UnitsOf(entries)[w] = SumOf(f, Group(entries, key, w)) /\ UnitsOf(entries)[w] \in Nat
    OBVIOUS
  <2> DEFINE s == {q \in entries : q.workspace = w}
             e == [r \in s |-> r.units]
  <2>1. UnitsOf(entries)[w] = SumOf(e, s)
    BY DEF UnitsOf, Added
  <2>2. IsFiniteSet(s) /\ Counts(e, s) /\ \A r \in s : e[r] = f[r]
    BY FS_Subset DEF Counts, Worth
  <2>3. s = Group(entries, key, w)
    BY DEF Group
  <2> HIDE DEF s, e, f
  <2>4. SumOf(e, s) = SumOf(f, s) /\ SumOf(e, s) \in Nat
    BY <2>2, SumAlike, SumIsNat
  <2>5. QED
    BY <2>1, <2>3, <2>4
<1>3. UnitsOf(entries) \in [Workspaces -> Nat]
  BY <1>2 DEF UnitsOf
<1>4. IsFiniteSet(A) /\ A \subseteq Workspaces
  BY PricingAssumption, FS_Subset DEF Group
<1>5. Groups(entries, key, A) = of
  BY DEF Group, Groups, RowsFor
<1>6. \A w \in A : UnitsOf(entries)[w] = SumOf(f, Group(entries, key, w))
  BY <1>2, <1>4
<1>7. SumOf(UnitsOf(entries), A) = SumOf(f, Groups(entries, key, A))
  <2> HIDE DEF f, key, A
  <2>1. QED
    BY <1>1, <1>4, <1>6, SumByGroup
<1>8. IsFiniteSet(of) /\ Counts(g, of) /\ \A r \in of : g[r] = f[r]
  BY FS_Subset DEF Counts, Worth, RowsFor
<1>9. Earned(entries, wallets, a) = SumOf(g, of)
  BY DEF Earned, Added, RowsFor
<1> HIDE DEF f, of, g, key, A
<1>10. SumOf(g, of) = SumOf(f, of) /\ SumOf(g, of) \in Nat
  BY <1>8, SumAlike, SumIsNat
<1>11. SumOf(UnitsOf(entries), A) = SumOf(f, of)
  BY <1>5, <1>7
<1>12. QED
  BY <1>3, <1>9, <1>10, <1>11 DEF A, f, of

\* What two windows that meet hold is what they hold together.
LEMMA TwoWindows ==
  ASSUME NEW entries, IsFiniteSet(entries),
         \A r \in entries : r.workspace \in Workspaces /\ r.units \in Nat,
         NEW R, NEW T, R \cup T = entries, R \cap T = {}, NEW wallets, NEW a
  PROVE  Earned(entries, wallets, a) = Earned(R, wallets, a) + Earned(T, wallets, a)
<1> DEFINE of(s) == RowsFor(s, wallets, a)
           x == of(R)
           y == of(T)
<1>1. /\ IsFiniteSet(R) /\ IsFiniteSet(T) /\ IsFiniteSet(x) /\ IsFiniteSet(y)
  <2>1. IsFiniteSet(R) /\ IsFiniteSet(T)
    BY FS_Subset
  <2>2. QED
    BY <2>1, FS_Subset DEF RowsFor
<1>2. x \cup y = of(entries) /\ x \cap y = {}
  BY DEF RowsFor
<1>3. Earned(entries, wallets, a) = SumOf(Worth(entries), of(entries))
  BY SumByWorkspace
<1>4. Earned(R, wallets, a) = SumOf(Worth(R), x) /\ Earned(R, wallets, a) \in Nat
  BY <1>1, SumByWorkspace
<1>5. Earned(T, wallets, a) = SumOf(Worth(T), y) /\ Earned(T, wallets, a) \in Nat
  BY <1>1, SumByWorkspace
<1>6. /\ Counts(Worth(entries), x \cup y) /\ Counts(Worth(entries), x) /\ Counts(Worth(entries), y)
      /\ \A r \in x : Worth(entries)[r] = Worth(R)[r]
      /\ \A r \in y : Worth(entries)[r] = Worth(T)[r]
  BY DEF Counts, Worth, RowsFor
<1> HIDE DEF x, y
<1>7. SumOf(Worth(entries), x \cup y) = SumOf(Worth(entries), x) + SumOf(Worth(entries), y)
  BY <1>1, <1>2, <1>6, SumSplits
<1>8. SumOf(Worth(entries), x) = SumOf(Worth(R), x) /\ SumOf(Worth(entries), y) = SumOf(Worth(T), y)
  BY <1>1, <1>6, SumAlike
<1>9. Earned(entries, wallets, a) = SumOf(Worth(entries), x \cup y)
  BY <1>2, <1>3
<1>10. QED
  BY <1>4, <1>5, <1>7, <1>8, <1>9

\* What is zero may be left out of a sum.
LEMMA ZerosAreLeftOut ==
  ASSUME NEW f, NEW S, NEW T, IsFiniteSet(S), Counts(f, S), T \subseteq S,
         \A x \in S \ T : f[x] = 0
  PROVE  SumOf(f, T) = SumOf(f, S)
<1> DEFINE R == S \ T
<1>1. IsFiniteSet(T) /\ IsFiniteSet(R) /\ Counts(f, T) /\ Counts(f, R) /\ Counts(f, T \cup R)
  BY FS_Subset DEF Counts
<1>2. T \cup R = S /\ T \cap R = {} /\ \A x \in R : f[x] = 0 * f[x]
  BY DEF Counts
<1> HIDE DEF R
<1>3. SumOf(f, T) \in Nat /\ SumOf(f, R) \in Nat
  BY <1>1, SumIsNat
<1>4. SumOf(f, T \cup R) = SumOf(f, T) + SumOf(f, R)
  BY <1>1, <1>2, SumSplits
<1>5. SumOf(f, R) = 0
  <2>1. SumOf(f, R) = 0 * SumOf(f, R)
    BY <1>1, <1>2, SumScales
  <2>2. QED
    BY <1>3, <2>1
<1>6. SumOf(f, S) = SumOf(f, T) + SumOf(f, R)
  BY <1>2, <1>4, Zenon
<1>7. QED
  BY <1>3, <1>5, <1>6

LEMMA FewAreFinite == IsFiniteSet({0, 1, 2}) /\ IsFiniteSet({1, 2})
<1>1. \A a, b \in Int : IsFiniteSet(a..b)
  BY FS_Interval
<1>2. PICK a \in Int, b \in Int, c \in Int : a = 0 /\ b = 1 /\ c = 2
  OBVIOUS
<1>3. {0, 1, 2} = a..c /\ {1, 2} = b..c
  BY <1>2
<1>4. QED
  BY <1>1, <1>3, Zenon

LEMMA SumOfThree ==
  ASSUME NEW f, f[0] \in Nat, f[1] \in Nat, f[2] \in Nat
  PROVE  SumOf(f, {0, 1, 2}) = f[0] + f[1] + f[2]
<1>1. Counts(f, {0, 1, 2}) /\ Counts(f, {1, 2})
  BY DEF Counts
<1>2. IsFiniteSet({0, 1, 2}) /\ IsFiniteSet({1, 2})
  BY FewAreFinite
<1>3. SumOf(f, {0, 1, 2}) = f[0] + SumOf(f, {0, 1, 2} \ {0})
  BY <1>1, <1>2, SumTakes
<1>4. SumOf(f, {1, 2}) = f[1] + SumOf(f, {1, 2} \ {1})
  BY <1>1, <1>2, SumTakes
<1>5. {0, 1, 2} \ {0} = {1, 2} /\ {1, 2} \ {1} = {2}
  OBVIOUS
<1>6. SumOf(f, {2}) = f[2]
  BY SumOfOne
<1>7. QED
  BY <1>3, <1>4, <1>5, <1>6


Countable(entries) ==
  IsFiniteSet(entries) /\ \A r \in entries : r.workspace \in Workspaces /\ r.units \in Nat
Halves(entries, R, T) == R \cup T = entries /\ R \cap T = {}

\* Two quiet periods in a row pay the rate for what both hold.
LEMMA TwoPeriodsPay ==
  ASSUME NEW layer \in Layer, UsableConfig(layer), NEW wallets, NEW a,
         NEW entries, Countable(entries), NEW R, NEW T, Halves(entries, R, T),
         NEW p, p = PriceLayer(layer, UnitsOf(R), wallets), ~p.contested,
         NEW q, q = PriceLayer(layer, UnitsOf(T), wallets), ~q.contested
  PROVE  /\ Paid(p, a) \in Nat /\ Paid(q, a) \in Nat
         /\ Paid(p, a) + Paid(q, a) = layer.rate * Earned(entries, wallets, a)
<1> USE DEF Countable, Halves
<1>1. PICK rate \in Nat : rate = layer.rate
  BY DEF Layer
<1>2. IsFiniteSet(R) /\ IsFiniteSet(T)
  BY FS_Subset
<1>3. UnitsOf(R) \in [Workspaces -> Nat] /\ UnitsOf(T) \in [Workspaces -> Nat]
  BY <1>2, SumByWorkspace
<1>4. PICK x \in Nat : x = Earned(R, wallets, a)
  BY <1>2, SumByWorkspace
<1>5. PICK y \in Nat : y = Earned(T, wallets, a)
  BY <1>2, SumByWorkspace
<1>6. Paid(p, a) = rate * x
  <2>1. Paid(p, a) = rate * SumOf(UnitsOf(R), Group(Workspaces, wallets, a))
    BY <1>1, <1>3, QuietLayerPays
  <2>2. SumOf(UnitsOf(R), Group(Workspaces, wallets, a)) = x
    BY <1>2, <1>4, SumByWorkspace
  <2>3. QED
    BY <2>1, <2>2
<1>7. Paid(q, a) = rate * y
  <2>1. Paid(q, a) = rate * SumOf(UnitsOf(T), Group(Workspaces, wallets, a))
    BY <1>1, <1>3, QuietLayerPays
  <2>2. SumOf(UnitsOf(T), Group(Workspaces, wallets, a)) = y
    BY <1>2, <1>5, SumByWorkspace
  <2>3. QED
    BY <2>1, <2>2
<1>8. Earned(entries, wallets, a) = x + y
  BY <1>4, <1>5, TwoWindows
<1>9. rate * (x + y) = rate * x + rate * y /\ rate * x \in Nat /\ rate * y \in Nat
  BY Spreads
<1>10. QED
  BY <1>1, <1>6, <1>7, <1>8, <1>9

\* The console adds up a first row from before there were two layers and those
\* of two periods; a period that paid nothing has no row, and adds nothing.
Console(x, y) ==
  [i \in {j \in 1..2 : x[j] + y[j] > 0} \cup {0} |->
     IF i = 0 THEN Before ELSE [amount |-> x[i] + y[i], spend |-> x[i], memory |-> y[i]]]

LEMMA ConsoleAddsUp ==
  ASSUME NEW x \in [1..2 -> Nat], NEW y \in [1..2 -> Nat]
  PROVE  /\ AccrualsFor(Console(x, y)).spend = 1 + (x[1] + x[2])
         /\ AccrualsFor(Console(x, y)).memory = y[1] + y[2]
         /\ AccrualsFor(Console(x, y)).cumulative = (1 + (x[1] + x[2])) + (y[1] + y[2])
<1> SUFFICES
      ASSUME NEW periods, periods = {j \in 1..2 : x[j] + y[j] > 0},
             NEW entries, entries = [i \in periods \cup {0} |->
                                 IF i = 0 THEN Before
                                 ELSE [amount |-> x[i] + y[i], spend |-> x[i], memory |-> y[i]]]
      PROVE  /\ AccrualsFor(entries).spend = 1 + (x[1] + x[2])
             /\ AccrualsFor(entries).memory = y[1] + y[2]
             /\ AccrualsFor(entries).cumulative = (1 + (x[1] + x[2])) + (y[1] + y[2])
  BY Zenon DEF Console
<1> DEFINE D == periods \cup {0}
           All == {0, 1, 2}
           f == [i \in D |-> entries[i].amount]
           g == [i \in D |-> SplitOf(entries[i]).spend]
           h == [i \in D |-> SplitOf(entries[i]).memory]
           F == [i \in All |-> IF i = 0 THEN 1 ELSE x[i] + y[i]]
           G == [i \in All |-> IF i = 0 THEN 1 ELSE x[i]]
           H == [i \in All |-> IF i = 0 THEN 0 ELSE y[i]]
<1>1. DOMAIN entries = D /\ D \subseteq All
  OBVIOUS
<1>2. IsFiniteSet(All) /\ IsFiniteSet(D)
  <2>1. IsFiniteSet(All)
    BY FewAreFinite
  <2>2. QED
    BY <1>1, <2>1, FS_Subset
<1>3. \A i \in All : F[i] \in Nat /\ G[i] \in Nat /\ H[i] \in Nat
  OBVIOUS
<1>4. \A i \in D : f[i] = F[i] /\ g[i] = G[i] /\ h[i] = H[i]
  <2> SUFFICES ASSUME NEW i \in D
               PROVE  /\ entries[i].amount = F[i]
                      /\ SplitOf(entries[i]).spend = G[i] /\ SplitOf(entries[i]).memory = H[i]
    OBVIOUS
  <2>1. CASE i = 0
    <3>1. entries[i] = Before
      BY <2>1
    <3>2. SplitOf(Before) = [amount |-> 1, spend |-> 1, memory |-> 0]
      BY DEF SplitOf, Before
    <3>3. QED
      BY <2>1, <3>1, <3>2 DEF Before
  <2>2. CASE i # 0
    <3>1. i \in 1..2 /\ x[i] + y[i] > 0 /\ x[i] \in Nat /\ y[i] \in Nat
      BY <2>2
    <3>2. entries[i] = [amount |-> x[i] + y[i], spend |-> x[i], memory |-> y[i]]
      BY <2>2
    <3>3. SplitOf(entries[i]) = entries[i]
      BY <3>1, <3>2 DEF SplitOf
    <3>4. QED
      BY <2>2, <3>1, <3>2, <3>3
  <2>3. QED
    BY <2>1, <2>2
<1>5. \A i \in All \ D : F[i] = 0 /\ G[i] = 0 /\ H[i] = 0
  <2> SUFFICES ASSUME NEW i \in All \ D PROVE F[i] = 0 /\ G[i] = 0 /\ H[i] = 0
    OBVIOUS
  <2>1. i \in 1..2 /\ ~(x[i] + y[i] > 0) /\ x[i] \in Nat /\ y[i] \in Nat
    OBVIOUS
  <2>2. QED
    BY <2>1
<1>6. /\ Counts(f, D) /\ Counts(g, D) /\ Counts(h, D)
      /\ Counts(F, All) /\ Counts(G, All) /\ Counts(H, All)
  <2> HIDE DEF f, g, h, F, G, H, D, All
  <2>1. QED
    BY <1>1, <1>3, <1>4 DEF Counts
<1>7. F[0] = 1 /\ F[1] = x[1] + y[1] /\ F[2] = x[2] + y[2]
  OBVIOUS
<1>8. G[0] = 1 /\ G[1] = x[1] /\ G[2] = x[2] /\ H[0] = 0 /\ H[1] = y[1] /\ H[2] = y[2]
  OBVIOUS
<1>9. /\ AccrualsFor(entries).cumulative = SumOf(f, D)
      /\ AccrualsFor(entries).spend = SumOf(g, D)
      /\ AccrualsFor(entries).memory = SumOf(h, D)
  BY <1>1 DEF AccrualsFor, Added
<1> HIDE DEF f, g, h, F, G, H, D
<1>10. SumOf(f, D) = SumOf(F, D) /\ SumOf(g, D) = SumOf(G, D) /\ SumOf(h, D) = SumOf(H, D)
  BY <1>2, <1>4, <1>6, SumAlike
<1>11. /\ SumOf(F, D) = SumOf(F, All) /\ SumOf(G, D) = SumOf(G, All)
       /\ SumOf(H, D) = SumOf(H, All)
  <2> HIDE DEF All
  <2>1. QED
    BY <1>1, <1>2, <1>5, <1>6, ZerosAreLeftOut
<1>12. /\ SumOf(F, All) = F[0] + F[1] + F[2] /\ SumOf(G, All) = G[0] + G[1] + G[2]
       /\ SumOf(H, All) = H[0] + H[1] + H[2]
  BY <1>3, SumOfThree
<1>13. x[1] \in Nat /\ x[2] \in Nat /\ y[1] \in Nat /\ y[2] \in Nat
  OBVIOUS
<1>14. SumOf(F, All) = (1 + (x[1] + x[2])) + (y[1] + y[2])
  BY <1>7, <1>12, <1>13
<1>15. SumOf(G, All) = 1 + (x[1] + x[2]) /\ SumOf(H, All) = y[1] + y[2]
  BY <1>8, <1>12, <1>13
<1>16. QED
  BY <1>9, <1>10, <1>11, <1>14, <1>15


\* Rows of the two windows, as many as there may be.
Dated(entries) ==
  IsFiniteSet(entries) /\ \A r \in entries : r.workspace \in Workspaces /\ r.units \in Nat /\ r.at \in 0..1
Confirmed(reports) == {r \in reports : r.status = "verified"}

(***************************************************************************)
(* Whatever reports and credits two periods in a row hold, as many as      *)
(* there may be, an address is paid the rate for every confirmed row and   *)
(* every credit of its workspaces while no ceiling binds, to the unit, and *)
(* the console shows it layer by layer and together (priceLayer,           *)
(* accrueWindow, accrualsFor).                                             *)
(***************************************************************************)
THEOREM AnyQuietPeriodsPay ==
  ASSUME NEW layer \in Layer, UsableConfig(layer), NEW wallets, NEW a \in Payees,
         NEW reports, Dated(reports), NEW credits, Dated(credits),
         NEW spend, spend = SpendOf(layer, reports, wallets),
         NEW memory, memory = MemoryOf(layer, credits, wallets), Quiet(spend, memory)
  PROVE  LET shown == AccrualsFor(RowsOf(spend, memory, a))
         IN  /\ shown.spend = 1 + layer.rate * Earned(Confirmed(reports), wallets, a)
             /\ shown.memory = layer.rate * Earned(credits, wallets, a)
             /\ shown.cumulative = shown.spend + shown.memory
<1> DEFINE verified == Confirmed(reports)
           shown == AccrualsFor(RowsOf(spend, memory, a))
<1> DEFINE V0 == {r \in reports : r.status = "verified" /\ 0 <= r.at /\ r.at < 1}
           V1 == {r \in reports : r.status = "verified" /\ 1 <= r.at /\ r.at < 2}
           C0 == {r \in credits : 0 <= r.at /\ r.at < 1}
           C1 == {r \in credits : 1 <= r.at /\ r.at < 2}
<1>4. IsFiniteSet(verified)
  BY FS_Subset DEF Dated, Confirmed
<1>5. Countable(verified) /\ Halves(verified, V0, V1)
  BY <1>4 DEF Countable, Halves, Dated, Confirmed
<1>6. Countable(credits) /\ Halves(credits, C0, C1)
  BY DEF Countable, Halves, Dated
<1> DEFINE s1 == PriceLayer(layer, UnitsOf(V0), wallets)
           s2 == PriceLayer(layer, UnitsOf(V1), wallets)
           m1 == PriceLayer(layer, UnitsOf(C0), wallets)
           m2 == PriceLayer(layer, UnitsOf(C1), wallets)
<1>7. 1 - 1 = 0 /\ 2 - 1 = 1 /\ 1 \in 1..2 /\ 2 \in 1..2
  OBVIOUS
<1>8. spend[1] = s1 /\ spend[2] = s2 /\ memory[1] = m1 /\ memory[2] = m2
  <2>1. /\ spend[1] = PriceLayer(layer, SpendInWindow(reports, 1 - 1, 1), wallets)
        /\ spend[2] = PriceLayer(layer, SpendInWindow(reports, 2 - 1, 2), wallets)
        /\ memory[1] = PriceLayer(layer, CreditsInWindow(credits, 1 - 1, 1), wallets)
        /\ memory[2] = PriceLayer(layer, CreditsInWindow(credits, 2 - 1, 2), wallets)
    BY <1>7, Zenon DEF SpendOf, MemoryOf
  <2>2. /\ spend[1] = PriceLayer(layer, SpendInWindow(reports, 0, 1), wallets)
        /\ spend[2] = PriceLayer(layer, SpendInWindow(reports, 1, 2), wallets)
        /\ memory[1] = PriceLayer(layer, CreditsInWindow(credits, 0, 1), wallets)
        /\ memory[2] = PriceLayer(layer, CreditsInWindow(credits, 1, 2), wallets)
    BY <1>7, <2>1, Zenon
  <2>3. QED
    BY <2>2, Zenon DEF SpendInWindow, CreditsInWindow
<1> HIDE DEF V0, V1, C0, C1, verified
<1>9. ~s1.contested /\ ~s2.contested /\ ~m1.contested /\ ~m2.contested
  BY <1>7, <1>8, Zenon DEF Quiet
<1>10. /\ Paid(s1, a) \in Nat /\ Paid(s2, a) \in Nat
       /\ Paid(s1, a) + Paid(s2, a) = layer.rate * Earned(verified, wallets, a)
  BY <1>5, <1>9, TwoPeriodsPay
<1>11. /\ Paid(m1, a) \in Nat /\ Paid(m2, a) \in Nat
       /\ Paid(m1, a) + Paid(m2, a) = layer.rate * Earned(credits, wallets, a)
  BY <1>6, <1>9, TwoPeriodsPay
<1> HIDE DEF s1, s2, m1, m2
<1> DEFINE x == [i \in 1..2 |-> Paid(spend[i], a)]
           y == [i \in 1..2 |-> Paid(memory[i], a)]
<1>12. /\ x[1] = Paid(s1, a) /\ x[2] = Paid(s2, a) /\ y[1] = Paid(m1, a) /\ y[2] = Paid(m2, a)
  BY <1>8
<1>13. x \in [1..2 -> Nat] /\ y \in [1..2 -> Nat]
  <2> SUFFICES ASSUME NEW i \in 1..2 PROVE Paid(spend[i], a) \in Nat /\ Paid(memory[i], a) \in Nat
    OBVIOUS
  <2>1. i = 1 \/ i = 2
    OBVIOUS
  <2>2. QED
    BY <1>8, <1>10, <1>11, <2>1
<1>14. \A i \in 1..2 :
         /\ (a \in DOMAIN Amounts(spend[i], memory[i])) <=> x[i] + y[i] > 0
         /\ a \in DOMAIN Amounts(spend[i], memory[i]) =>
              Amounts(spend[i], memory[i])[a] =
                [amount |-> x[i] + y[i], spend |-> x[i], memory |-> y[i]]
  BY DEF Amounts
<1> HIDE DEF x, y
<1>15. RowsOf(spend, memory, a) = Console(x, y)
  BY ONLY <1>14 DEF RowsOf, Console
<1>16. /\ shown.spend = 1 + (x[1] + x[2])
       /\ shown.memory = y[1] + y[2]
       /\ shown.cumulative = (1 + (x[1] + x[2])) + (y[1] + y[2])
  BY <1>13, <1>15, ConsoleAddsUp
<1> HIDE DEF shown
<1>17. /\ shown.spend = 1 + layer.rate * Earned(verified, wallets, a)
       /\ shown.memory = layer.rate * Earned(credits, wallets, a)
       /\ shown.cumulative = shown.spend + shown.memory
  BY <1>10, <1>11, <1>12, <1>16
<1>18. QED
  BY <1>17, Zenon DEF shown, verified

LEMMA QuietPeriodsPayInFull == QuietPeriodsPayTheRate
<1> USE DEF QuietPeriodsPayTheRate
<1> TAKE r1 \in Reports(1), r2 \in Reports(2), c \in Credits, wallets \in Tried, layer \in Layers
<1> DEFINE reports == {r1, r2}
           spend == SpendOf(layer, reports, wallets)
           memory == MemoryOf(layer, {c}, wallets)
<1> SUFFICES ASSUME Quiet(spend, memory), NEW a \in Payees
             PROVE  LET shown == AccrualsFor(RowsOf(spend, memory, a))
                    IN  /\ shown.spend = 1 + layer.rate * Earned(Confirmed(reports), wallets, a)
                        /\ shown.memory = layer.rate * Earned({c}, wallets, a)
                        /\ shown.cumulative = shown.spend + shown.memory
  BY Zenon DEF Confirmed
<1>1. IsFiniteSet(reports) /\ IsFiniteSet({c})
  <2>1. IsFiniteSet({r1}) /\ IsFiniteSet({c})
    BY FS_Singleton
  <2>2. IsFiniteSet({r1} \cup {r2})
    BY <2>1, FS_AddElement
  <2>3. reports = {r1} \cup {r2}
    OBVIOUS
  <2>4. QED
    BY <2>1, <2>2, <2>3, Zenon
<1>2. Dated(reports)
  BY <1>1 DEF Dated, Reports
<1>3. Dated({c})
  BY <1>1 DEF Dated, Credits
<1>4. layer \in Layer /\ UsableConfig(layer)
  BY LayersAreUsable
<1>5. spend = SpendOf(layer, reports, wallets) /\ memory = MemoryOf(layer, {c}, wallets)
  OBVIOUS
<1> HIDE DEF reports, spend, memory
<1>6. QED
  BY <1>2, <1>3, <1>4, <1>5, AnyQuietPeriodsPay

-----------------------------------------------------------------------------
\* What one has of each number that has it of all smaller ones, one has of all.
LEMMA EveryNumber ==
  ASSUME NEW G, \A n \in Nat : (\A j \in Nat : j < n => j \in G) => n \in G
  PROVE  Nat \subseteq G
<1> SUFFICES ASSUME NEW m \in Nat, m \notin G PROVE FALSE
  OBVIOUS
<1> DEFINE Out == {n \in Nat : n \notin G}
<1>1. PICK n \in Out : \A j \in Out : n <= j
  BY LeastNumber
<1>2. \A j \in Nat : j < n => j \in G
  BY <1>1
<1>3. QED
  BY <1>1, <1>2

-----------------------------------------------------------------------------
\* A pair says what it was made of, and no leaf is one.
LEMMA PairsSay ==
  ASSUME NEW a, NEW b, NEW c, NEW d, HashPair(a, b) = HashPair(c, d)
  PROVE  {a, b} = {c, d}
BY DEF HashPair

LEMMA PairsTell ==
  ASSUME NEW a, NEW b, NEW x, HashPair(a, x) = HashPair(b, x)
  PROVE  a = b
<1>1. {a, x} = {b, x}
  BY PairsSay
<1>2. QED
  BY <1>1

LEMMA PairsTurn == ASSUME NEW a, NEW b PROVE HashPair(a, b) = HashPair(b, a)
<1>1. {a, b} = {b, a}
  OBVIOUS
<1>2. QED
  BY <1>1 DEF HashPair

LEMMA LeavesTell ==
  /\ \A e, f : LeafOf(e) = LeafOf(f) => e = f
  /\ \A e, a, b : LeafOf(e) # HashPair(a, b)
BY DEF LeafOf, HashPair

-----------------------------------------------------------------------------
\* How long a sequence is.
Size(s) == Len(s)

\* A sequence, of whatever.
IsRow(s) == \E n \in Nat : s = [i \in 1..n |-> s[i]]

LEMMA RowIs ==
  ASSUME NEW s, NEW n \in Nat, s = [i \in 1..n |-> s[i]]
  PROVE  Size(s) = n /\ DOMAIN s = 1..n /\ s \in Seq({s[i] : i \in 1..n}) /\ IsRow(s)
<1> DEFINE S == {s[i] : i \in 1..n}
<1>1. DOMAIN s = 1..n /\ \A i \in 1..n : s[i] \in S
  OBVIOUS
<1>2. s \in [1..n -> S]
  BY <1>1
<1>3. s \in Seq(S)
  BY <1>2, SeqDef
<1>4. Size(s) \in Nat /\ DOMAIN s = 1..Size(s)
  BY <1>3, LenProperties DEF Size
<1>5. Size(s) = n
  BY <1>1, <1>4
<1>6. QED
  BY <1>1, <1>3, <1>5 DEF IsRow

LEMMA RowHas ==
  ASSUME NEW s, IsRow(s)
  PROVE  /\ Size(s) \in Nat /\ DOMAIN s = 1..Size(s) /\ s = [i \in 1..Size(s) |-> s[i]]
         /\ s \in Seq({s[i] : i \in 1..Size(s)})
<1>1. PICK n \in Nat : s = [i \in 1..n |-> s[i]]
  BY DEF IsRow
<1>2. QED
  BY <1>1, RowIs

-----------------------------------------------------------------------------
LEMMA Half ==
  ASSUME NEW k \in Nat, k >= 1
  PROVE  /\ (k + 1) \div 2 \in Nat /\ (k + 1) \div 2 >= 1
         /\ k > 1 => (k + 1) \div 2 < k
         /\ k = 1 => (k + 1) \div 2 = 1
OBVIOUS

\* A level is half of the one below, and an odd node more.
LEMMA AboveIs ==
  ASSUME NEW s, IsRow(s), Size(s) >= 1
  PROVE  /\ IsRow(Above(s)) /\ Size(Above(s)) = (Size(s) + 1) \div 2 /\ Size(Above(s)) >= 1
         /\ Size(s) > 1 => Size(Above(s)) < Size(s)
         /\ Size(s) = 1 => Size(Above(s)) = 1
         /\ \A i \in 1..Size(Above(s)) :
              /\ 2 * i <= Size(s) => Above(s)[i] = HashPair(s[2 * i - 1], s[2 * i])
              /\ ~(2 * i <= Size(s)) => Above(s)[i] = s[2 * i - 1]
<1>1. Size(s) \in Nat
  BY RowHas
<1> DEFINE n == (Size(s) + 1) \div 2
           t == Above(s)
<1>2. n \in Nat /\ n >= 1 /\ (Size(s) > 1 => n < Size(s)) /\ (Size(s) = 1 => n = 1)
  BY <1>1, Half
<1>3. t = [i \in 1..n |-> t[i]]
  BY DEF Above, Size
<1>4. \A i \in 1..n : t[i] = IF 2 * i <= Size(s) THEN HashPair(s[2 * i - 1], s[2 * i])
                             ELSE s[2 * i - 1]
  BY DEF Above, Size
<1> HIDE DEF t, n
<1>5. Size(t) = n /\ IsRow(t)
  BY <1>2, <1>3, RowIs
<1>6. QED
  BY <1>2, <1>4, <1>5 DEF t, n

\* The levels, built as far as one likes.
Built(leaves, n, level) ==
  level = [d \in 1..n |-> IF d = 1 THEN leaves ELSE Above(level[d - 1])]

LEMMA BuiltIs ==
  ASSUME NEW leaves, NEW n \in Nat
  PROVE  \E level : Built(leaves, n, level)
<1> DEFINE G == {m \in Nat : \E level : Built(leaves, m, level)}
<1>1. ASSUME NEW m \in Nat, \A j \in Nat : j < m => j \in G
      PROVE  m \in G
  <2>1. CASE m = 0
    <3> DEFINE level == [d \in 1..0 |-> leaves]
    <3>1. level = [d \in 1..0 |-> IF d = 1 THEN leaves ELSE Above(level[d - 1])]
      OBVIOUS
    <3>2. QED
      BY <2>1, <3>1 DEF Built
  <2>2. CASE m # 0
    <3>1. m - 1 \in Nat /\ m - 1 < m
      BY <2>2
    <3>2. PICK h : Built(leaves, m - 1, h)
      BY <1>1, <3>1
    <3> DEFINE level == [d \in 1..m |-> IF d = 1 THEN leaves ELSE Above(h[d - 1])]
    <3>3. \A d \in 1..(m - 1) : level[d] = h[d]
      BY <3>1, <3>2 DEF Built
    <3>4. \A d \in 1..m : d # 1 => level[d - 1] = h[d - 1]
      <4>1. \A d \in 1..m : d # 1 => d - 1 \in 1..(m - 1)
        BY <3>1
      <4> HIDE DEF level
      <4>2. QED
        BY <3>3, <4>1
    <3>5. level = [d \in 1..m |-> IF d = 1 THEN leaves ELSE Above(level[d - 1])]
      BY <3>4
    <3>6. QED
      BY <3>5 DEF Built
  <2>3. QED
    BY <2>1, <2>2
<1> HIDE DEF G
<1>2. Nat \subseteq G
  BY <1>1, EveryNumber
<1>3. QED
  BY <1>2 DEF G

\* What the levels of a tree are: from the leaves up to the one node that is left.
IsTree(levels, leaves) ==
  /\ IsRow(levels) /\ Size(levels) >= 1 /\ levels[1] = leaves
  /\ \A d \in 1..Size(levels) : IsRow(levels[d]) /\ Size(levels[d]) >= 1
  /\ \A d \in 1..(Size(levels) - 1) : levels[d + 1] = Above(levels[d])
  /\ Size(levels[Size(levels)]) = 1

LEMMA LevelsAre ==
  ASSUME NEW leaves, IsRow(leaves), Size(leaves) >= 1
  PROVE  IsTree(LevelsFrom(leaves), leaves)
<1>1. Size(leaves) \in Nat
  BY RowHas
<1>2. PICK n \in Nat : n = Size(leaves) /\ n >= 1
  BY <1>1
<1>3. PICK level :
        level = CHOOSE x : Built(leaves, n, x)
  OBVIOUS
<1>4. Built(leaves, n, level)
  BY <1>3, BuiltIs
<1>5. /\ level[1] = leaves /\ \A d \in 1..n : d # 1 => level[d] = Above(level[d - 1])
  BY <1>2, <1>4 DEF Built
<1> DEFINE G == {d \in Nat : d \in 1..n =>
                   /\ IsRow(level[d]) /\ Size(level[d]) >= 1
                   /\ Size(level[d]) = 1 \/ Size(level[d]) <= (n + 1) - d}
<1>6. ASSUME NEW m \in Nat, \A j \in Nat : j < m => j \in G
      PROVE  m \in G
  <2>1. CASE m = 1
    BY <1>2, <1>5, <2>1
  <2>2. CASE m \in 1..n /\ m # 1
    <3>1. m - 1 \in Nat /\ m - 1 < m /\ m - 1 \in 1..n
      BY <2>2
    <3>2. /\ IsRow(level[m - 1]) /\ Size(level[m - 1]) >= 1
          /\ Size(level[m - 1]) = 1 \/ Size(level[m - 1]) <= (n + 1) - (m - 1)
      BY <1>6, <3>1
    <3>3. level[m] = Above(level[m - 1])
      BY <1>5, <2>2
    <3>4. Size(level[m - 1]) \in Nat /\ Size(level[m]) \in Nat
      BY <3>2, <3>3, AboveIs, RowHas
    <3>5. /\ Size(level[m - 1]) = 1 => Size(level[m]) = 1
          /\ Size(level[m - 1]) > 1 => Size(level[m]) < Size(level[m - 1])
          /\ IsRow(level[m]) /\ Size(level[m]) >= 1
      BY <3>2, <3>3, AboveIs
    <3>6. Size(level[m]) = 1 \/ Size(level[m]) <= (n + 1) - m
      <4> SUFFICES ASSUME NEW k \in Nat, k = Size(level[m - 1]), NEW l \in Nat, l = Size(level[m])
                   PROVE  l = 1 \/ l <= (n + 1) - m
        BY <3>4
      <4>1. k >= 1 /\ (k = 1 \/ k <= (n + 1) - (m - 1)) /\ (k = 1 => l = 1) /\ (k > 1 => l < k)
        BY <3>2, <3>5
      <4>2. QED
        BY <1>2, <3>1, <4>1
    <3>7. QED
      BY <3>5, <3>6
  <2>3. QED
    BY <2>1, <2>2
<1> HIDE DEF G
<1>7. Nat \subseteq G
  BY <1>6, EveryNumber
<1>8. \A d \in 1..n : /\ IsRow(level[d]) /\ Size(level[d]) >= 1 /\ Size(level[d]) \in Nat
                      /\ Size(level[d]) = 1 \/ Size(level[d]) <= (n + 1) - d
  <2> TAKE d \in 1..n
  <2>1. d \in G
    BY <1>7
  <2>2. /\ IsRow(level[d]) /\ Size(level[d]) >= 1
        /\ Size(level[d]) = 1 \/ Size(level[d]) <= (n + 1) - d
    BY <2>1 DEF G
  <2>3. QED
    BY <2>2, RowHas
<1>9. Size(level[n]) = 1 /\ n \in 1..n
  <2>1. n \in 1..n /\ (n + 1) - n = 1
    BY <1>2
  <2>2. Size(level[n]) >= 1 /\ Size(level[n]) \in Nat /\ (Size(level[n]) = 1 \/ Size(level[n]) <= 1)
    BY <1>8, <2>1
  <2>3. QED
    BY <2>1, <2>2
<1> DEFINE Tops == {d \in 1..n : Size(level[d]) = 1}
<1>10. PICK t \in Tops : \A d \in Tops : t <= d
  <2>1. Tops \in SUBSET Nat /\ n \in Tops
    BY <1>9
  <2> HIDE DEF Tops
  <2>2. QED
    BY <2>1, LeastNumber
<1>11. t \in 1..n /\ Size(level[t]) = 1 /\ \A e \in 1..(t - 1) : Size(level[e]) > 1
  <2>1. t \in 1..n /\ Size(level[t]) = 1
    BY <1>10
  <2>2. ASSUME NEW e \in 1..(t - 1) PROVE Size(level[e]) > 1
    <3>1. e \in 1..n /\ ~(t <= e)
      BY <2>1
    <3>2. Size(level[e]) # 1
      BY <1>10, <3>1
    <3>3. Size(level[e]) \in Nat /\ Size(level[e]) >= 1
      BY <1>8, <3>1
    <3> QED
      BY <3>2, <3>3
  <2> HIDE DEF Tops
  <2>3. QED
    BY <2>1, <2>2
<1> DEFINE top == CHOOSE d \in 1..n : Size(level[d]) = 1 /\ \A e \in 1..(d - 1) : Size(level[e]) > 1
           levels == [d \in 1..top |-> level[d]]
<1>12. top \in 1..n /\ Size(level[top]) = 1
  BY <1>11
<1>13. LevelsFrom(leaves) = levels
  BY <1>2, <1>3 DEF LevelsFrom, Built, Size
<1> HIDE DEF top
<1>14. top \in Nat /\ top >= 1
  BY <1>12
<1>15. levels = [d \in 1..top |-> levels[d]] /\ \A d \in 1..top : levels[d] = level[d]
  OBVIOUS
<1> HIDE DEF levels
<1>16. Size(levels) = top /\ IsRow(levels)
  BY <1>14, <1>15, RowIs
<1>17. \A d \in 1..top : IsRow(levels[d]) /\ Size(levels[d]) >= 1
  BY <1>8, <1>12, <1>15
<1>18. \A d \in 1..(top - 1) : levels[d + 1] = Above(levels[d])
  <2> TAKE d \in 1..(top - 1)
  <2>1. d \in 1..top /\ d + 1 \in 1..top /\ d + 1 # 1 /\ d + 1 \in 1..n /\ (d + 1) - 1 = d
    BY <1>12, <1>14
  <2>2. QED
    BY <1>5, <1>15, <2>1
<1>19. levels[1] = leaves /\ Size(levels[top]) = 1
  BY <1>5, <1>12, <1>14, <1>15
<1>20. QED
  BY <1>13, <1>14, <1>16, <1>17, <1>18, <1>19 DEF IsTree

-----------------------------------------------------------------------------
\* The way up from a leaf, as far as one likes.
Climbed(levels, position, n, climb) ==
  climb = [d \in 1..n |->
             IF d = 1 THEN [index |-> position, proof |-> <<>>]
             ELSE Up(levels[d - 1], climb[d - 1])]

LEMMA ClimbIs ==
  ASSUME NEW levels, NEW position, NEW n \in Nat
  PROVE  \E climb : Climbed(levels, position, n, climb)
<1> DEFINE G == {m \in Nat : \E climb : Climbed(levels, position, m, climb)}
<1>1. ASSUME NEW m \in Nat, \A j \in Nat : j < m => j \in G
      PROVE  m \in G
  <2> DEFINE start == [index |-> position, proof |-> <<>>]
  <2>1. CASE m = 0
    <3> DEFINE climb == [d \in 1..0 |-> start]
    <3>1. climb = [d \in 1..0 |-> IF d = 1 THEN start ELSE Up(levels[d - 1], climb[d - 1])]
      OBVIOUS
    <3>2. QED
      BY <2>1, <3>1 DEF Climbed
  <2>2. CASE m # 0
    <3>1. m - 1 \in Nat /\ m - 1 < m
      BY <2>2
    <3>2. PICK h : Climbed(levels, position, m - 1, h)
      BY <1>1, <3>1
    <3> DEFINE climb == [d \in 1..m |-> IF d = 1 THEN start ELSE Up(levels[d - 1], h[d - 1])]
    <3>3. \A d \in 1..(m - 1) : climb[d] = h[d]
      BY <3>1, <3>2 DEF Climbed
    <3>4. \A d \in 1..m : d # 1 => climb[d - 1] = h[d - 1]
      <4>1. \A d \in 1..m : d # 1 => d - 1 \in 1..(m - 1)
        BY <3>1
      <4> HIDE DEF climb
      <4>2. QED
        BY <3>3, <4>1
    <3>5. climb = [d \in 1..m |-> IF d = 1 THEN start ELSE Up(levels[d - 1], climb[d - 1])]
      BY <3>4
    <3>6. QED
      BY <3>5 DEF Climbed
  <2>3. QED
    BY <2>1, <2>2
<1> HIDE DEF G
<1>2. Nat \subseteq G
  BY <1>1, EveryNumber
<1>3. QED
  BY <1>2 DEF G

\* What a proof hashes a leaf to, as far as one likes.
Hashed(proof, leaf, n, node) ==
  node = [i \in 0..n |-> IF i = 0 THEN leaf ELSE HashPair(node[i - 1], proof[i])]

LEMMA HashedIs ==
  ASSUME NEW proof, NEW leaf, NEW n \in Nat
  PROVE  \E node : Hashed(proof, leaf, n, node)
<1> DEFINE G == {m \in Nat : \E node : Hashed(proof, leaf, m, node)}
<1>1. ASSUME NEW m \in Nat, \A j \in Nat : j < m => j \in G
      PROVE  m \in G
  <2>1. CASE m = 0
    <3> DEFINE node == [i \in 0..0 |-> leaf]
    <3>1. node = [i \in 0..0 |-> IF i = 0 THEN leaf ELSE HashPair(node[i - 1], proof[i])]
      OBVIOUS
    <3>2. QED
      BY <2>1, <3>1 DEF Hashed
  <2>2. CASE m # 0
    <3>1. m - 1 \in Nat /\ m - 1 < m
      BY <2>2
    <3>2. PICK h : Hashed(proof, leaf, m - 1, h)
      BY <1>1, <3>1
    <3> DEFINE node == [i \in 0..m |-> IF i = 0 THEN leaf ELSE HashPair(h[i - 1], proof[i])]
    <3>3. \A i \in 0..(m - 1) : node[i] = h[i]
      BY <3>1, <3>2 DEF Hashed
    <3>4. \A i \in 0..m : i # 0 => node[i - 1] = h[i - 1]
      <4>1. \A i \in 0..m : i # 0 => i - 1 \in 0..(m - 1)
        BY <3>1
      <4> HIDE DEF node
      <4>2. QED
        BY <3>3, <4>1
    <3>5. node = [i \in 0..m |-> IF i = 0 THEN leaf ELSE HashPair(node[i - 1], proof[i])]
      BY <3>4
    <3>6. QED
      BY <3>5 DEF Hashed
  <2>3. QED
    BY <2>1, <2>2
<1> HIDE DEF G
<1>2. Nat \subseteq G
  BY <1>1, EveryNumber
<1>3. QED
  BY <1>2 DEF G

LEMMA HashedOnce ==
  ASSUME NEW p, NEW q, NEW leaf, NEW m \in Nat, NEW n \in Nat, m <= n,
         \A i \in 1..m : p[i] = q[i],
         NEW f, Hashed(p, leaf, m, f), NEW g, Hashed(q, leaf, n, g)
  PROVE  f[m] = g[m]
<1> DEFINE G == {k \in Nat : k <= m => f[k] = g[k]}
<1>1. ASSUME NEW k \in Nat, \A j \in Nat : j < k => j \in G
      PROVE  k \in G
  <2>1. CASE k = 0
    BY <2>1 DEF Hashed
  <2>2. CASE k # 0 /\ k <= m
    <3>1. k - 1 \in Nat /\ k - 1 < k /\ k - 1 <= m /\ k \in 1..m /\ k \in 0..m /\ k \in 0..n
      BY <2>2
    <3>2. f[k - 1] = g[k - 1]
      BY <1>1, <3>1
    <3>3. f[k] = HashPair(f[k - 1], p[k]) /\ g[k] = HashPair(g[k - 1], q[k])
      BY <2>2, <3>1 DEF Hashed
    <3>4. QED
      BY <3>1, <3>2, <3>3
  <2>3. QED
    BY <2>1, <2>2
<1> HIDE DEF G
<1>2. Nat \subseteq G
  BY <1>1, EveryNumber
<1>3. m \in G
  BY <1>2
<1>4. QED
  BY <1>3 DEF G

LEMMA ProcessIs ==
  ASSUME NEW proof, NEW leaf, NEW n \in Nat, n = Size(proof)
  PROVE  \E node : Hashed(proof, leaf, n, node) /\ ProcessProof(proof, leaf) = node[n]
<1>1. PICK node : node = CHOOSE x : Hashed(proof, leaf, n, x)
  OBVIOUS
<1>2. Hashed(proof, leaf, n, node)
  BY <1>1, HashedIs
<1>3. ProcessProof(proof, leaf) = node[n]
  BY <1>1 DEF ProcessProof, Hashed, Size
<1>4. QED
  BY <1>2, <1>3

LEMMA ProcessNone == ASSUME NEW leaf PROVE ProcessProof(<<>>, leaf) = leaf
<1>1. Size(<<>>) = 0
  BY EmptySeq DEF Size
<1>2. PICK node : Hashed(<<>>, leaf, 0, node) /\ ProcessProof(<<>>, leaf) = node[0]
  BY <1>1, ProcessIs
<1>3. QED
  BY <1>2 DEF Hashed

LEMMA ProcessMore ==
  ASSUME NEW S, NEW p \in Seq(S), NEW x \in S, NEW leaf
  PROVE  ProcessProof(Append(p, x), leaf) = HashPair(ProcessProof(p, leaf), x)
<1>1. PICK n \in Nat : n = Size(p)
  BY LenProperties DEF Size
<1> DEFINE q == Append(p, x)
<1>2. /\ Size(q) = n + 1 /\ n + 1 \in Nat /\ q[n + 1] = x /\ \A i \in 1..n : q[i] = p[i]
  BY <1>1, AppendProperties DEF Size
<1> HIDE DEF q
<1>3. PICK f : Hashed(p, leaf, n, f) /\ ProcessProof(p, leaf) = f[n]
  BY <1>1, ProcessIs
<1>4. PICK g : Hashed(q, leaf, n + 1, g) /\ ProcessProof(q, leaf) = g[n + 1]
  BY <1>2, ProcessIs
<1>5. f[n] = g[n]
  BY <1>2, <1>3, <1>4, HashedOnce
<1>6. g[n + 1] = HashPair(g[n], q[n + 1])
  <2>1. n + 1 \in 0..(n + 1) /\ n + 1 # 0 /\ (n + 1) - 1 = n
    OBVIOUS
  <2>2. QED
    BY <1>4, <2>1 DEF Hashed
<1>7. QED
  BY <1>2, <1>3, <1>4, <1>5, <1>6 DEF q

-----------------------------------------------------------------------------
LEMMA SiblingIs ==
  ASSUME NEW n \in Nat, NEW i \in Nat, i < n, NEW k, k = (i \div 2) + 1
  PROVE  /\ k \in 1..((n + 1) \div 2) /\ i \div 2 = k - 1
         /\ \/ /\ Sibling(i) = i + 1 /\ i + 1 = 2 * k - 1 /\ (i + 1) + 1 = 2 * k
            \/ /\ Sibling(i) = i - 1 /\ i - 1 \in Nat /\ i + 1 = 2 * k /\ (i - 1) + 1 = 2 * k - 1
<1>1. /\ (i \div 2) \in Nat /\ (i % 2) \in {0, 1}
      /\ i = (2 * (i \div 2)) + (i % 2)
  OBVIOUS
<1>2. k \in Nat /\ k >= 1 /\ i = (2 * (k - 1)) + (i % 2) /\ (i \div 2) = k - 1
  BY <1>1
<1>3a. k \in 1..((n + 1) \div 2)
  BY <1>1, <1>2
<1>3. CASE (i % 2) = 0
  BY <1>1, <1>2, <1>3, <1>3a DEF Sibling
<1>4. CASE (i % 2) = 1
  BY <1>1, <1>2, <1>4, <1>3a DEF Sibling
<1>5. QED
  BY <1>1, <1>3, <1>4

\* Where a proof is on its way up: at a node that it hashes the leaf to, and nothing else.
OnTheWay(at, nodes, S, leaf) ==
  /\ at.index \in Nat /\ at.index < Size(nodes)
  /\ at.proof \in Seq(S)
  /\ ProcessProof(at.proof, leaf) = nodes[at.index + 1]
  /\ \A a, b : ProcessProof(at.proof, a) = ProcessProof(at.proof, b) => a = b

LEMMA UpStands ==
  ASSUME NEW nodes, IsRow(nodes), Size(nodes) >= 1,
         NEW S, \A i \in 1..Size(nodes) : nodes[i] \in S,
         NEW at, NEW leaf, OnTheWay(at, nodes, S, leaf)
  PROVE  OnTheWay(Up(nodes, at), Above(nodes), S, leaf)
<1>1. PICK n \in Nat : n = Size(nodes)
  BY RowHas
<1>2. PICK i : i = at.index
  OBVIOUS
<1>3. i \in Nat /\ i < n
  BY <1>1, <1>2 DEF OnTheWay
<1> DEFINE k == (i \div 2) + 1
           s == Sibling(i)
           above == Above(nodes)
<1>4. /\ k \in 1..((n + 1) \div 2) /\ i \div 2 = k - 1
      /\ \/ s = i + 1 /\ i + 1 = 2 * k - 1 /\ (i + 1) + 1 = 2 * k
         \/ s = i - 1 /\ i - 1 \in Nat /\ i + 1 = 2 * k /\ (i - 1) + 1 = 2 * k - 1
  BY <1>3, SiblingIs
<1>5. /\ Size(above) = (n + 1) \div 2
      /\ \A j \in 1..Size(above) :
           /\ 2 * j <= n => above[j] = HashPair(nodes[2 * j - 1], nodes[2 * j])
           /\ ~(2 * j <= n) => above[j] = nodes[2 * j - 1]
  BY <1>1, AboveIs
<1>6. PICK proof : proof = at.proof
  OBVIOUS
<1>7. PICK up : up = Up(nodes, at)
  OBVIOUS
<1>8. up.index = k - 1 /\ up.proof = IF s < n THEN Append(proof, nodes[s + 1]) ELSE proof
  BY <1>1, <1>2, <1>4, <1>6, <1>7 DEF Up, Size
<1> HIDE DEF k, s, above
<1>9. /\ k \in Nat /\ k >= 1 /\ k - 1 \in Nat /\ (k - 1) + 1 = k /\ k <= (n + 1) \div 2
  BY <1>3, <1>4
<1>10. /\ proof \in Seq(S) /\ ProcessProof(proof, leaf) = nodes[i + 1]
       /\ \A a, b : ProcessProof(proof, a) = ProcessProof(proof, b) => a = b
  BY <1>2, <1>6 DEF OnTheWay
<1>11. k \in 1..Size(above)
  BY <1>4, <1>5
<1>12. CASE s < n
  <2>1. s \in Nat /\ s + 1 \in 1..n
    BY <1>3, <1>4, <1>12
  <2>2. nodes[s + 1] \in S
    BY <1>1, <2>1
  <2>3. \A a : ProcessProof(up.proof, a) = HashPair(ProcessProof(proof, a), nodes[s + 1])
    BY <1>8, <1>10, <1>12, <2>2, ProcessMore
  <2>4. 2 * k <= n
    BY <1>3, <1>4, <1>9, <1>12
  <2>5. above[k] = HashPair(nodes[2 * k - 1], nodes[2 * k])
    BY <1>5, <1>11, <2>4
  <2>6. \/ nodes[i + 1] = nodes[2 * k - 1] /\ nodes[s + 1] = nodes[2 * k]
        \/ nodes[i + 1] = nodes[2 * k] /\ nodes[s + 1] = nodes[2 * k - 1]
    BY <1>4
  <2>7. HashPair(nodes[i + 1], nodes[s + 1]) = HashPair(nodes[2 * k - 1], nodes[2 * k])
    BY <2>6, PairsTurn
  <2>8. ProcessProof(up.proof, leaf) = above[k]
    BY <1>10, <2>3, <2>5, <2>7
  <2>9. \A a, b : ProcessProof(up.proof, a) = ProcessProof(up.proof, b) => a = b
    <3> SUFFICES ASSUME NEW a, NEW b, ProcessProof(up.proof, a) = ProcessProof(up.proof, b)
                 PROVE  a = b
      OBVIOUS
    <3>1. ProcessProof(proof, a) = ProcessProof(proof, b)
      BY <2>3, PairsTell
    <3>2. QED
      BY <1>10, <3>1
  <2>10. up.proof \in Seq(S)
    BY <1>8, <1>10, <1>12, <2>2, AppendProperties
  <2>11. QED
    BY <1>5, <1>7, <1>8, <1>9, <2>8, <2>9, <2>10 DEF OnTheWay, above
<1>13. CASE ~(s < n)
  <2>1. i + 1 = 2 * k - 1 /\ ~(2 * k <= n)
    BY <1>3, <1>4, <1>9, <1>13
  <2>2. above[k] = nodes[i + 1]
    BY <1>5, <1>11, <2>1
  <2>3. up.proof = proof
    BY <1>8, <1>13
  <2>4. up.index \in Nat /\ up.index < Size(above) /\ up.index + 1 = k
    BY <1>5, <1>8, <1>9
  <2>5. OnTheWay(up, above, S, leaf)
    BY <1>10, <2>2, <2>3, <2>4 DEF OnTheWay
  <2>6. QED
    BY <1>7, <2>5 DEF above
<1>14. QED
  BY <1>12, <1>13

\* The nodes of a tree.
Nodes(levels) ==
  UNION {{levels[d][i] : i \in 1..Size(levels[d])} : d \in 1..Size(levels)}

LEMMA ProofsStand ==
  ASSUME NEW levels, NEW leaves, IsTree(levels, leaves),
         NEW position \in Nat, position < Size(leaves),
         NEW proof, proof = Proof(levels, position)
  PROVE  /\ ProcessProof(proof, leaves[position + 1]) = Last(levels)[1]
         /\ \A a, b : ProcessProof(proof, a) = ProcessProof(proof, b) => a = b
<1>1. PICK n \in Nat : n = Size(levels) /\ n >= 1
  BY RowHas DEF IsTree
<1>2. /\ levels[1] = leaves /\ Size(levels[n]) = 1
      /\ \A d \in 1..n : IsRow(levels[d]) /\ Size(levels[d]) >= 1
      /\ \A d \in 1..(n - 1) : levels[d + 1] = Above(levels[d])
  BY <1>1 DEF IsTree
<1>3. PICK climb : climb = CHOOSE x : Climbed(levels, position, n, x)
  OBVIOUS
<1>4. Climbed(levels, position, n, climb)
  BY <1>3, ClimbIs
<1>5. proof = climb[n].proof
  BY <1>1, <1>3 DEF Proof, Climbed, Size
<1> DEFINE S == Nodes(levels)
           leaf == leaves[position + 1]
           G == {d \in Nat : d \in 1..n => OnTheWay(climb[d], levels[d], S, leaf)}
<1>6. ASSUME NEW m \in Nat, \A j \in Nat : j < m => j \in G
      PROVE  m \in G
  <2>1. CASE m = 1
    <3>1. climb[1] = [index |-> position, proof |-> <<>>]
      BY <1>1, <1>4 DEF Climbed
    <3>2. climb[1].index = position /\ climb[1].proof = <<>>
      BY <3>1
    <3>3. <<>> \in Seq(S)
      BY EmptySeq
    <3>4. \A a : ProcessProof(climb[1].proof, a) = a
      BY <3>2, ProcessNone
    <3> HIDE DEF S, leaf
    <3>5. OnTheWay(climb[1], levels[1], S, leaf)
      BY <1>2, <3>2, <3>3, <3>4 DEF OnTheWay, leaf
    <3>6. QED
      BY <2>1, <3>5
  <2>2. CASE m \in 1..n /\ m # 1
    <3>1. /\ m - 1 \in Nat /\ m - 1 < m /\ m - 1 \in 1..n /\ m - 1 \in 1..(n - 1)
          /\ (m - 1) + 1 = m
      BY <2>2
    <3>2. OnTheWay(climb[m - 1], levels[m - 1], S, leaf)
      BY <1>6, <3>1
    <3>3. climb[m] = Up(levels[m - 1], climb[m - 1])
      BY <1>4, <2>2 DEF Climbed
    <3>4. levels[m] = Above(levels[m - 1])
      BY <1>2, <3>1
    <3>5. \A i \in 1..Size(levels[m - 1]) : levels[m - 1][i] \in S
      BY <1>1, <3>1 DEF Nodes
    <3>6. IsRow(levels[m - 1]) /\ Size(levels[m - 1]) >= 1
      BY <1>2, <3>1
    <3> HIDE DEF S, leaf
    <3>7. OnTheWay(climb[m], levels[m], S, leaf)
      BY <3>2, <3>3, <3>4, <3>5, <3>6, UpStands
    <3>8. QED
      BY <3>7
  <2>3. QED
    BY <2>1, <2>2
<1> HIDE DEF G, S, leaf
<1>7. Nat \subseteq G
  BY <1>6, EveryNumber
<1>8. OnTheWay(climb[n], levels[n], S, leaf)
  <2>1. n \in G /\ n \in 1..n
    BY <1>1, <1>7
  <2>2. QED
    BY <2>1 DEF G
<1>9. climb[n].index = 0
  BY <1>2, <1>8 DEF OnTheWay
<1>10. Last(levels) = levels[n]
  BY <1>1 DEF Last, Size
<1>11. QED
  BY <1>5, <1>8, <1>9, <1>10 DEF OnTheWay, leaf

-----------------------------------------------------------------------------
\* What buildTree is given and does not throw on.
Listed(entries) == entries \in Seq([account : Nat, owed : Nat]) /\ ~Refused(entries)

LEMMA ListedAre ==
  ASSUME NEW entries, Listed(entries)
  PROVE  /\ Size(entries) \in Nat /\ Size(entries) >= 1 /\ DOMAIN entries = 1..Size(entries)
         /\ IsFiniteSet(Range(entries)) /\ Cardinality(Range(entries)) = Size(entries)
         /\ Range(entries) \subseteq [account : Nat, owed : Nat]
         /\ \A e, f \in Range(entries) : e.account = f.account => e = f
<1> DEFINE S == Range(entries)
<1>1. PICK n \in Nat : n = Size(entries)
  BY LenProperties DEF Size, Listed
<1>2. DOMAIN entries = 1..n /\ entries \in [1..n -> [account : Nat, owed : Nat]]
  BY <1>1, LenProperties DEF Size, Listed
<1>3. entries # <<>>
  BY DEF Listed, Refused
<1>4. n >= 1
  BY <1>1, <1>3, EmptySeq DEF Size, Listed
<1>5. \A i, j \in 1..n : entries[i].account = entries[j].account => i = j
  BY <1>2 DEF Listed, Refused
<1>6. S = {entries[i] : i \in 1..n}
  BY <1>2 DEF Range
<1>7. entries \in Bijection(1..n, S)
  <2>1. entries \in [1..n -> S]
    BY <1>2, <1>6
  <2>2. \A i, j \in 1..n : entries[i] = entries[j] => i = j
    BY <1>5
  <2>3. \A e \in S : \E i \in 1..n : entries[i] = e
    BY <1>6
  <2>4. QED
    BY <2>1, <2>2, <2>3 DEF Bijection, Injection, Surjection, IsInjective
<1>8. IsFiniteSet(1..n) /\ Cardinality(1..n) = n
  BY <1>4, FS_Interval
<1>9. ExistsBijection(1..n, S)
  BY <1>7 DEF ExistsBijection
<1>10. IsFiniteSet(S) /\ Cardinality(S) = n
  BY <1>8, <1>9, FS_Bijection
<1>11. S \subseteq [account : Nat, owed : Nat] /\ \A e, f \in S : e.account = f.account => e = f
  BY <1>2, <1>5, <1>6
<1>12. QED
  BY <1>1, <1>2, <1>4, <1>10, <1>11

\* Each entry has a place of its own, and every place is taken.
LEMMA Placed ==
  ASSUME NEW entries, Listed(entries)
  PROVE  /\ \A e \in Range(entries) : Cardinality(Smaller(entries, e)) \in 0..(Size(entries) - 1)
         /\ \A e, f \in Range(entries) :
              Cardinality(Smaller(entries, e)) = Cardinality(Smaller(entries, f)) => e = f
         /\ \A i \in 1..Size(entries) :
              \E e \in Range(entries) : Cardinality(Smaller(entries, e)) = i - 1
<1>1. PICK S : S = Range(entries)
  OBVIOUS
<1>2. PICK n \in Nat : n = Size(entries) /\ n >= 1 /\ IsFiniteSet(S) /\ Cardinality(S) = n
  BY <1>1, ListedAre
<1>3. S \subseteq [account : Nat, owed : Nat] /\ \A e, f \in S : e.account = f.account => e = f
  BY <1>1, ListedAre
<1> DEFINE Ahead(e) == Smaller(entries, e)
           place == [e \in S |-> Cardinality(Ahead(e))]
<1>4. \A e \in S : /\ Ahead(e) \in SUBSET (S \ {e})
                   /\ \A f \in S : f \in Ahead(e) <=> f.account < e.account
  BY <1>1, <1>3 DEF Smaller
<1> HIDE DEF Ahead
<1>5. ASSUME NEW e \in S
      PROVE  IsFiniteSet(Ahead(e)) /\ Cardinality(Ahead(e)) \in 0..(n - 1)
  <2>1. IsFiniteSet(S \ {e}) /\ Cardinality(S \ {e}) = n - 1
    BY <1>2, FS_RemoveElement
  <2>2. IsFiniteSet(Ahead(e)) /\ Cardinality(Ahead(e)) <= n - 1
    BY <1>4, <2>1, FS_Subset
  <2>3. Cardinality(Ahead(e)) \in Nat
    BY <2>2, FS_CardinalityType
  <2>4. QED
    BY <1>2, <2>2, <2>3
<1>6. ASSUME NEW e \in S, NEW f \in S, e.account < f.account
      PROVE  Cardinality(Ahead(e)) < Cardinality(Ahead(f))
  <2>1. Ahead(e) \in SUBSET Ahead(f) /\ e \in Ahead(f) /\ e \notin Ahead(e)
    <3>1. e.account \in Nat /\ f.account \in Nat /\ \A g \in S : g.account \in Nat
      BY <1>3
    <3>2. QED
      BY <1>4, <1>6, <3>1
  <2>2. Ahead(e) # Ahead(f)
    BY <2>1
  <2>3. Cardinality(Ahead(e)) <= Cardinality(Ahead(f)) /\ Cardinality(Ahead(f)) # Cardinality(Ahead(e))
    BY <1>5, <2>1, <2>2, FS_Subset
  <2>4. Cardinality(Ahead(e)) \in Nat /\ Cardinality(Ahead(f)) \in Nat
    BY <1>5
  <2>5. QED
    BY <2>3, <2>4
<1>7. \A e, f \in S : Cardinality(Ahead(e)) = Cardinality(Ahead(f)) => e = f
  <2> SUFFICES ASSUME NEW e \in S, NEW f \in S, Cardinality(Ahead(e)) = Cardinality(Ahead(f))
               PROVE  e = f
    OBVIOUS
  <2>1. e.account \in Nat /\ f.account \in Nat
    BY <1>3
  <2>2. Cardinality(Ahead(e)) \in Nat /\ Cardinality(Ahead(f)) \in Nat
    BY <1>5
  <2>3. ~(e.account < f.account) /\ ~(f.account < e.account)
    BY <1>6, <2>2
  <2>4. e.account = f.account
    BY <2>1, <2>3
  <2>5. QED
    BY <1>3, <2>4
<1>8. place \in Injection(S, 0..(n - 1))
  <2>1. place \in [S -> 0..(n - 1)]
    BY <1>5
  <2>2. \A e, f \in S : place[e] = place[f] => e = f
    BY <1>7
  <2> HIDE DEF place
  <2>3. QED
    BY <2>1, <2>2 DEF Injection, IsInjective
<1>9. IsFiniteSet(0..(n - 1)) /\ Cardinality(0..(n - 1)) = n
  <2> SUFFICES ASSUME NEW m \in Int, m = n - 1
               PROVE  IsFiniteSet(0..m) /\ Cardinality(0..m) = n
    BY <1>2
  <2>1. IsFiniteSet(0..m) /\ Cardinality(0..m) = (IF 0 > m THEN 0 ELSE (m - 0) + 1)
    BY FS_Interval
  <2>2. ~(0 > m) /\ (m - 0) + 1 = n
    BY <1>2
  <2>3. QED
    BY <2>1, <2>2
<1>10. place \in Surjection(S, 0..(n - 1))
  BY <1>2, <1>8, <1>9, FS_Injection
<1>11. \A i \in 1..n : \E e \in S : Cardinality(Ahead(e)) = i - 1
  <2> TAKE i \in 1..n
  <2>1. i - 1 \in 0..(n - 1)
    OBVIOUS
  <2>2. \E e \in S : place[e] = i - 1
    BY <1>10, <2>1 DEF Surjection
  <2>3. QED
    BY <2>2
<1>12. QED
  BY <1>1, <1>2, <1>5, <1>7, <1>11 DEF Ahead

\* Sorting keeps the entries and loses none.
LEMMA SortedIs ==
  ASSUME NEW entries, Listed(entries), NEW s, s = Sorted(entries)
  PROVE  /\ IsRow(s) /\ Size(s) = Size(entries) /\ DOMAIN s = 1..Size(entries)
         /\ \A i \in 1..Size(entries) :
              s[i] \in Range(entries) /\ Cardinality(Smaller(entries, s[i])) = i - 1
         /\ \A e \in Range(entries) : \E i \in 1..Size(entries) : s[i] = e
<1>1. PICK n \in Nat : n = Size(entries) /\ n >= 1 /\ DOMAIN entries = 1..n
  BY ListedAre
<1>2. s = [i \in 1..n |-> s[i]]
  BY <1>1 DEF Sorted
<1>3. ASSUME NEW i \in 1..n
      PROVE  s[i] \in Range(entries) /\ Cardinality(Smaller(entries, s[i])) = i - 1
  <2>1. \E e \in Range(entries) : Cardinality(Smaller(entries, e)) = i - 1
    BY <1>1, Placed
  <2>2. s[i] = CHOOSE e \in Range(entries) : Cardinality(Smaller(entries, e)) = i - 1
    BY <1>1 DEF Sorted
  <2>3. QED
    BY <2>1, <2>2
<1>4. \A e \in Range(entries) : \E i \in 1..n : s[i] = e
  <2> TAKE e \in Range(entries)
  <2>1. PICK r : r = Cardinality(Smaller(entries, e))
    OBVIOUS
  <2>2. r \in 0..(n - 1)
    BY <1>1, <2>1, Placed
  <2>3. r + 1 \in 1..n /\ (r + 1) - 1 = r
    BY <2>2
  <2>4. s[r + 1] = e
    BY <1>3, <2>1, <2>3, Placed
  <2>5. QED
    BY <2>3, <2>4
<1>5. Size(s) = n /\ DOMAIN s = 1..n /\ IsRow(s)
  BY <1>2, RowIs
<1>6. QED
  BY <1>1, <1>3, <1>4, <1>5

\* Which way round the entries come makes no difference.
LEMMA SortedAlike ==
  ASSUME NEW entries, Listed(entries), NEW others, Listed(others),
         Range(others) = Range(entries)
  PROVE  Sorted(others) = Sorted(entries)
<1> DEFINE Ordered(S, D) ==
             [i \in D |-> CHOOSE e \in S : Cardinality({f \in S : f.account < e.account}) = i - 1]
<1>1. /\ Sorted(entries) = Ordered(Range(entries), DOMAIN entries)
      /\ Sorted(others) = Ordered(Range(others), DOMAIN others)
  BY DEF Sorted, Smaller
<1>2. DOMAIN others = DOMAIN entries
  BY ListedAre
<1> HIDE DEF Ordered
<1>3. QED
  BY <1>1, <1>2

LEMMA ReverseAlike ==
  ASSUME NEW entries, Listed(entries)
  PROVE  Listed(Reverse(entries)) /\ Range(Reverse(entries)) = Range(entries)
<1>1. PICK n \in Nat : n = Size(entries) /\ n >= 1 /\ DOMAIN entries = 1..n
  BY ListedAre
<1>2. PICK r : r = Reverse(entries)
  OBVIOUS
<1>3. r = [i \in 1..n |-> entries[(n - i) + 1]]
  BY <1>1, <1>2 DEF Reverse, Size
<1>4. \A i \in 1..n : (n - i) + 1 \in 1..n /\ (n - ((n - i) + 1)) + 1 = i
  OBVIOUS
<1>5. DOMAIN r = 1..n /\ \A i \in 1..n : r[i] = entries[(n - i) + 1] /\ entries[i] = r[(n - i) + 1]
  BY <1>3, <1>4
<1>6. Range(r) = Range(entries)
  <2>1. Range(r) = {r[i] : i \in 1..n} /\ Range(entries) = {entries[i] : i \in 1..n}
    BY <1>1, <1>5 DEF Range
  <2>2. \A x \in {r[i] : i \in 1..n} : x \in {entries[i] : i \in 1..n}
    BY <1>4, <1>5
  <2>3. \A x \in {entries[i] : i \in 1..n} : x \in {r[i] : i \in 1..n}
    BY <1>4, <1>5
  <2>4. QED
    BY <2>1, <2>2, <2>3
<1>7. r \in Seq([account : Nat, owed : Nat])
  <2>1. entries \in [1..n -> [account : Nat, owed : Nat]]
    BY <1>1, LenProperties DEF Listed
  <2>2. r \in [1..n -> [account : Nat, owed : Nat]]
    BY <1>3, <1>4, <2>1
  <2>3. QED
    BY <2>2, SeqDef
<1>8. ~Refused(r)
  <2>1. r # <<>>
    <3>1. 1 \in DOMAIN r
      BY <1>1, <1>5
    <3>2. QED
      BY <3>1
  <2>2. \A i, j \in 1..n : i # j => entries[i].account # entries[j].account
    BY <1>1 DEF Listed, Refused
  <2>3. \A i \in 1..n : entries[i].owed # 0
    BY <1>1 DEF Listed, Refused
  <2>4. \A i, j \in 1..n : i # j => (n - i) + 1 # (n - j) + 1
    OBVIOUS
  <2>5. \A i, j \in 1..n : i # j => r[i].account # r[j].account
    BY <1>4, <1>5, <2>2, <2>4
  <2>6. \A i \in 1..n : r[i].owed # 0
    BY <1>4, <1>5, <2>3
  <2>7. QED
    BY <1>5, <2>1, <2>5, <2>6 DEF Refused
<1>9. QED
  BY <1>2, <1>6, <1>7, <1>8 DEF Listed

-----------------------------------------------------------------------------
LEMMA LevelsOf ==
  ASSUME NEW entries, Listed(entries), NEW s, s = Sorted(entries)
  PROVE  \E leaves, levels :
           /\ IsTree(levels, leaves)
           /\ Size(leaves) = Size(entries)
           /\ \A i \in 1..Size(entries) : leaves[i] = LeafOf(s[i])
           /\ Tree(entries).root = Last(levels)[1]
           /\ Tree(entries).entries = s
           /\ \A i \in 1..Size(entries) : Tree(entries).proofs[i] = Proof(levels, i - 1)
<1>1. PICK n \in Nat : n = Size(entries) /\ n >= 1
  BY ListedAre
<1>2. DOMAIN s = 1..n
  BY <1>1, SortedIs
<1> DEFINE leaves == [i \in 1..n |-> LeafOf(s[i])]
<1>3. leaves = [i \in 1..n |-> leaves[i]] /\ \A i \in 1..n : leaves[i] = LeafOf(s[i])
  OBVIOUS
<1>4. Tree(entries) =
        [root |-> Last(LevelsFrom(<<>> \o leaves))[1], entries |-> s,
         proofs |-> [i \in 1..n |-> Proof(LevelsFrom(<<>> \o leaves), i - 1)]]
  BY <1>2 DEF Tree
<1> HIDE DEF leaves
<1>5. Size(leaves) = n /\ IsRow(leaves) /\ <<>> \o leaves = leaves
  <2> DEFINE X == {leaves[i] : i \in 1..n}
  <2>1. Size(leaves) = n /\ IsRow(leaves) /\ leaves \in Seq(X)
    BY <1>3, RowIs
  <2> HIDE DEF X
  <2>2. <<>> \o leaves = leaves
    BY <2>1, ConcatEmptySeq
  <2>3. QED
    BY <2>1, <2>2
<1>6. PICK levels : levels = LevelsFrom(leaves)
  OBVIOUS
<1>7. IsTree(levels, leaves)
  BY <1>1, <1>5, <1>6, LevelsAre
<1>8. Tree(entries) = [root |-> Last(levels)[1], entries |-> s,
                       proofs |-> [i \in 1..n |-> Proof(levels, i - 1)]]
  BY <1>4, <1>5, <1>6
<1>9. QED
  BY <1>1, <1>3, <1>5, <1>7, <1>8

\* The proof of an entry is its proof alone.
LEMMA ProofsProve ==
  ASSUME NEW entries, Listed(entries), NEW i \in 1..Size(entries), NEW claimed
  PROVE  Verifies(Tree(entries).proofs[i], Tree(entries).root, claimed)
           <=> claimed = Tree(entries).entries[i]
<1>1. PICK n \in Nat : n = Size(entries)
  BY ListedAre
<1>2. PICK s : s = Sorted(entries)
  OBVIOUS
<1>3. PICK leaves, levels :
           /\ IsTree(levels, leaves)
           /\ Size(leaves) = n
           /\ \A j \in 1..n : leaves[j] = LeafOf(s[j])
           /\ Tree(entries).root = Last(levels)[1]
           /\ Tree(entries).entries = s
           /\ \A j \in 1..n : Tree(entries).proofs[j] = Proof(levels, j - 1)
  BY <1>1, <1>2, LevelsOf
<1>4. PICK proof : proof = Proof(levels, i - 1)
  OBVIOUS
<1>5. i - 1 \in Nat /\ i - 1 < n /\ (i - 1) + 1 = i /\ i \in 1..n
  BY <1>1
<1>6. /\ ProcessProof(proof, leaves[i]) = Last(levels)[1]
      /\ \A a, b : ProcessProof(proof, a) = ProcessProof(proof, b) => a = b
  BY <1>3, <1>4, <1>5, ProofsStand
<1>7. Tree(entries).proofs[i] = proof /\ leaves[i] = LeafOf(Tree(entries).entries[i])
  BY <1>3, <1>4, <1>5
<1>8. ProcessProof(proof, LeafOf(claimed)) = Last(levels)[1] <=> LeafOf(claimed) = leaves[i]
  BY <1>6
<1>9. LeafOf(claimed) = leaves[i] <=> claimed = Tree(entries).entries[i]
  BY <1>7, LeavesTell
<1>10. QED
  BY <1>3, <1>7, <1>8, <1>9 DEF Verifies

\* Every node is the leaf of an entry, or a pair of nodes.
LEMMA NodesAre ==
  ASSUME NEW levels, NEW leaves, IsTree(levels, leaves),
         NEW E, \A i \in 1..Size(leaves) : \E e \in E : leaves[i] = LeafOf(e)
  PROVE  \A x \in Nodes(levels) :
           \/ \E e \in E : x = LeafOf(e)
           \/ \E a, b \in Nodes(levels) : x = HashPair(a, b)
<1>1. PICK n \in Nat : n = Size(levels) /\ n >= 1
  BY RowHas DEF IsTree
<1>2. /\ levels[1] = leaves
      /\ \A d \in 1..n : IsRow(levels[d]) /\ Size(levels[d]) >= 1
      /\ \A d \in 1..(n - 1) : levels[d + 1] = Above(levels[d])
  BY <1>1 DEF IsTree
<1> DEFINE S == Nodes(levels)
           Made(x) == (\E e \in E : x = LeafOf(e)) \/ \E a, b \in S : x = HashPair(a, b)
           G == {d \in Nat : d \in 1..n => \A i \in 1..Size(levels[d]) : Made(levels[d][i])}
<1>3. \A d \in 1..n : \A i \in 1..Size(levels[d]) : levels[d][i] \in S
  BY <1>1 DEF Nodes
<1>4. \A x \in S : \E d \in 1..n : \E i \in 1..Size(levels[d]) : x = levels[d][i]
  BY <1>1 DEF Nodes
<1> HIDE DEF S
<1>5. ASSUME NEW m \in Nat, \A j \in Nat : j < m => j \in G
      PROVE  m \in G
  <2>1. CASE m = 1
    BY <1>2, <2>1
  <2>2. CASE m \in 1..n /\ m # 1
    <3>1. /\ m - 1 \in Nat /\ m - 1 < m /\ m - 1 \in 1..n /\ m - 1 \in 1..(n - 1)
          /\ (m - 1) + 1 = m
      BY <2>2
    <3>2. PICK below : below = levels[m - 1]
      OBVIOUS
    <3>3. levels[m] = Above(below) /\ IsRow(below) /\ Size(below) >= 1
      BY <1>2, <3>1, <3>2
    <3>4. \A i \in 1..Size(below) : Made(below[i]) /\ below[i] \in S
      BY <1>3, <1>5, <3>1, <3>2
    <3>5. PICK k \in Nat : k = Size(below)
      BY <3>3, RowHas
    <3> HIDE DEF Made
    <3>6. ASSUME NEW i \in 1..Size(levels[m]) PROVE Made(levels[m][i])
      <4>1. Size(levels[m]) = (k + 1) \div 2 /\ i \in 1..((k + 1) \div 2)
        BY <3>3, <3>5, AboveIs
      <4>2. /\ 2 * i <= k => levels[m][i] = HashPair(below[2 * i - 1], below[2 * i])
            /\ ~(2 * i <= k) => levels[m][i] = below[2 * i - 1]
        BY <3>3, <3>5, <4>1, AboveIs
      <4>3. 2 * i - 1 \in 1..k /\ (2 * i <= k => 2 * i \in 1..k)
        BY <4>1
      <4>4. CASE 2 * i <= k
        BY <3>4, <3>5, <4>2, <4>3, <4>4 DEF Made
      <4>5. CASE ~(2 * i <= k)
        BY <3>4, <3>5, <4>2, <4>3, <4>5
      <4>6. QED
        BY <4>4, <4>5
    <3>7. QED
      BY <3>6
  <2>3. QED
    BY <2>1, <2>2
<1> HIDE DEF G
<1>6. Nat \subseteq G
  BY <1>5, EveryNumber
<1>7. \A x \in S : Made(x)
  <2> TAKE x \in S
  <2>1. PICK d \in 1..n : \E i \in 1..Size(levels[d]) : x = levels[d][i]
    BY <1>4
  <2>2. d \in G
    BY <1>6
  <2>3. QED
    BY <2>1, <2>2 DEF G
<1>8. QED
  BY <1>7 DEF S

\* What any proof hashes to a node is a node.
LEMMA ProofsStartAtNodes ==
  ASSUME NEW levels, NEW leaves, IsTree(levels, leaves),
         NEW E, \A i \in 1..Size(leaves) : \E e \in E : leaves[i] = LeafOf(e),
         NEW X, NEW proof \in Seq(X), NEW leaf, ProcessProof(proof, leaf) \in Nodes(levels)
  PROVE  leaf \in Nodes(levels)
<1>1. PICK n \in Nat : n = Size(proof)
  BY LenProperties DEF Size
<1>2. PICK node : Hashed(proof, leaf, n, node) /\ ProcessProof(proof, leaf) = node[n]
  BY <1>1, ProcessIs
<1> DEFINE Met == {i \in 0..n : node[i] \in Nodes(levels)}
<1>3. PICK k \in Met : \A j \in Met : k <= j
  <2>1. Met \in SUBSET Nat /\ n \in Met
    BY <1>2
  <2> HIDE DEF Met
  <2>2. QED
    BY <2>1, LeastNumber
<1>4. ASSUME k # 0 PROVE FALSE
  <2>1. k \in Nat /\ k - 1 \in 0..n /\ k \in 0..n /\ k - 1 < k
    BY <1>4
  <2>2. node[k] = HashPair(node[k - 1], proof[k])
    BY <1>2, <1>4, <2>1 DEF Hashed
  <2>3. PICK a \in Nodes(levels), b \in Nodes(levels) : node[k] = HashPair(a, b)
    BY <2>2, NodesAre, LeavesTell
  <2>4. {node[k - 1], proof[k]} = {a, b}
    <3>1. HashPair(node[k - 1], proof[k]) = HashPair(a, b)
      BY <2>2, <2>3
    <3>2. QED
      BY <3>1 DEF HashPair
  <2>5. node[k - 1] = a \/ node[k - 1] = b
    BY <2>4
  <2>6. k - 1 \in Met
    BY <2>1, <2>3, <2>5
  <2>7. QED
    BY <1>3, <2>1, <2>6
<1>5. node[0] = leaf /\ node[0] \in Nodes(levels)
  BY <1>2, <1>4 DEF Hashed
<1>6. QED
  BY <1>5

-----------------------------------------------------------------------------
(***************************************************************************)
(* A layer never pays more than its pool, a day of pools never more than   *)
(* the daily ceiling, and nobody more than the cap of a contested pool, for*)
(* any workspaces, wallets, units and configuration that passes            *)
(* assertUsableConfig (priceLayer, accrueWindow).                          *)
(***************************************************************************)
THEOREM PoolHolds == PoolIsACeiling /\ (Spec => []PoolBounds)
<1>1. PoolIsACeiling
  BY PoolsAreCeilings
<1>2. PoolBounds
  BY <1>1 DEF PoolBounds
<1>3. Spec => []PoolBounds
  BY <1>2, PTL
<1>4. QED
  BY <1>1, <1>3

(***************************************************************************)
(* Connecting a wallet changes what nobody else is paid and takes nothing  *)
(* from whom it pays, whoever else has none (priceLayer's denominator).    *)
(***************************************************************************)
THEOREM OthersStand == OthersDoNotMove /\ (Spec => []WalletsAreIndependent)
<1>1. OthersDoNotMove
  BY NobodyElseMoves
<1>2. WalletsAreIndependent
  BY <1>1 DEF WalletsAreIndependent
<1>3. Spec => []WalletsAreIndependent
  BY <1>2, PTL
<1>4. QED
  BY <1>1, <1>3

(***************************************************************************)
(* While no ceiling binds, two periods pay the rate for every confirmed row*)
(* and every credit, and the console adds up to that (accrueWindow,        *)
(* accrualsFor).                                                           *)
(***************************************************************************)
THEOREM QuietPays == QuietPeriodsPayTheRate /\ (Spec => []QuietPeriodsPay)
<1>1. QuietPeriodsPayTheRate
  BY QuietPeriodsPayInFull
<1>2. QuietPeriodsPay
  BY <1>1 DEF QuietPeriodsPay
<1>3. Spec => []QuietPeriodsPay
  BY <1>2, PTL
<1>4. QED
  BY <1>1, <1>3

(***************************************************************************)
(* What the contract accepts against a root is an entry of its tree, of any*)
(* number of entries and whatever proof is shown (buildTree, claim).       *)
(***************************************************************************)
THEOREM RootsProveNothingElse ==
  ASSUME NEW entries \in Seq([account : Nat, owed : Nat]), ~Refused(entries),
         NEW X, NEW proof \in Seq(X), NEW claimed,
         Verifies(proof, Tree(entries).root, claimed)
  PROVE  claimed \in Range(entries)
<1>1. Listed(entries)
  BY DEF Listed
<1>2. PICK n \in Nat : n = Size(entries)
  BY <1>1, ListedAre
<1>3. PICK s : s = Sorted(entries)
  OBVIOUS
<1>4. \A i \in 1..n : s[i] \in Range(entries)
  BY <1>1, <1>2, <1>3, SortedIs
<1>5. PICK leaves, levels :
           /\ IsTree(levels, leaves)
           /\ Size(leaves) = n
           /\ \A j \in 1..n : leaves[j] = LeafOf(s[j])
           /\ Tree(entries).root = Last(levels)[1]
  BY <1>1, <1>2, <1>3, LevelsOf
<1>6. \A i \in 1..Size(leaves) : \E e \in Range(entries) : leaves[i] = LeafOf(e)
  BY <1>4, <1>5
<1>7. Last(levels)[1] \in Nodes(levels)
  <2>1. PICK m \in Nat : m = Size(levels) /\ m >= 1 /\ Size(levels[m]) = 1
    BY <1>5, RowHas DEF IsTree
  <2>2. Last(levels) = levels[m]
    BY <2>1 DEF Last, Size
  <2>3. m \in 1..Size(levels) /\ 1 \in 1..Size(levels[m])
    BY <2>1
  <2>4. QED
    BY <2>2, <2>3 DEF Nodes
<1>8. ProcessProof(proof, LeafOf(claimed)) \in Nodes(levels)
  BY <1>5, <1>7 DEF Verifies
<1>9. LeafOf(claimed) \in Nodes(levels)
  BY <1>5, <1>6, <1>8, ProofsStartAtNodes
<1>10. \E e \in Range(entries) : LeafOf(claimed) = LeafOf(e)
  BY <1>5, <1>6, <1>9, NodesAre, LeavesTell
<1>11. QED
  BY <1>10, LeavesTell

(***************************************************************************)
(* A tree is its entries', whatever order the rows came in (buildTree's    *)
(* sort).                                                                  *)
(***************************************************************************)
THEOREM SameBooksSameRoot ==
  ASSUME NEW entries \in Seq([account : Nat, owed : Nat]), ~Refused(entries),
         NEW others \in Seq([account : Nat, owed : Nat]), ~Refused(others),
         Range(others) = Range(entries)
  PROVE  Tree(others) = Tree(entries)
<1>1. Sorted(others) = Sorted(entries)
  BY SortedAlike DEF Listed
<1>2. QED
  BY <1>1 DEF Tree

\* The same of TLC's inputs.
LEMMA RootsAreTrue == RootsProveTheirEntries
<1> SUFFICES ASSUME NEW entries \in Inputs
             PROVE  /\ Tree(Reverse(entries)).root = Tree(entries).root
                    /\ \A i \in DOMAIN entries : \A claimed \in Book(1..MaxEntries) :
                         Verifies(Tree(entries).proofs[i], Tree(entries).root, claimed)
                           <=> claimed = Tree(entries).entries[i]
  BY DEF RootsProveTheirEntries
<1>1. Listed(entries)
  <2>1. PICK n \in 1..MaxEntries : entries \in [1..n -> Book(1..MaxEntries)]
    BY DEF Inputs
  <2>2. PICK E : E = [account : Nat, owed : Nat]
    OBVIOUS
  <2>3. n \in Nat /\ Book(1..MaxEntries) \subseteq E
    BY <2>2, MerkleAssumption DEF Book
  <2>4. entries \in [1..n -> E]
    BY <2>1, <2>3
  <2>5. entries \in Seq(E)
    BY <2>3, <2>4, SeqDef
  <2>6. QED
    BY <2>2, <2>5 DEF Inputs, Listed
<1>2. Tree(Reverse(entries)) = Tree(entries)
  BY <1>1, ReverseAlike, SameBooksSameRoot DEF Listed
<1>3. DOMAIN entries = 1..Size(entries)
  BY <1>1, ListedAre
<1>4. QED
  BY <1>1, <1>2, <1>3, ProofsProve

(***************************************************************************)
(* The proof filed for an account is accepted for its entry and for nothing*)
(* else, at any number of accounts (buildTree, proofFor, claim).           *)
(***************************************************************************)
THEOREM RootsProveThem == RootsProveTheirEntries /\ (Spec => []RootsProve)
<1>1. RootsProveTheirEntries
  BY RootsAreTrue
<1>2. RootsProve
  BY <1>1 DEF RootsProve
<1>3. Spec => []RootsProve
  BY <1>2, PTL
<1>4. QED
  BY <1>1, <1>3

=============================================================================
