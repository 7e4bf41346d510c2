------------------------ MODULE RetrievalCreditsProofs ------------------------
(***************************************************************************)
(* Proofs about Recalls: of the credits, for any agents and records, any   *)
(* number of recalls at once and any failures; and of the answers, for     *)
(* stores, limits and costs of any size.                                   *)
(***************************************************************************)
EXTENDS Recalls, SequenceTheorems, FiniteSetTheorems, WellFoundedInduction, TLAPS

(***************************************************************************)
(* The inductive invariant.  The batch a recall will insert was chosen     *)
(* from records others wrote, when the recall began, so whatever happens   *)
(* between its read and its insert, the author of a record is never the    *)
(* one whose recall credited it.  That a record is credited once needs no  *)
(* more than types: the insert itself refuses a record that was credited   *)
(* since the recall looked.                                                *)
(***************************************************************************)
OthersOnly ==
  /\ \A a \in Agents : \A r \in recall[a].used : Author[r] # a
  /\ \A r \in Records : credit[r] # None => credit[r] # Author[r]

CreditInv == TypeOK /\ OthersOnly

LEMMA InitCredits == Init => CreditInv
BY CreditAssumption DEF Init, CreditInv, TypeOK, OthersOnly, Idle

\* A recall at any point, and a recall left with what it then holds.
LEMMA RecallWritten ==
  ASSUME CreditInv, NEW a \in Agents, NEW c,
         c \in [at : {"idle", "read", "write", "done"},
                used : SUBSET Records, fresh : SUBSET Records],
         c.fresh \subseteq c.used, c.at = "write" => c.fresh # {},
         \A r \in c.used : Author[r] # a,
         recall' = [recall EXCEPT ![a] = c], credit' = credit,
         failures' \in 0..MaxFailures
  PROVE  CreditInv'
<1>1. recall' \in [Agents -> [at : {"idle", "read", "write", "done"},
                              used : SUBSET Records, fresh : SUBSET Records]]
  BY DEF CreditInv, TypeOK
<1>2. \A b \in Agents : recall'[b] = IF b = a THEN c ELSE recall[b]
  BY DEF CreditInv, TypeOK
<1>3. TypeOK'
  BY <1>1, <1>2 DEF CreditInv, TypeOK
<1>4. OthersOnly'
  BY <1>2 DEF CreditInv, OthersOnly
<1>5. QED
  BY <1>3, <1>4 DEF CreditInv

LEMMA RecallType ==
  ASSUME CreditInv, NEW a \in Agents
  PROVE  /\ recall[a] \in [at : {"idle", "read", "write", "done"},
                           used : SUBSET Records, fresh : SUBSET Records]
         /\ recall[a].fresh \subseteq recall[a].used
         /\ \A r \in recall[a].used : Author[r] # a
         /\ failures \in 0..MaxFailures
BY DEF CreditInv, TypeOK, OthersOnly

LEMMA CreditStep == CreditInv /\ [Next]_vars => CreditInv'
<1> SUFFICES ASSUME CreditInv, [Next]_vars PROVE CreditInv'
  OBVIOUS
<1>1. ASSUME NEW a \in Agents, NEW result \in SUBSET Records, Recall(a, result)
      PROVE  CreditInv'
  <2> DEFINE c == [at |-> "read", used |-> Candidates(a, result), fresh |-> {}]
  <2>1. /\ c \in [at : {"idle", "read", "write", "done"},
                  used : SUBSET Records, fresh : SUBSET Records]
        /\ c.fresh \subseteq c.used /\ c.at # "write"
        /\ \A r \in c.used : Author[r] # a
    BY DEF Candidates
  <2>2. recall' = [recall EXCEPT ![a] = c] /\ UNCHANGED <<credit, failures>>
    BY <1>1 DEF Recall
  <2> HIDE DEF c
  <2>3. QED
    BY <2>1, <2>2, RecallType, RecallWritten
<1>2. ASSUME NEW a \in Agents, ReadExisting(a)
      PROVE  CreditInv'
  <2> DEFINE fresh == Uncredited(recall[a].used)
             c == [recall[a] EXCEPT !.at = AfterRead(fresh), !.fresh = fresh]
  <2>1. fresh \subseteq recall[a].used
    BY DEF Uncredited
  <2> HIDE DEF fresh
  <2>2. /\ c \in [at : {"idle", "read", "write", "done"},
                  used : SUBSET Records, fresh : SUBSET Records]
        /\ c.at = AfterRead(fresh) /\ c.fresh = fresh
        /\ c.used = recall[a].used
    BY <2>1, RecallType DEF AfterRead
  <2>3. c.at = "write" => c.fresh # {}
    BY <2>2 DEF AfterRead
  <2>4. recall' = [recall EXCEPT ![a] = c] /\ UNCHANGED <<credit, failures>>
    <3>1. recall' = [recall EXCEPT ![a].at = AfterRead(fresh),
                                   ![a].fresh = fresh]
      BY <1>2 DEF ReadExisting, fresh
    <3>2. recall \in [Agents -> [at : {"idle", "read", "write", "done"},
                                 used : SUBSET Records, fresh : SUBSET Records]]
      BY DEF CreditInv, TypeOK
    <3>3. QED
      BY <1>2, <3>1, <3>2 DEF ReadExisting
  <2> HIDE DEF c
  <2>5. QED
    BY <2>1, <2>2, <2>3, <2>4, RecallType, RecallWritten
<1>3. ASSUME NEW a \in Agents, CreateMany(a)
      PROVE  CreditInv'
  <2>1. /\ recall[a].fresh \subseteq Records
        /\ \A r \in recall[a].fresh : Author[r] # a
    BY RecallType
  <2>2. \A r \in Records :
          credit'[r] = credit[r] \/ (credit'[r] = a /\ Author[r] # a)
    <3>1. CASE Insertable(recall[a].fresh)
      <4>1. credit' = [r \in Records |->
                         IF r \in recall[a].fresh THEN a ELSE credit[r]]
        BY <1>3, <3>1 DEF CreateMany
      <4>2. QED
        BY <2>1, <4>1
    <3>2. CASE ~Insertable(recall[a].fresh)
      BY <1>3, <3>2 DEF CreateMany
    <3>3. QED
      BY <3>1, <3>2
  <2>3. credit' \in [Records -> Agents \cup {None}]
    BY <1>3 DEF CreateMany, CreditInv, TypeOK
  <2> DEFINE c == [recall[a] EXCEPT !.at = "done"]
  <2>4. /\ c \in [at : {"idle", "read", "write", "done"},
                  used : SUBSET Records, fresh : SUBSET Records]
        /\ c.at = "done" /\ c.fresh = recall[a].fresh
        /\ c.used = recall[a].used
    BY RecallType
  <2>5. recall' = [recall EXCEPT ![a] = c] /\ failures' = failures
    BY <1>3 DEF CreateMany
  <2> HIDE DEF c
  <2>6. \A b \in Agents : recall'[b] = IF b = a THEN c ELSE recall[b]
    BY <2>5 DEF CreditInv, TypeOK
  <2>7. TypeOK'
    BY <2>3, <2>4, <2>5, <2>6, RecallType DEF CreditInv, TypeOK
  <2>8. OthersOnly'
    BY <2>2, <2>4, <2>6 DEF CreditInv, OthersOnly
  <2>9. QED
    BY <2>7, <2>8 DEF CreditInv
<1>4. ASSUME NEW a \in Agents, Fail(a)
      PROVE  CreditInv'
  <2>1. recall' = [recall EXCEPT ![a] = Idle] /\ credit' = credit
    BY <1>4 DEF Fail
  <2>2. failures' \in 0..MaxFailures
    BY <1>4, CreditAssumption, RecallType DEF Fail
  <2>3. /\ Idle \in [at : {"idle", "read", "write", "done"},
                     used : SUBSET Records, fresh : SUBSET Records]
        /\ Idle.fresh \subseteq Idle.used /\ Idle.at # "write"
        /\ \A r \in Idle.used : Author[r] # a
    BY DEF Idle
  <2>4. QED
    BY <2>1, <2>2, <2>3, RecallWritten
<1>5. CASE UNCHANGED vars
  BY <1>5 DEF vars, CreditInv, TypeOK, OthersOnly
<1>6. QED
  BY <1>1, <1>2, <1>3, <1>4, <1>5 DEF Next

LEMMA CreditInvariant == Spec => []CreditInv
BY InitCredits, CreditStep, PTL DEF Spec

\* Every reachable state of the credits and the recalls in progress is well
\* typed (creditRetrieval).
THEOREM CreditTypeCorrect == Spec => []TypeOK
<1>1. CreditInv => TypeOK
  BY DEF CreditInv
<1>2. QED
  BY <1>1, CreditInvariant, PTL

\* A record is credited once, for good, whichever recalls overlap
\* (creditRetrieval; the unique recordId of reward_credits).
THEOREM ARecordEarnsOnce == Spec => EarnsOnce
<1> DEFINE Once == \A r \in Records : credit[r] # None => credit'[r] = credit[r]
<1>1. CreditInv /\ [Next]_vars => [Once]_vars
  <2> SUFFICES ASSUME CreditInv, Next PROVE Once
    OBVIOUS
  <2>1. PICK a \in Agents : \/ credit' = credit
                            \/ CreateMany(a)
    BY DEF Next, Recall, ReadExisting, Fail
  <2>2. QED
    BY <2>1 DEF CreateMany, Insertable
<1>2. QED
  BY <1>1, CreditInvariant, PTL DEF Spec, EarnsOnce

\* No agent is credited for its own recalls, "a loop with one participant": a
\* record's credit stems from another agent's recall (creditRetrieval).
NobodyPaysThemselves ==
  \A r \in Records : credit[r] # None => credit[r] # Author[r]

THEOREM OthersPay == Spec => []NobodyPaysThemselves
<1>1. CreditInv => NobodyPaysThemselves
  BY DEF CreditInv, OthersOnly, NobodyPaysThemselves
<1>2. QED
  BY <1>1, CreditInvariant, PTL

(***************************************************************************)
(* The answers.  The groups of a store are in order by the best row of     *)
(* each, so the first n of them are the best; and a store without what the *)
(* caller may not read is a copy, place by place, of what is left of the   *)
(* whole one, so the two have the same groups in the same order.           *)
(***************************************************************************)
\* Among some numbers there is a least one.
LEMMA LeastNumber ==
  ASSUME NEW I \in SUBSET Nat, I # {}
  PROVE  \E n \in I : \A j \in I : n <= j
<1>1. IsWellFoundedOn(OpToRel(<, Nat), Nat)
  BY NatLessThanWellFounded
<1>2. PICK n \in I : \A j \in I : ~(<<j, n>> \in OpToRel(<, Nat))
  BY <1>1, WFMin
<1>3. \A j \in I : ~(j < n)
  BY <1>2 DEF OpToRel
<1>4. QED
  BY <1>3

-----------------------------------------------------------------------------
\* What puts a finite set in order: who is ahead of whom.
Orders(ahead, S) ==
  /\ IsFiniteSet(S)
  /\ \A x \in S : ahead[x] \in SUBSET S /\ x \notin ahead[x]
  /\ \A x, y \in S : x \in ahead[y] => ahead[x] \subseteq ahead[y]
  /\ \A x, y \in S : x # y => x \in ahead[y] \/ y \in ahead[x]

\* How many are ahead says who is.
LEMMA RankTells ==
  ASSUME NEW S, NEW ahead, Orders(ahead, S), NEW n \in Nat, n = Cardinality(S)
  PROVE  /\ \A x \in S : Cardinality(ahead[x]) \in 0..(n - 1)
         /\ \A x, y \in S : x \in ahead[y] <=> Cardinality(ahead[x]) < Cardinality(ahead[y])
         /\ \A x, y \in S : Cardinality(ahead[x]) = Cardinality(ahead[y]) => x = y
<1>1. ASSUME NEW x \in S
      PROVE  IsFiniteSet(ahead[x]) /\ Cardinality(ahead[x]) \in 0..(n - 1)
  <2>1. IsFiniteSet(S \ {x}) /\ Cardinality(S \ {x}) = n - 1
    BY FS_RemoveElement DEF Orders
  <2>2. ahead[x] \in SUBSET (S \ {x})
    BY DEF Orders
  <2>3. IsFiniteSet(ahead[x]) /\ Cardinality(ahead[x]) <= n - 1
    BY <2>1, <2>2, FS_Subset
  <2>4. Cardinality(ahead[x]) \in Nat
    BY <2>3, FS_CardinalityType
  <2>5. QED
    BY <2>3, <2>4
<1>2. ASSUME NEW x \in S, NEW y \in S, x \in ahead[y]
      PROVE  Cardinality(ahead[x]) < Cardinality(ahead[y])
  <2>1. ahead[x] \in SUBSET ahead[y] /\ x \notin ahead[x]
    BY <1>2 DEF Orders
  <2>2. ahead[x] # ahead[y]
    BY <1>2, <2>1
  <2>3. Cardinality(ahead[x]) <= Cardinality(ahead[y]) /\ Cardinality(ahead[y]) # Cardinality(ahead[x])
    BY <1>1, <2>1, <2>2, FS_Subset
  <2>4. Cardinality(ahead[x]) \in Nat /\ Cardinality(ahead[y]) \in Nat
    BY <1>1
  <2>5. QED
    BY <2>3, <2>4
<1>3. \A x, y \in S : x = y \/ x \in ahead[y] \/ y \in ahead[x]
  BY DEF Orders
<1>4. \A x \in S : Cardinality(ahead[x]) \in Nat
  BY <1>1
<1>5. \A x, y \in S : Cardinality(ahead[x]) < Cardinality(ahead[y]) => x \in ahead[y]
  <2> TAKE x \in S, y \in S
  <2> HAVE Cardinality(ahead[x]) < Cardinality(ahead[y])
  <2>1. Cardinality(ahead[x]) \in Nat /\ Cardinality(ahead[y]) \in Nat
    BY <1>4
  <2>2. x # y
    BY <2>1
  <2>3. y \notin ahead[x]
    BY <1>2, <2>1
  <2>4. QED
    BY <1>3, <2>2, <2>3
<1>6. \A x, y \in S : Cardinality(ahead[x]) = Cardinality(ahead[y]) => x = y
  <2> TAKE x \in S, y \in S
  <2> HAVE Cardinality(ahead[x]) = Cardinality(ahead[y])
  <2>1. Cardinality(ahead[x]) \in Nat /\ Cardinality(ahead[y]) \in Nat
    BY <1>4
  <2>2. x \notin ahead[y] /\ y \notin ahead[x]
    BY <1>2, <2>1
  <2>3. QED
    BY <1>3, <2>2
<1>7. QED
  BY <1>1, <1>2, <1>5, <1>6

\* As many numbers from 0 as the last of them says.
LEMMA BelowAreFinite ==
  ASSUME NEW n \in Nat
  PROVE  IsFiniteSet(0..(n - 1)) /\ Cardinality(0..(n - 1)) = n
<1>1. PICK m \in Int : m = n - 1
  OBVIOUS
<1>2. PICK z \in Int : z = 0
  OBVIOUS
<1>3. IsFiniteSet(z..m) /\ Cardinality(z..m) = (IF z > m THEN 0 ELSE (m - z) + 1)
  BY FS_Interval
<1>4. (IF z > m THEN 0 ELSE (m - z) + 1) = n
  BY <1>1, <1>2
<1>5. z..m = 0..(n - 1)
  BY <1>1, <1>2
<1>6. QED
  BY <1>3, <1>4, <1>5

\* In order, everyone has a place.
InPlace(s, S, n) ==
  /\ s \in Seq(S) /\ Len(s) = n /\ DOMAIN s = 1..n
  /\ \A p \in 1..n : s[p] \in S
  /\ \A x \in S : \E p \in 1..n : s[p] = x

LEMMA InOrderIs ==
  ASSUME NEW S, NEW ahead, Orders(ahead, S), NEW n \in Nat, n = Cardinality(S),
         NEW s, s = InOrder(S, ahead)
  PROVE  InPlace(s, S, n) /\ \A p \in 1..n : Cardinality(ahead[s[p]]) = p - 1
<1> DEFINE place == [x \in S |-> Cardinality(ahead[x])]
           t == [p \in 1..n |-> CHOOSE x \in S : Cardinality(ahead[x]) = p - 1]
<1>1. place \in Injection(S, 0..(n - 1))
  <2>1. place \in [S -> 0..(n - 1)]
    BY RankTells
  <2>2. \A x, y \in S : place[x] = place[y] => x = y
    BY RankTells
  <2> HIDE DEF place
  <2>3. QED
    BY <2>1, <2>2 DEF Injection, IsInjective
<1>2. IsFiniteSet(0..(n - 1)) /\ Cardinality(0..(n - 1)) = n
  BY BelowAreFinite
<1>3. place \in Surjection(S, 0..(n - 1))
  BY <1>1, <1>2, FS_Injection
<1>4. ASSUME NEW p \in 1..n PROVE t[p] \in S /\ Cardinality(ahead[t[p]]) = p - 1
  <2>1. p - 1 \in 0..(n - 1)
    OBVIOUS
  <2>2. PICK x \in S : place[x] = p - 1
    BY <1>3, <2>1 DEF Surjection
  <2>3. Cardinality(ahead[x]) = p - 1
    BY <2>2
  <2>4. t[p] = CHOOSE y \in S : Cardinality(ahead[y]) = p - 1
    OBVIOUS
  <2>5. QED
    BY <2>3, <2>4
<1>5. \A x \in S : \E p \in 1..n : t[p] = x
  <2> TAKE x \in S
  <2>1. PICK r \in 0..(n - 1) : r = Cardinality(ahead[x])
    BY RankTells
  <2>2. r + 1 \in 1..n /\ (r + 1) - 1 = r
    OBVIOUS
  <2>3. t[r + 1] = x
    BY <1>4, <2>1, <2>2, RankTells
  <2>4. QED
    BY <2>2, <2>3
<1>6. DOMAIN t = 1..n
  OBVIOUS
<1>7. s = <<>> \o t
  BY DEF InOrder
<1> HIDE DEF t
<1>8. t \in [1..n -> S]
  <2>1. t = [p \in 1..n |-> t[p]]
    BY DEF t
  <2>2. QED
    BY <1>4, <2>1
<1>9. t \in Seq(S)
  BY <1>8, SeqDef
<1>10. s = t
  BY <1>7, <1>9, ConcatEmptySeq
<1>11. Len(t) = n
  BY <1>6, <1>9, LenProperties
<1>12. InPlace(t, S, n)
  BY <1>4, <1>5, <1>6, <1>9, <1>11 DEF InPlace
<1>13. QED
  BY <1>4, <1>10, <1>12

\* The earlier one is ahead.
LEMMA InOrderMeans ==
  ASSUME NEW S, NEW ahead, Orders(ahead, S), NEW n \in Nat, n = Cardinality(S),
         NEW s, s = InOrder(S, ahead), NEW p \in 1..n, NEW q \in 1..n
  PROVE  /\ p < q <=> s[p] \in ahead[s[q]]
         /\ s[p] = s[q] => p = q
<1>1. /\ s[p] \in S /\ Cardinality(ahead[s[p]]) = p - 1
      /\ s[q] \in S /\ Cardinality(ahead[s[q]]) = q - 1
  BY InOrderIs DEF InPlace
<1>2. s[p] \in ahead[s[q]] <=> Cardinality(ahead[s[p]]) < Cardinality(ahead[s[q]])
  BY <1>1, RankTells
<1>3. QED
  BY <1>1, <1>2

\* What is ordered alike has the same order.
LEMMA SameOrder ==
  ASSUME NEW S, NEW ahead, Orders(ahead, S), NEW T, NEW before, Orders(before, T),
         NEW f \in Bijection(S, T),
         \A x, y \in S : x \in ahead[y] <=> f[x] \in before[f[y]]
  PROVE  /\ Cardinality(T) = Cardinality(S)
         /\ \A p \in 1..Cardinality(S) : InOrder(T, before)[p] = f[InOrder(S, ahead)[p]]
<1>1. PICK n \in Nat : n = Cardinality(S)
  BY FS_CardinalityType DEF Orders
<1>2. Cardinality(T) = n
  <2>1. ExistsBijection(S, T)
    BY DEF ExistsBijection
  <2>2. QED
    BY <1>1, <2>1, FS_Bijection DEF Orders
<1>3. /\ f \in [S -> T] /\ \A x, y \in S : f[x] = f[y] => x = y
      /\ \A t \in T : \E x \in S : f[x] = t
  BY DEF Bijection, Injection, Surjection, IsInjective
<1>4. ASSUME NEW y \in S PROVE Cardinality(before[f[y]]) = Cardinality(ahead[y])
  <2> DEFINE g == [x \in ahead[y] |-> f[x]]
  <2>1. ahead[y] \subseteq S /\ before[f[y]] \subseteq T
    BY <1>3 DEF Orders
  <2>2. g \in [ahead[y] -> before[f[y]]]
    BY <2>1
  <2>3. \A u, v \in ahead[y] : g[u] = g[v] => u = v
    BY <1>3, <2>1
  <2>4. \A t \in before[f[y]] : \E x \in ahead[y] : g[x] = t
    <3> TAKE t \in before[f[y]]
    <3>1. PICK x \in S : f[x] = t
      BY <1>3, <2>1
    <3>2. x \in ahead[y]
      BY <3>1
    <3>3. QED
      BY <3>1, <3>2
  <2> HIDE DEF g
  <2>5. g \in Bijection(ahead[y], before[f[y]])
    BY <2>2, <2>3, <2>4 DEF Bijection, Injection, Surjection, IsInjective
  <2>6. IsFiniteSet(ahead[y])
    BY <2>1, FS_Subset DEF Orders
  <2>7. ExistsBijection(ahead[y], before[f[y]])
    BY <2>5 DEF ExistsBijection
  <2>8. QED
    BY <2>6, <2>7, FS_Bijection
<1>5. ASSUME NEW p \in 1..n PROVE InOrder(T, before)[p] = f[InOrder(S, ahead)[p]]
  <2>1. PICK s : s = InOrder(S, ahead)
    OBVIOUS
  <2>2. PICK t : t = InOrder(T, before)
    OBVIOUS
  <2>3. s[p] \in S /\ Cardinality(ahead[s[p]]) = p - 1
    BY <1>1, <2>1, InOrderIs DEF InPlace
  <2>4. t[p] \in T /\ Cardinality(before[t[p]]) = p - 1
    BY <1>2, <2>2, InOrderIs DEF InPlace
  <2>5. f[s[p]] \in T /\ Cardinality(before[f[s[p]]]) = p - 1
    BY <1>3, <1>4, <2>3
  <2>6. f[s[p]] = t[p]
    BY <1>2, <2>4, <2>5, RankTells
  <2>7. QED
    BY <2>1, <2>2, <2>6
<1>6. QED
  BY <1>1, <1>2, <1>5

-----------------------------------------------------------------------------
\* Rows that can be compared.
Rated(rows, D) == D \in SUBSET Nat /\ IsFiniteSet(D) /\ \A i \in D : rows[i].score \in Nat
Over(rows, D) == [i \in D |-> {j \in D : Better(rows, j, i)}]

LEMMA BetterIsOrder ==
  ASSUME NEW rows, NEW D, Rated(rows, D)
  PROVE  /\ Orders(Over(rows, D), D)
         /\ \A i, j \in D : j \in Over(rows, D)[i] <=> Better(rows, j, i)
<1> DEFINE over == Over(rows, D)
<1>1. \A i, j \in D : j \in over[i] <=> Better(rows, j, i)
  BY DEF Over
<1>2. \A i \in D : over[i] \in SUBSET D
  BY DEF Over
<1> HIDE DEF over
<1>3. \A i \in D : i \in Nat /\ rows[i].score \in Nat
  BY DEF Rated
<1>4. \A i \in D : i \notin over[i]
  BY <1>1, <1>3 DEF Better
<1>5. \A i, j, k \in D : Better(rows, i, j) /\ Better(rows, j, k) => Better(rows, i, k)
  BY <1>3 DEF Better
<1>6. \A i, j \in D : i \in over[j] => over[i] \subseteq over[j]
  BY <1>1, <1>2, <1>5
<1>7. \A i, j \in D : i # j => i \in over[j] \/ j \in over[i]
  BY <1>1, <1>3 DEF Better
<1>8. QED
  BY <1>1, <1>2, <1>4, <1>6, <1>7 DEF Orders, Rated, over

\* Of some rows there is a best.
LEMMA SomeBest ==
  ASSUME NEW rows, NEW D, Rated(rows, D), NEW g \in SUBSET D, g # {}
  PROVE  \E b \in g : \A i \in g : i = b \/ Better(rows, b, i)
<1> DEFINE over == Over(rows, D)
           ranks == {Cardinality(over[i]) : i \in g}
<1>1. Orders(over, D) /\ \A i, j \in D : j \in over[i] <=> Better(rows, j, i)
  BY BetterIsOrder
<1> HIDE DEF over
<1>2. PICK n \in Nat : n = Cardinality(D)
  BY FS_CardinalityType DEF Rated
<1>3. \A i \in D : Cardinality(over[i]) \in Nat
  BY <1>1, <1>2, RankTells
<1>4. PICK k \in ranks : \A j \in ranks : k <= j
  <2>1. ranks \in SUBSET Nat /\ ranks # {}
    BY <1>3
  <2> HIDE DEF ranks
  <2>2. QED
    BY <2>1, LeastNumber
<1>5. PICK b \in g : k = Cardinality(over[b])
  OBVIOUS
<1>6. ASSUME NEW i \in g PROVE i = b \/ Better(rows, b, i)
  <2>1. Cardinality(over[b]) <= Cardinality(over[i])
    BY <1>4, <1>5
  <2>2. i \in D /\ b \in D
    OBVIOUS
  <2>3. ~(Cardinality(over[i]) < Cardinality(over[b]))
    BY <1>3, <2>1, <2>2
  <2>4. i \notin over[b]
    BY <1>1, <1>2, <2>2, <2>3, RankTells
  <2>5. i = b \/ b \in over[i]
    BY <1>1, <2>2, <2>4 DEF Orders
  <2>6. QED
    BY <1>1, <2>2, <2>5
<1>7. QED
  BY <1>6

-----------------------------------------------------------------------------
\* Every row is in one group, and a group says one thing.
LEMMA GroupsAre ==
  ASSUME NEW rows, NEW D, IsFiniteSet(D), NEW G, G = Groups(rows, D)
  PROVE  /\ IsFiniteSet(G)
         /\ \A g \in G : g \in SUBSET D /\ g # {} /\ IsFiniteSet(g)
         /\ \A i \in D : \E g \in G : i \in g
         /\ \A g \in G : \A i \in g, j \in D :
              j \in g <=> ContentHash(rows[j]) = ContentHash(rows[i])
         /\ \A g, h \in G : \A i \in g : i \in h => g = h
<1> DEFINE alike(i) == {j \in D : ContentHash(rows[j]) = ContentHash(rows[i])}
           f == [i \in D |-> alike(i)]
<1>1. G = {alike(i) : i \in D}
  BY DEF Groups
<1>2. \A i, j \in D : j \in alike(i) <=> ContentHash(rows[j]) = ContentHash(rows[i])
  OBVIOUS
<1>3. \A i \in D : i \in alike(i) /\ alike(i) \in SUBSET D
  OBVIOUS
<1> HIDE DEF alike
<1>4. f \in Surjection(D, G)
  <2>1. f \in [D -> G]
    BY <1>1
  <2>2. \A g \in G : \E i \in D : f[i] = g
    BY <1>1
  <2> HIDE DEF f
  <2>3. QED
    BY <2>1, <2>2 DEF Surjection
<1>5. IsFiniteSet(G)
  BY <1>4, FS_Surjection
<1>6. \A g \in G : g \in SUBSET D /\ g # {} /\ IsFiniteSet(g)
  BY <1>1, <1>3, FS_Subset
<1>7. \A i \in D : \E g \in G : i \in g
  BY <1>1, <1>3
<1>8. \A g \in G : \A i \in g, j \in D :
        j \in g <=> ContentHash(rows[j]) = ContentHash(rows[i])
  <2> TAKE g \in G
  <2> TAKE i \in g, j \in D
  <2>1. PICK k \in D : g = alike(k)
    BY <1>1
  <2>2. i \in D
    BY <1>6
  <2>3. QED
    BY <1>2, <2>1, <2>2
<1>9. \A g, h \in G : \A i \in g : i \in h => g = h
  <2> SUFFICES ASSUME NEW g \in G, NEW h \in G, NEW i \in g, i \in h PROVE g = h
    OBVIOUS
  <2>1. \A j \in D : j \in g <=> j \in h
    BY <1>8
  <2>2. QED
    BY <1>6, <2>1
<1>10. QED
  BY <1>5, <1>6, <1>7, <1>8, <1>9

\* One group is ahead of another with its best row.
LEMMA GroupsOrdered ==
  ASSUME NEW rows, NEW D, Rated(rows, D), NEW G, G = Groups(rows, D)
  PROVE  /\ Orders(Ahead(rows, G), G)
         /\ \A g, h \in G : h \in Ahead(rows, G)[g] <=>
              \E j \in h : \A i \in g : Better(rows, j, i)
<1> DEFINE ahead == Ahead(rows, G)
<1>1. \A g, h \in G : h \in ahead[g] <=> \E j \in h : \A i \in g : Better(rows, j, i)
  BY DEF Ahead
<1>2. \A g \in G : ahead[g] \in SUBSET G
  BY DEF Ahead
<1> HIDE DEF ahead
<1>3. /\ IsFiniteSet(G) /\ \A g \in G : g \in SUBSET D /\ g # {}
      /\ \A g, h \in G : \A i \in g : i \in h => g = h
  BY GroupsAre DEF Rated
<1>4. \A i \in D : i \in Nat /\ rows[i].score \in Nat
  BY DEF Rated
<1>5. \A i, j, k \in D : Better(rows, i, j) /\ Better(rows, j, k) => Better(rows, i, k)
  BY <1>4 DEF Better
<1>6. \A i \in D : ~Better(rows, i, i)
  BY <1>4 DEF Better
<1>7. \A i, j \in D : i = j \/ Better(rows, i, j) \/ Better(rows, j, i)
  BY <1>4 DEF Better
<1>8. \A g \in G : g \notin ahead[g]
  BY <1>1, <1>3, <1>6
<1>9. \A g, h \in G : h \in ahead[g] => ahead[h] \subseteq ahead[g]
  <2> SUFFICES ASSUME NEW g \in G, NEW h \in G, h \in ahead[g], NEW k \in ahead[h]
               PROVE  k \in ahead[g]
    OBVIOUS
  <2>1. k \in G
    BY <1>2
  <2>2. PICK j \in h : \A i \in g : Better(rows, j, i)
    BY <1>1
  <2>3. PICK l \in k : \A i \in h : Better(rows, l, i)
    BY <1>1, <2>1
  <2>4. \A i \in g : Better(rows, l, i)
    BY <1>3, <1>5, <2>1, <2>2, <2>3
  <2>5. QED
    BY <1>1, <2>1, <2>4
<1>10. \A g, h \in G : g # h => g \in ahead[h] \/ h \in ahead[g]
  <2> SUFFICES ASSUME NEW g \in G, NEW h \in G, g # h
               PROVE  g \in ahead[h] \/ h \in ahead[g]
    OBVIOUS
  <2>1. PICK b \in g : \A i \in g : i = b \/ Better(rows, b, i)
    BY <1>3, SomeBest
  <2>2. PICK c \in h : \A i \in h : i = c \/ Better(rows, c, i)
    BY <1>3, SomeBest
  <2>3. b \in D /\ c \in D /\ b # c
    BY <1>3
  <2>4. ASSUME Better(rows, b, c) PROVE g \in ahead[h]
    <3>1. \A i \in h : Better(rows, b, i)
      BY <1>3, <1>5, <2>2, <2>3, <2>4
    <3>2. QED
      BY <1>1, <3>1
  <2>5. ASSUME Better(rows, c, b) PROVE h \in ahead[g]
    <3>1. \A i \in g : Better(rows, c, i)
      BY <1>3, <1>5, <2>1, <2>3, <2>5
    <3>2. QED
      BY <1>1, <3>1
  <2>6. QED
    BY <1>7, <2>3, <2>4, <2>5
<1>11. QED
  BY <1>1, <1>2, <1>3, <1>8, <1>9, <1>10 DEF Orders, ahead

\* The items: all groups, one ahead of the other.
InRank(rows, items, m) ==
  \A p, q \in 1..m : p < q => \E j \in items[p] : \A i \in items[q] : Better(rows, j, i)

LEMMA ItemsAre ==
  ASSUME NEW rows, NEW D, Rated(rows, D), NEW G, G = Groups(rows, D),
         NEW items, items = Items(rows, D)
  PROVE  \E m \in Nat : InPlace(items, G, m) /\ InRank(rows, items, m)
<1> DEFINE ahead == Ahead(rows, G)
<1>1. Orders(ahead, G) /\ \A g, h \in G : h \in ahead[g] <=>
                            \E j \in h : \A i \in g : Better(rows, j, i)
  BY GroupsOrdered
<1>2. items = InOrder(G, ahead)
  BY DEF Items
<1> HIDE DEF ahead
<1>3. PICK m \in Nat : m = Cardinality(G)
  BY <1>1, FS_CardinalityType DEF Orders
<1>4. InPlace(items, G, m)
  BY <1>1, <1>2, <1>3, InOrderIs
<1>5. \A p, q \in 1..m : p < q => \E j \in items[p] : \A i \in items[q] : Better(rows, j, i)
  <2> TAKE p \in 1..m, q \in 1..m
  <2> HAVE p < q
  <2>1. items[p] \in ahead[items[q]]
    BY <1>1, <1>2, <1>3, InOrderMeans
  <2>2. items[p] \in G /\ items[q] \in G
    BY <1>4 DEF InPlace
  <2>3. QED
    BY <1>1, <2>1, <2>2
<1>6. InRank(rows, items, m)
  BY <1>5 DEF InRank
<1>7. QED
  BY <1>3, <1>4, <1>6

-----------------------------------------------------------------------------
\* Of some numbers there is a greatest.
LEMMA MaxIs ==
  ASSUME NEW m \in Nat, NEW S \in SUBSET (0..m), S # {}
  PROVE  Max(S) \in S /\ \A y \in S : y <= Max(S)
<1> DEFINE tops == {b \in Nat : \A y \in S : y <= b}
<1>1. PICK b \in tops : \A c \in tops : b <= c
  <2>1. tops \in SUBSET Nat /\ m \in tops
    OBVIOUS
  <2> HIDE DEF tops
  <2>2. QED
    BY <2>1, LeastNumber
<1>2. b \in S
  <2> SUFFICES ASSUME b \notin S PROVE FALSE
    OBVIOUS
  <2>1. \A y \in S : y \in Nat /\ y <= b /\ y # b
    BY <1>1
  <2>2. PICK y \in S : TRUE
    OBVIOUS
  <2>3. y \in Nat /\ y <= b /\ y # b
    BY <2>1, <2>2
  <2>4. b # 0
    BY <2>3
  <2>5. b - 1 \in Nat /\ \A z \in S : z <= b - 1
    BY <2>1, <2>4
  <2>6. b - 1 \in tops
    BY <2>5
  <2>7. QED
    BY <1>1, <2>6
<1>3. \A y \in S : b >= y
  BY <1>1
<1>4. Max(S) \in S /\ \A y \in S : Max(S) >= y
  BY <1>2, <1>3 DEF Max
<1>5. QED
  BY <1>4

\* What there is room for.
LEMMA RoomIs ==
  ASSUME NEW m \in Nat, NEW costs, DOMAIN costs = 1..m,
         NEW used, NEW limit, NEW maxItems, NEW n, n = Room(costs, used, limit, maxItems)
  PROVE  n \in 0..m /\ (n # 0 => used + Cost(costs, n) <= limit)
<1> DEFINE S == {0} \cup {k \in DOMAIN costs : k <= maxItems /\ used + Cost(costs, k) <= limit}
<1>1. S \in SUBSET (0..m) /\ 0 \in S
  OBVIOUS
<1>2. n = Max(S)
  BY DEF Room
<1>3. n \in S
  BY <1>1, <1>2, MaxIs
<1>4. QED
  BY <1>1, <1>3

\* A store of rows, and what a caller finds in it.
Holds(rows, m) ==
  DOMAIN rows = 1..m /\ \A i \in 1..m : rows[i].score \in Nat
InSight(caller, rows) == Found(rows, Considered(caller, rows))

LEMMA FoundAre ==
  ASSUME NEW rows, NEW m \in Nat, Holds(rows, m), NEW caller,
         NEW D, D = InSight(caller, rows)
  PROVE  D \in SUBSET (1..m) /\ Rated(rows, D) /\ \A i \in D : MayRead(caller, rows[i])
<1>1. Considered(caller, rows) \in SUBSET (1..m)
  BY DEF Considered, Holds
<1>2. \A i \in Considered(caller, rows) : MayRead(caller, rows[i])
  BY DEF Considered
<1>3. D \in SUBSET (1..m) /\ D \subseteq Considered(caller, rows)
  BY <1>1 DEF InSight, Found
<1>4. IsFiniteSet(1..m)
  BY FS_Interval
<1>5. IsFiniteSet(D)
  BY <1>3, <1>4, FS_Subset
<1>6. QED
  BY <1>2, <1>3, <1>5 DEF Rated, Holds

\* The first n of some.
LEMMA TheFirst ==
  ASSUME NEW G, NEW items \in Seq(G), NEW k \in Nat, Len(items) = k,
         \A p \in 1..k : items[p] \in G, NEW n \in 0..k, NEW s, s = SubSeq(items, 1, n)
  PROVE  s \in Seq(G) /\ Len(s) = n /\ \A p \in 1..n : s[p] = items[p]
<1>1. \A p \in 1..n : items[p] \in G
  OBVIOUS
<1>2. /\ SubSeq(items, 1, n) \in Seq(G)
      /\ Len(SubSeq(items, 1, n)) = (IF 1 <= n THEN (n - 1) + 1 ELSE 0)
      /\ \A p \in 1..((n - 1) + 1) : SubSeq(items, 1, n)[p] = items[(1 + p) - 1]
  BY <1>1, SubSeqProperties
<1>3. (IF 1 <= n THEN (n - 1) + 1 ELSE 0) = n /\ 1..((n - 1) + 1) = 1..n
  OBVIOUS
<1>4. \A p \in 1..n : (1 + p) - 1 = p
  OBVIOUS
<1>5. QED
  BY <1>2, <1>3, <1>4

\* An answer: as many of the items as it has room for, and all conflicts.
LEMMA AnswerIs ==
  ASSUME NEW rows, NEW m \in Nat, Holds(rows, m), NEW caller, NEW conflicts,
         NEW asked, NEW maxItems,
         NEW answer, answer = BuildContext(caller, rows, conflicts, asked, maxItems),
         NEW D, D = InSight(caller, rows), NEW items, items = Items(rows, D)
  PROVE  \E k \in Nat : \E n \in 0..k :
           /\ Len(items) = k /\ DOMAIN items = 1..k
           /\ answer.found = D
           /\ answer.conflicts = OpenConflicts(caller, rows, conflicts, D)
           /\ answer.items \in Seq(Groups(rows, D)) /\ Len(answer.items) = n
           /\ DOMAIN answer.items = 1..n
           /\ \A p \in 1..n : answer.items[p] = items[p]
           /\ ~answer.incomplete => answer.quoted /\ n = k
           /\ n # 0 => answer.used <= answer.limit
<1>1. Rated(rows, D)
  BY FoundAre
<1>2. PICK G : G = Groups(rows, D)
  OBVIOUS
<1>3. PICK k \in Nat : InPlace(items, G, k)
  BY <1>1, <1>2, ItemsAre
<1>4. /\ items \in Seq(G) /\ Len(items) = k /\ DOMAIN items = 1..k
      /\ \A p \in 1..k : items[p] \in G
  BY <1>3 DEF InPlace
<1> DEFINE limit == IF asked < MaxLimit THEN asked ELSE MaxLimit
           costs == [i \in DOMAIN items |-> ItemCost(items[i])]
           open == OpenConflicts(caller, rows, conflicts, D)
           fitted == Fit(open, limit \div 2)
           n == Room(costs, fitted.cost, limit, maxItems)
<1>5. answer = [items |-> SubSeq(items, 1, n), conflicts |-> fitted.conflicts,
                quoted |-> fitted.quoted, incomplete |-> ~fitted.quoted \/ n < Len(items),
                used |-> fitted.cost + Cost(costs, n), limit |-> limit, found |-> D]
  BY DEF BuildContext, InSight
<1>6. fitted.conflicts = open
  BY DEF Fit
<1>7. DOMAIN costs = 1..k
  BY <1>4
<1> HIDE DEF limit, costs, open, fitted
<1>8. n \in 0..k /\ (n # 0 => fitted.cost + Cost(costs, n) <= limit)
  BY <1>7, RoomIs
<1> HIDE DEF n
<1>9. /\ SubSeq(items, 1, n) \in Seq(G) /\ Len(SubSeq(items, 1, n)) = n
      /\ \A p \in 1..n : SubSeq(items, 1, n)[p] = items[p]
  BY <1>4, <1>8, TheFirst
<1>10. DOMAIN SubSeq(items, 1, n) = 1..n
  BY <1>9, LenProperties
<1>11. ~(n < k) => n = k
  BY <1>8
<1>12. /\ answer.found = D
       /\ answer.conflicts = OpenConflicts(caller, rows, conflicts, D)
       /\ answer.items = SubSeq(items, 1, n)
       /\ answer.limit = limit /\ answer.used = fitted.cost + Cost(costs, n)
       /\ answer.quoted = fitted.quoted
       /\ ~answer.incomplete => fitted.quoted /\ ~(n < Len(items))
  <2>1. PICK shown : shown = SubSeq(items, 1, n)
    OBVIOUS
  <2>2. PICK short : short = (~fitted.quoted \/ n < Len(items))
    OBVIOUS
  <2>3. answer = [items |-> shown, conflicts |-> fitted.conflicts, quoted |-> fitted.quoted,
                  incomplete |-> short, used |-> fitted.cost + Cost(costs, n),
                  limit |-> limit, found |-> D]
    BY <1>5, <2>1, <2>2, Zenon
  <2>4. /\ answer.found = D /\ answer.limit = limit /\ answer.items = shown
        /\ answer.conflicts = fitted.conflicts /\ answer.quoted = fitted.quoted
        /\ answer.used = fitted.cost + Cost(costs, n) /\ answer.incomplete = short
    BY <2>3
  <2>5. fitted.conflicts = OpenConflicts(caller, rows, conflicts, D)
    BY <1>6 DEF open
  <2>6. ~answer.incomplete => ~(~fitted.quoted \/ n < Len(items))
    BY <2>2, <2>4, Zenon
  <2>7. QED
    BY <2>1, <2>4, <2>5, <2>6, Zenon
<1>13. ~answer.incomplete => answer.quoted /\ n = k
  BY <1>4, <1>11, <1>12
<1>14. n # 0 => answer.used <= answer.limit
  BY <1>8, <1>12
<1>15. answer.items \in Seq(G) /\ Len(answer.items) = n /\ DOMAIN answer.items = 1..n
  BY <1>9, <1>10, <1>12
<1>16. \A p \in 1..n : answer.items[p] = items[p]
  BY <1>9, <1>12
<1>17. QED
  BY <1>2, <1>4, <1>8, <1>12, <1>13, <1>14, <1>15, <1>16

-----------------------------------------------------------------------------
\* Nothing is left out in silence, and no side of a conflict at all.
LEMMA MissingIsSaid ==
  ASSUME NEW rows, NEW m \in Nat, Holds(rows, m), NEW caller, NEW conflicts,
         NEW asked, NEW maxItems,
         NEW answer, answer = BuildContext(caller, rows, conflicts, asked, maxItems)
  PROVE  SaysWhatIsMissing(caller, rows, conflicts, answer)
<1>1. PICK D : D = InSight(caller, rows)
  OBVIOUS
<1>2. PICK items : items = Items(rows, D)
  OBVIOUS
<1>3. PICK k \in Nat : \E n \in 0..k :
           /\ Len(items) = k /\ DOMAIN items = 1..k
           /\ answer.found = D
           /\ answer.conflicts = OpenConflicts(caller, rows, conflicts, D)
           /\ answer.items \in Seq(Groups(rows, D)) /\ Len(answer.items) = n
           /\ DOMAIN answer.items = 1..n
           /\ \A p \in 1..n : answer.items[p] = items[p]
           /\ ~answer.incomplete => answer.quoted /\ n = k
           /\ n # 0 => answer.used <= answer.limit
  BY <1>1, <1>2, AnswerIs
<1>4. PICK n \in 0..k :
           /\ Len(items) = k /\ DOMAIN items = 1..k
           /\ answer.found = D
           /\ answer.conflicts = OpenConflicts(caller, rows, conflicts, D)
           /\ answer.items \in Seq(Groups(rows, D)) /\ Len(answer.items) = n
           /\ DOMAIN answer.items = 1..n
           /\ \A p \in 1..n : answer.items[p] = items[p]
           /\ ~answer.incomplete => answer.quoted /\ n = k
           /\ n # 0 => answer.used <= answer.limit
  BY <1>3
<1>5. \A sides \in conflicts :
       (\A i \in sides : MayRead(caller, rows[i])) /\ sides \cap answer.found # {}
         /\ (caller = "owner" \/ \A i \in sides : rows[i].scope = "workspace")
         => sides \in answer.conflicts
  BY <1>4 DEF OpenConflicts
<1>6. ~answer.incomplete => answer.quoted /\ Cited(answer) = answer.found
  <2> HAVE ~answer.incomplete
  <2>1. Rated(rows, D)
    BY <1>1, FoundAre
  <2>2. PICK G : G = Groups(rows, D)
    OBVIOUS
  <2>3. PICK l \in Nat : InPlace(items, G, l)
    BY <1>2, <2>1, <2>2, ItemsAre
  <2>4. /\ Len(items) = l /\ \A p \in 1..l : items[p] \in G
        /\ \A g \in G : \E p \in 1..l : items[p] = g
    BY <2>3 DEF InPlace
  <2>5. l = k /\ n = k
    BY <1>4, <2>4
  <2>6. \A g \in G : g \in SUBSET D
    BY <2>1, <2>2, GroupsAre DEF Rated
  <2>7. \A i \in D : \E g \in G : i \in g
    BY <2>1, <2>2, GroupsAre DEF Rated
  <2>8. Range(answer.items) = {items[p] : p \in 1..k}
    BY <1>4, <2>5 DEF Range
  <2>9. Cited(answer) \subseteq D
    BY <2>4, <2>5, <2>6, <2>8 DEF Cited
  <2>10. D \subseteq Cited(answer)
    <3> SUFFICES ASSUME NEW i \in D PROVE i \in Cited(answer)
      OBVIOUS
    <3>1. PICK g \in G : i \in g
      BY <2>7
    <3>2. g \in Range(answer.items)
      BY <2>4, <2>5, <2>8
    <3>3. QED
      BY <3>1, <3>2 DEF Cited
  <2>11. QED
    BY <1>4, <2>9, <2>10
<1>7. answer.items # <<>> => answer.used <= answer.limit
  <2> HAVE answer.items # <<>>
  <2>1. n # 0
    BY <1>4, EmptySeq
  <2>2. QED
    BY <1>4, <2>1
<1>8. QED
  BY <1>5, <1>6, <1>7 DEF SaysWhatIsMissing

\* What is left out is less relevant than all that is shown.
LEMMA TheBestIsFirst ==
  ASSUME NEW rows, NEW m \in Nat, Holds(rows, m), NEW caller, NEW conflicts,
         NEW asked, NEW maxItems,
         NEW answer, answer = BuildContext(caller, rows, conflicts, asked, maxItems)
  PROVE  BestFirst(rows, answer)
<1>1. PICK D : D = InSight(caller, rows)
  OBVIOUS
<1>2. PICK items : items = Items(rows, D)
  OBVIOUS
<1>3. PICK k \in Nat : \E n \in 0..k :
           /\ Len(items) = k /\ answer.found = D /\ DOMAIN answer.items = 1..n
           /\ \A p \in 1..n : answer.items[p] = items[p]
  BY <1>1, <1>2, AnswerIs
<1>4. PICK n \in 0..k :
           /\ Len(items) = k /\ answer.found = D /\ DOMAIN answer.items = 1..n
           /\ \A p \in 1..n : answer.items[p] = items[p]
  BY <1>3
<1>5. Rated(rows, D)
  BY <1>1, FoundAre
<1>6. PICK G : G = Groups(rows, D)
  OBVIOUS
<1>7. PICK l \in Nat : InPlace(items, G, l) /\ InRank(rows, items, l)
  BY <1>2, <1>5, <1>6, ItemsAre
<1>8. /\ Len(items) = l /\ \A p \in 1..l : items[p] \in G
      /\ \A g \in G : \E p \in 1..l : items[p] = g
      /\ \A p, q \in 1..l : p < q =>
           \E j \in items[p] : \A i \in items[q] : Better(rows, j, i)
  BY <1>7 DEF InPlace, InRank
<1>9. l = k
  BY <1>4, <1>8
<1>10. ASSUME NEW i \in answer.found \ Cited(answer), NEW j \in DOMAIN answer.items
       PROVE  \E x \in answer.items[j] : Better(rows, x, i)
  <2>1. PICK g \in G : i \in g
    BY <1>4, <1>5, <1>6, GroupsAre DEF Rated
  <2>2. PICK q \in 1..k : items[q] = g
    BY <1>8, <1>9
  <2>3. q \notin 1..n
    <3> SUFFICES ASSUME q \in 1..n PROVE FALSE
      OBVIOUS
    <3>1. g \in Range(answer.items)
      BY <1>4, <2>2 DEF Range
    <3>2. QED
      BY <2>1, <3>1 DEF Cited
  <2>4. j \in 1..n /\ j \in 1..k /\ j < q
    BY <1>4, <2>3
  <2>5. PICK x \in items[j] : \A y \in items[q] : Better(rows, x, y)
    BY <1>8, <1>9, <2>4
  <2>6. QED
    BY <1>4, <2>1, <2>2, <2>4, <2>5
<1>11. ASSUME NEW j \in DOMAIN answer.items, NEW a \in answer.items[j], NEW b \in answer.items[j]
       PROVE  rows[a].scope = rows[b].scope
  <2>1. j \in 1..k /\ answer.items[j] = items[j] /\ items[j] \in G
    BY <1>4, <1>8, <1>9
  <2>2. a \in D /\ b \in D
    BY <1>5, <1>6, <2>1, GroupsAre DEF Rated
  <2>3. ContentHash(rows[a]) = ContentHash(rows[b])
    BY <1>5, <1>6, <2>1, <2>2, GroupsAre DEF Rated
  <2>4. QED
    BY <2>3 DEF ContentHash
<1>12. QED
  BY <1>10, <1>11 DEF BestFirst

-----------------------------------------------------------------------------
\* Two stores of which one shows the other: the same rows, in the same order,
\* at other places.
Image(f, g) == {f[p] : p \in g}
Mirrors(f, rest, E, rows, D) ==
  /\ f \in Bijection(E, D)
  /\ \A p \in E : rest[p] = rows[f[p]]
  /\ \A p, q \in E : p < q <=> f[p] < f[q]

\* Of two rows, the better one is the better one in both.
LEMMA MirrorsAre ==
  ASSUME NEW rest, NEW E, Rated(rest, E), NEW rows, NEW D, Rated(rows, D),
         NEW f, Mirrors(f, rest, E, rows, D)
  PROVE  /\ \A p \in E : f[p] \in D /\ rest[p] = rows[f[p]]
         /\ \A p, q \in E : f[p] = f[q] => p = q
         /\ \A i \in D : \E p \in E : f[p] = i
         /\ \A p, q \in E : Better(rest, p, q) <=> Better(rows, f[p], f[q])
<1>1. /\ \A p \in E : f[p] \in D /\ rest[p] = rows[f[p]]
      /\ \A p, q \in E : f[p] = f[q] => p = q
      /\ \A i \in D : \E p \in E : f[p] = i
      /\ \A p, q \in E : p < q <=> f[p] < f[q]
  BY DEF Mirrors, Bijection, Injection, Surjection, IsInjective
<1>2. \A p, q \in E : Better(rest, p, q) <=> Better(rows, f[p], f[q])
  BY <1>1 DEF Better
<1>3. QED
  BY <1>1, <1>2

\* What is in a group here is in a group there, and the groups have their order.
LEMMA GroupsMirror ==
  ASSUME NEW rest, NEW E, Rated(rest, E), NEW rows, NEW D, Rated(rows, D),
         NEW f, Mirrors(f, rest, E, rows, D),
         NEW H, H = Groups(rest, E), NEW G, G = Groups(rows, D),
         NEW psi, psi = [g \in H |-> Image(f, g)]
  PROVE  /\ psi \in Bijection(H, G)
         /\ \A g, h \in H : h \in Ahead(rest, H)[g] <=> psi[h] \in Ahead(rows, G)[psi[g]]
<1> DEFINE alike(i) == {j \in D : ContentHash(rows[j]) = ContentHash(rows[i])}
           like(i) == {j \in E : ContentHash(rest[j]) = ContentHash(rest[i])}
<1>1. H = {like(i) : i \in E} /\ G = {alike(i) : i \in D}
  BY DEF Groups
<1>2. /\ \A p \in E : f[p] \in D /\ rest[p] = rows[f[p]]
      /\ \A p, q \in E : f[p] = f[q] => p = q
      /\ \A i \in D : \E p \in E : f[p] = i
      /\ \A p, q \in E : Better(rest, p, q) <=> Better(rows, f[p], f[q])
  BY MirrorsAre
<1>3. ASSUME NEW i \in E PROVE Image(f, like(i)) = alike(f[i])
  <2>1. ASSUME NEW j \in Image(f, like(i)) PROVE j \in alike(f[i])
    <3>1. PICK p \in like(i) : j = f[p]
      BY <2>1 DEF Image
    <3>2. QED
      BY <1>2, <3>1
  <2>2. ASSUME NEW j \in alike(f[i]) PROVE j \in Image(f, like(i))
    <3>1. PICK p \in E : f[p] = j
      BY <1>2
    <3>2. p \in like(i)
      BY <1>2, <3>1
    <3>3. QED
      BY <3>1, <3>2 DEF Image
  <2>3. QED
    BY <2>1, <2>2
<1>4. \A g \in H : g \in SUBSET E
  BY <1>1
<1> HIDE DEF alike, like
<1>5. \A g \in H : psi[g] = Image(f, g)
  OBVIOUS
<1>6. \A g \in H : psi[g] \in G
  BY <1>1, <1>2, <1>3, <1>5
<1>7. \A g \in G : \E h \in H : psi[h] = g
  <2> TAKE g \in G
  <2>1. PICK i \in D : g = alike(i)
    BY <1>1
  <2>2. PICK p \in E : f[p] = i
    BY <1>2
  <2>3. like(p) \in H /\ psi[like(p)] = g
    BY <1>1, <1>3, <1>5, <2>1, <2>2
  <2>4. QED
    BY <2>3
<1>8. \A g, h \in H : psi[g] = psi[h] => g = h
  <2> SUFFICES ASSUME NEW g \in H, NEW h \in H, Image(f, g) = Image(f, h) PROVE g = h
    BY <1>5
  <2>1. \A p \in E : p \in g <=> f[p] \in Image(f, g)
    BY <1>2, <1>4 DEF Image
  <2>2. \A p \in E : p \in h <=> f[p] \in Image(f, h)
    BY <1>2, <1>4 DEF Image
  <2>3. QED
    BY <1>4, <2>1, <2>2
<1>9. psi \in Bijection(H, G)
  <2>1. psi \in [H -> G]
    BY <1>6
  <2>2. QED
    BY <1>7, <1>8, <2>1 DEF Bijection, Injection, Surjection, IsInjective
<1>10. ASSUME NEW g \in H, NEW h \in H
       PROVE  h \in Ahead(rest, H)[g] <=> psi[h] \in Ahead(rows, G)[psi[g]]
  <2>1. h \in Ahead(rest, H)[g] <=> \E j \in h : \A i \in g : Better(rest, j, i)
    BY GroupsOrdered
  <2>2. psi[h] \in Ahead(rows, G)[psi[g]] <=>
          \E j \in psi[h] : \A i \in psi[g] : Better(rows, j, i)
    BY <1>6, GroupsOrdered
  <2>3. psi[g] = Image(f, g) /\ psi[h] = Image(f, h) /\ g \in SUBSET E /\ h \in SUBSET E
    BY <1>4, <1>5
  <2>4. ASSUME NEW j \in h, \A i \in g : Better(rest, j, i)
        PROVE  \E k \in Image(f, h) : \A i \in Image(f, g) : Better(rows, k, i)
    <3>1. f[j] \in Image(f, h)
      BY DEF Image
    <3>2. \A i \in g : Better(rows, f[j], f[i])
      BY <1>2, <2>3, <2>4
    <3>3. \A i \in Image(f, g) : Better(rows, f[j], i)
      BY <3>2 DEF Image
    <3>4. QED
      BY <3>1, <3>3
  <2>5. ASSUME NEW k \in Image(f, h), \A i \in Image(f, g) : Better(rows, k, i)
        PROVE  \E j \in h : \A i \in g : Better(rest, j, i)
    <3>1. PICK j \in h : k = f[j]
      BY <2>5 DEF Image
    <3>2. \A i \in g : f[i] \in Image(f, g)
      BY DEF Image
    <3>3. \A i \in g : Better(rest, j, i)
      BY <1>2, <2>3, <2>5, <3>1, <3>2
    <3>4. QED
      BY <3>3
  <2>6. QED
    BY <2>1, <2>2, <2>3, <2>4, <2>5
<1>11. QED
  BY <1>9, <1>10

SayAlike(rest, u, rows, v, k) ==
  /\ Len(u) = k /\ DOMAIN u = 1..k /\ Len(v) = k /\ DOMAIN v = 1..k
  /\ \A p \in 1..k : /\ Cardinality(v[p]) = Cardinality(u[p])
                     /\ ContentHash(rows[Max(v[p])]) = ContentHash(rest[Max(u[p])])

\* The items of the one are those of the other, and say the same.
LEMMA ItemsMirror ==
  ASSUME NEW c \in Nat, NEW rest, NEW E \in SUBSET (1..c), Rated(rest, E),
         NEW m \in Nat, NEW rows, NEW D \in SUBSET (1..m), Rated(rows, D),
         NEW f, Mirrors(f, rest, E, rows, D),
         NEW u, u = Items(rest, E), NEW v, v = Items(rows, D)
  PROVE  \E k \in Nat :
           SayAlike(rest, u, rows, v, k)
<1>1. PICK H : H = Groups(rest, E)
  OBVIOUS
<1>2. PICK G : G = Groups(rows, D)
  OBVIOUS
<1>3. PICK psi : psi = [g \in H |-> Image(f, g)]
  OBVIOUS
<1>4. /\ psi \in Bijection(H, G)
      /\ \A g, h \in H : h \in Ahead(rest, H)[g] <=> psi[h] \in Ahead(rows, G)[psi[g]]
  BY <1>1, <1>2, <1>3, GroupsMirror
<1>5. Orders(Ahead(rest, H), H) /\ Orders(Ahead(rows, G), G)
  BY <1>1, <1>2, GroupsOrdered
<1>6. u = InOrder(H, Ahead(rest, H)) /\ v = InOrder(G, Ahead(rows, G))
  BY <1>1, <1>2 DEF Items
<1>7. PICK k \in Nat : k = Cardinality(H)
  BY <1>5, FS_CardinalityType DEF Orders
<1>8. Cardinality(G) = k /\ \A p \in 1..k : v[p] = psi[u[p]]
  BY <1>4, <1>5, <1>6, <1>7, SameOrder
<1>9. Len(u) = k /\ DOMAIN u = 1..k /\ \A p \in 1..k : u[p] \in H
  BY <1>5, <1>6, <1>7, InOrderIs DEF InPlace
<1>10. Len(v) = k /\ DOMAIN v = 1..k /\ \A p \in 1..k : v[p] \in G
  BY <1>5, <1>6, <1>8, InOrderIs DEF InPlace
<1>11. /\ \A p \in E : f[p] \in D /\ rest[p] = rows[f[p]]
       /\ \A p, q \in E : f[p] = f[q] => p = q
  BY MirrorsAre
<1>12. ASSUME NEW p \in 1..k
       PROVE  /\ Cardinality(v[p]) = Cardinality(u[p])
              /\ ContentHash(rows[Max(v[p])]) = ContentHash(rest[Max(u[p])])
  <2>1. PICK h \in H : h = u[p]
    BY <1>9
  <2>2. PICK g \in G : g = v[p]
    BY <1>10
  <2>3. g = Image(f, h)
    BY <1>3, <1>8, <2>1, <2>2
  <2>4. h \in SUBSET E /\ h # {} /\ IsFiniteSet(h)
    BY <1>1, GroupsAre DEF Rated
  <2>5. g \in SUBSET D /\ g # {}
    BY <1>2, GroupsAre DEF Rated
  <2>6. Cardinality(g) = Cardinality(h)
    <3> DEFINE b == [x \in h |-> f[x]]
    <3>1. b \in [h -> g] /\ \A t \in g : \E x \in h : b[x] = t
      BY <2>3 DEF Image
    <3>2. \A x, y \in h : b[x] = b[y] => x = y
      BY <1>11, <2>4
    <3> HIDE DEF b
    <3>3. b \in Bijection(h, g)
      BY <3>1, <3>2 DEF Bijection, Injection, Surjection, IsInjective
    <3>4. ExistsBijection(h, g)
      BY <3>3 DEF ExistsBijection
    <3>5. QED
      BY <2>4, <3>4, FS_Bijection
  <2>7. Max(h) \in h
    <3>1. h \in SUBSET (0..c)
      BY <2>4
    <3>2. QED
      BY <2>4, <3>1, MaxIs
  <2>8. Max(g) \in g
    <3>1. g \in SUBSET (0..m)
      BY <2>5
    <3>2. QED
      BY <2>5, <3>1, MaxIs
  <2>9. PICK x \in h : Max(g) = f[x]
    BY <2>3, <2>8 DEF Image
  <2>10. ContentHash(rest[x]) = ContentHash(rest[Max(h)])
    BY <1>1, <2>4, <2>7, GroupsAre DEF Rated
  <2>11. rest[x] = rows[Max(g)]
    BY <1>11, <2>4, <2>9
  <2>12. QED
    BY <2>1, <2>2, <2>6, <2>10, <2>11
<1>13. SayAlike(rest, u, rows, v, k)
  BY <1>9, <1>10, <1>12 DEF SayAlike
<1>14. QED
  BY <1>7, <1>13

-----------------------------------------------------------------------------
\* A store without what the caller may not read: the same rows in the same order.
Mine(caller, rows, m) == {i \in 1..m : MayRead(caller, rows[i])}
UpTo(S, i) == {j \in S : j <= i}
Follows(at, c, mine) ==
  /\ at \in [1..c -> mine]
  /\ \A i \in mine : \E p \in 1..c : at[p] = i
  /\ \A p, q \in 1..c : p < q <=> at[p] < at[q]
  /\ \A p, q \in 1..c : at[p] = at[q] => p = q
Copies(rest, rows, at, c) == Holds(rest, c) /\ \A p \in 1..c : rest[p] = rows[at[p]]

LEMMA RestIs ==
  ASSUME NEW m \in Nat, NEW rows, Holds(rows, m), NEW caller,
         NEW mine, mine = Mine(caller, rows, m),
         NEW at, at = Places(caller, rows),
         NEW rest, rest = Readable(caller, rows)
  PROVE  \E c \in Nat :
           Follows(at, c, mine) /\ Copies(rest, rows, at, c)
<1> DEFINE ahead == [i \in mine |-> {j \in mine : j < i}]
<1>1. mine \in SUBSET (1..m) /\ IsFiniteSet(mine) /\ \A i \in mine : MayRead(caller, rows[i])
  <2>1. IsFiniteSet(1..m)
    BY FS_Interval
  <2>2. mine \in SUBSET (1..m) /\ \A i \in mine : MayRead(caller, rows[i])
    BY DEF Mine
  <2>3. QED
    BY <2>1, <2>2, FS_Subset
<1>2. Orders(ahead, mine)
  <2>1. \A i \in mine : ahead[i] \in SUBSET mine /\ i \notin ahead[i]
    BY <1>1
  <2>2. \A i, j \in mine : i \in ahead[j] => ahead[i] \subseteq ahead[j]
    BY <1>1
  <2>3. \A i, j \in mine : i # j => i \in ahead[j] \/ j \in ahead[i]
    BY <1>1
  <2>4. QED
    BY <1>1, <2>1, <2>2, <2>3 DEF Orders
<1>3. \A i, j \in mine : j \in ahead[i] <=> j < i
  OBVIOUS
<1>4. at = InOrder(mine, ahead)
  <2>1. mine = {i \in DOMAIN rows : MayRead(caller, rows[i])}
    BY DEF Holds, Mine
  <2>2. QED
    BY <2>1 DEF Places
<1> HIDE DEF ahead
<1>5. PICK c \in Nat : c = Cardinality(mine)
  BY <1>1, FS_CardinalityType
<1>6. /\ at \in Seq(mine) /\ Len(at) = c /\ DOMAIN at = 1..c
      /\ \A p \in 1..c : at[p] \in mine
      /\ \A i \in mine : \E p \in 1..c : at[p] = i
  <2>1. InPlace(at, mine, c)
    BY <1>2, <1>4, <1>5, InOrderIs
  <2>2. QED
    BY <2>1 DEF InPlace
<1>7. \A i \in mine : \E p \in 1..c : at[p] = i
  BY <1>6
<1>8. \A p, q \in 1..c : (p < q <=> at[p] \in ahead[at[q]]) /\ (at[p] = at[q] => p = q)
  BY <1>2, <1>4, <1>5, InOrderMeans
<1>9. rest = [p \in 1..c |-> rows[at[p]]]
  BY <1>6 DEF Readable
<1>10. Holds(rest, c)
  <2>1. \A p \in 1..c : at[p] \in 1..m
    BY <1>1, <1>6
  <2>2. \A p \in 1..c : rows[at[p]].score \in Nat
    BY <2>1 DEF Holds
  <2>3. QED
    BY <1>9, <2>2 DEF Holds
<1>11. \A p, q \in 1..c : p < q <=> at[p] < at[q]
  BY <1>3, <1>6, <1>8
<1>12. at \in [1..c -> mine] /\ \A p \in 1..c : rest[p] = rows[at[p]]
  BY <1>6, <1>9
<1>13. Follows(at, c, mine)
  BY <1>7, <1>8, <1>11, <1>12 DEF Follows
<1>14. Copies(rest, rows, at, c)
  BY <1>10, <1>12 DEF Copies
<1>15. QED
  BY <1>13, <1>14

\* As far back in the one as in the other.
LEMMA AsFarBack ==
  ASSUME NEW c \in Nat, NEW mine \in SUBSET Nat, NEW at, Follows(at, c, mine), NEW p \in 1..c
  PROVE  Cardinality(UpTo(mine, at[p])) = Cardinality(UpTo(1..c, p))
<1>1. /\ at \in [1..c -> mine]
      /\ \A i \in mine : \E q \in 1..c : at[q] = i
      /\ \A q, r \in 1..c : q < r <=> at[q] < at[r]
      /\ \A q, r \in 1..c : at[q] = at[r] => q = r
  BY DEF Follows
<1>2. PICK S : S = {q \in 1..c : q <= p}
  OBVIOUS
<1>3. PICK T : T = {j \in mine : j <= at[p]}
  OBVIOUS
<1>4. \A q \in 1..c : q <= p <=> at[q] <= at[p]
  <2> TAKE q \in 1..c
  <2>1. at[q] \in mine /\ at[p] \in mine
    BY <1>1
  <2>2. at[q] \in Nat /\ at[p] \in Nat
    BY <2>1
  <2>3. p < q <=> at[p] < at[q]
    BY <1>1
  <2>4. QED
    BY <2>2, <2>3
<1> DEFINE b == [q \in S |-> at[q]]
<1>5. b \in [S -> T]
  BY <1>1, <1>2, <1>3, <1>4
<1>6. \A j \in T : \E q \in S : b[q] = j
  BY <1>1, <1>2, <1>3, <1>4
<1>7. \A q, r \in S : b[q] = b[r] => q = r
  BY <1>1, <1>2
<1> HIDE DEF b
<1>8. b \in Bijection(S, T)
  BY <1>5, <1>6, <1>7 DEF Bijection, Injection, Surjection, IsInjective
<1>9. ExistsBijection(S, T)
  BY <1>8 DEF ExistsBijection
<1>10. IsFiniteSet(S)
  <2>1. IsFiniteSet(1..c)
    BY FS_Interval
  <2>2. S \in SUBSET (1..c)
    BY <1>2
  <2>3. QED
    BY <2>1, <2>2, FS_Subset
<1>11. QED
  BY <1>2, <1>3, <1>9, <1>10, FS_Bijection DEF UpTo

\* The same rows are found.
LEMMA RestMirrors ==
  ASSUME NEW m \in Nat, NEW rows, Holds(rows, m), NEW caller,
         NEW D, D = InSight(caller, rows),
         NEW rest, rest = Readable(caller, rows), NEW E, E = InSight(caller, rest)
  PROVE  \E c \in Nat : Holds(rest, c) /\ \E f : Mirrors(f, rest, E, rows, D)
<1>1. PICK mine : mine = Mine(caller, rows, m)
  OBVIOUS
<1>2. PICK at : at = Places(caller, rows)
  OBVIOUS
<1>3. PICK c \in Nat : Follows(at, c, mine) /\ Copies(rest, rows, at, c)
  BY <1>1, <1>2, RestIs
<1>4. /\ at \in [1..c -> mine]
      /\ \A i \in mine : \E p \in 1..c : at[p] = i
      /\ \A p, q \in 1..c : p < q <=> at[p] < at[q]
      /\ \A p, q \in 1..c : at[p] = at[q] => p = q
      /\ Holds(rest, c) /\ \A p \in 1..c : rest[p] = rows[at[p]]
  BY <1>3 DEF Follows, Copies
<1>5. mine \in SUBSET (1..m) /\ \A i \in mine : MayRead(caller, rows[i])
  BY <1>1 DEF Mine
<1>6. PICK R : R = Considered(caller, rest)
  OBVIOUS
<1>7. PICK S : S = Considered(caller, rows)
  OBVIOUS
<1>8. R = {p \in 1..c : Cardinality(UpTo(1..c, p)) <= Newest}
  <2>1. {p \in DOMAIN rest : MayRead(caller, rest[p])} = 1..c
    <3>1. DOMAIN rest = 1..c
      BY <1>4 DEF Holds
    <3>2. \A p \in 1..c : at[p] \in mine /\ rest[p] = rows[at[p]]
      BY <1>4
    <3>3. \A p \in 1..c : MayRead(caller, rest[p])
      BY <1>5, <3>2
    <3>4. QED
      BY <3>1, <3>3
  <2>2. QED
    BY <1>6, <2>1 DEF Considered, UpTo
<1>9. S = {i \in mine : Cardinality(UpTo(mine, i)) <= Newest}
  <2>1. {i \in DOMAIN rows : MayRead(caller, rows[i])} = mine
    BY <1>1 DEF Holds, Mine
  <2>2. QED
    BY <1>7, <2>1 DEF Considered, UpTo
<1>10. \A p \in 1..c : Cardinality(UpTo(mine, at[p])) = Cardinality(UpTo(1..c, p))
  <2>1. mine \in SUBSET Nat
    BY <1>5
  <2>2. QED
    BY <1>3, <2>1, AsFarBack
<1>11. \A p \in 1..c : p \in R <=> at[p] \in S
  BY <1>4, <1>8, <1>9, <1>10
<1>12. R \in SUBSET (1..c) /\ S \in SUBSET mine
  BY <1>8, <1>9
<1>13. E = Found(rest, R) /\ D = Found(rows, S)
  BY <1>6, <1>7 DEF InSight
<1>14. \A p \in 1..c : at[p] \in mine
  BY <1>4
<1>15. E \in SUBSET (1..c) /\ D \in SUBSET mine /\ \A p \in 1..c : p \in E <=> at[p] \in D
  <2> DEFINE some(table, considered) == {i \in considered : table[i].score > 0}
  <2>1. \A p \in 1..c : p \in some(rest, R) <=> at[p] \in some(rows, S)
    BY <1>4, <1>11
  <2>2. some(rest, R) \in SUBSET (1..c) /\ some(rows, S) \in SUBSET mine
    BY <1>12
  <2>3. E = (IF some(rest, R) = {} THEN R ELSE some(rest, R))
    BY <1>13 DEF Found
  <2>4. D = (IF some(rows, S) = {} THEN S ELSE some(rows, S))
    BY <1>13 DEF Found
  <2> HIDE DEF some
  <2>5. some(rest, R) = {} <=> some(rows, S) = {}
    BY <1>4, <2>1, <2>2
  <2>6. QED
    BY <1>11, <1>12, <2>1, <2>2, <2>3, <2>4, <2>5
<1> DEFINE f == [p \in E |-> at[p]]
<1>16. f \in [E -> D] /\ \A p \in E : f[p] = at[p]
  BY <1>15
<1> HIDE DEF f
<1>17. \A i \in D : \E p \in E : f[p] = i
  BY <1>4, <1>15, <1>16
<1>18. \A p, q \in E : f[p] = f[q] => p = q
  BY <1>4, <1>15, <1>16
<1>19. f \in Bijection(E, D)
  BY <1>16, <1>17, <1>18 DEF Bijection, Injection, Surjection, IsInjective
<1>20. /\ \A p \in E : rest[p] = rows[f[p]]
       /\ \A p, q \in E : p < q <=> f[p] < f[q]
  BY <1>4, <1>15, <1>16
<1>21. Mirrors(f, rest, E, rows, D)
  BY <1>19, <1>20 DEF Mirrors
<1>22. QED
  BY <1>4, <1>21

-----------------------------------------------------------------------------
\* What an answer tells, where nothing is in conflict, follows from its items.
Costs(items) == [i \in DOMAIN items |-> ItemCost(items[i])]
Lines(rows, items, n) ==
  [j \in 1..n |-> <<Cardinality(items[j]), ContentHash(rows[Max(items[j])])>>]
AllowedFor(asked) == IF asked < MaxLimit THEN asked ELSE MaxLimit
NothingOpen(asked) == Fit({}, AllowedFor(asked) \div 2)
HowMany(costs, asked, maxItems) ==
  Room(costs, NothingOpen(asked).cost, AllowedFor(asked), maxItems)

LEMMA ToldIs ==
  ASSUME NEW rows, NEW m \in Nat, Holds(rows, m), NEW caller, NEW asked, NEW maxItems,
         NEW items, items = Items(rows, InSight(caller, rows)),
         NEW answer, answer = BuildContext(caller, rows, {}, asked, maxItems)
  PROVE  \E n \in 0..Len(items) :
           /\ n = HowMany(Costs(items), asked, maxItems)
           /\ Told(rows, answer)
                = [items |-> Lines(rows, items, n),
                   incomplete |-> (~NothingOpen(asked).quoted \/ n < Len(items))]
<1>1. PICK D : D = InSight(caller, rows)
  OBVIOUS
<1>2. PICK G : G = Groups(rows, D)
  OBVIOUS
<1>3. Rated(rows, D)
  BY <1>1, FoundAre
<1>4. PICK k \in Nat : InPlace(items, G, k)
  BY <1>1, <1>2, <1>3, ItemsAre
<1>5. /\ items \in Seq(G) /\ Len(items) = k /\ DOMAIN items = 1..k
      /\ \A p \in 1..k : items[p] \in G
  BY <1>4 DEF InPlace
<1>6. PICK costs : costs = Costs(items)
  OBVIOUS
<1>7. PICK limit : limit = AllowedFor(asked)
  OBVIOUS
<1>8. PICK fitted : fitted = NothingOpen(asked)
  OBVIOUS
<1>9. PICK n : n = Room(costs, fitted.cost, limit, maxItems)
  OBVIOUS
<1>10. OpenConflicts(caller, rows, {}, D) = {}
  BY DEF OpenConflicts
<1>11. answer = [items |-> SubSeq(items, 1, n), conflicts |-> fitted.conflicts,
                 quoted |-> fitted.quoted, incomplete |-> ~fitted.quoted \/ n < Len(items),
                 used |-> fitted.cost + Cost(costs, n), limit |-> limit, found |-> D]
  BY <1>1, <1>6, <1>7, <1>8, <1>9, <1>10 DEF BuildContext, InSight, Costs, AllowedFor, NothingOpen
<1>12. DOMAIN costs = 1..k
  BY <1>5, <1>6 DEF Costs
<1>13. n \in 0..k
  BY <1>9, <1>12, RoomIs
<1>14. PICK shown : shown = SubSeq(items, 1, n)
  OBVIOUS
<1>15. shown \in Seq(G) /\ Len(shown) = n /\ \A p \in 1..n : shown[p] = items[p]
  BY <1>5, <1>13, <1>14, TheFirst
<1>16. PICK short : short = (~fitted.quoted \/ n < Len(items))
  OBVIOUS
<1>17. answer = [items |-> shown, conflicts |-> fitted.conflicts, quoted |-> fitted.quoted,
                 incomplete |-> short, used |-> fitted.cost + Cost(costs, n),
                 limit |-> limit, found |-> D]
  BY <1>11, <1>14, <1>16, Zenon
<1>18. answer.items = shown /\ answer.incomplete = short
  BY <1>17
<1>19. Told(rows, answer) =
         [items |-> [j \in DOMAIN shown |->
                      <<Cardinality(shown[j]), ContentHash(rows[Max(shown[j])])>>],
          incomplete |-> short]
  BY <1>18, Zenon DEF Told
<1>20. DOMAIN shown = 1..n
  BY <1>15, LenProperties
<1>21. [j \in DOMAIN shown |-> <<Cardinality(shown[j]), ContentHash(rows[Max(shown[j])])>>]
         = Lines(rows, items, n)
  BY <1>15, <1>20 DEF Lines
<1>22. Told(rows, answer) = [items |-> Lines(rows, items, n), incomplete |-> short]
  BY <1>19, <1>21, Zenon
<1>23. n = HowMany(Costs(items), asked, maxItems)
  BY <1>6, <1>7, <1>8, <1>9, Zenon DEF HowMany
<1>24. n \in 0..Len(items)
  BY <1>5, <1>13
<1>25. Told(rows, answer)
         = [items |-> Lines(rows, items, n),
            incomplete |-> (~NothingOpen(asked).quoted \/ n < Len(items))]
  BY <1>8, <1>16, <1>22, Zenon
<1>26. QED
  BY <1>23, <1>24, <1>25, Zenon

\* What the caller may not read is not felt.
LEMMA NotFelt ==
  ASSUME NEW rows, NEW m \in Nat, Holds(rows, m), NEW caller, NEW asked, NEW maxItems,
         NEW rest, rest = Readable(caller, rows)
  PROVE  Told(rows, BuildContext(caller, rows, {}, asked, maxItems))
           = Told(rest, BuildContext(caller, rest, {}, asked, maxItems))
<1>1. PICK D : D = InSight(caller, rows)
  OBVIOUS
<1>2. PICK E : E = InSight(caller, rest)
  OBVIOUS
<1>3. PICK c \in Nat : Holds(rest, c) /\ \E f : Mirrors(f, rest, E, rows, D)
  BY <1>1, <1>2, RestMirrors
<1>4. PICK f : Mirrors(f, rest, E, rows, D)
  BY <1>3
<1>5. D \in SUBSET (1..m) /\ Rated(rows, D)
  BY <1>1, FoundAre
<1>6. E \in SUBSET (1..c) /\ Rated(rest, E)
  BY <1>2, <1>3, FoundAre
<1>7. PICK u : u = Items(rest, E)
  OBVIOUS
<1>8. PICK v : v = Items(rows, D)
  OBVIOUS
<1>9. PICK k \in Nat : SayAlike(rest, u, rows, v, k)
  BY <1>3, <1>4, <1>5, <1>6, <1>7, <1>8, ItemsMirror
<1>10. /\ Len(u) = k /\ DOMAIN u = 1..k /\ Len(v) = k /\ DOMAIN v = 1..k
       /\ \A p \in 1..k : /\ Cardinality(v[p]) = Cardinality(u[p])
                          /\ ContentHash(rows[Max(v[p])]) = ContentHash(rest[Max(u[p])])
  BY <1>9 DEF SayAlike
<1>11. PICK a : a = BuildContext(caller, rows, {}, asked, maxItems)
  OBVIOUS
<1>12. PICK b : b = BuildContext(caller, rest, {}, asked, maxItems)
  OBVIOUS
<1>13. PICK n \in 0..Len(v) :
         /\ n = HowMany(Costs(v), asked, maxItems)
         /\ Told(rows, a) = [items |-> Lines(rows, v, n),
                             incomplete |-> (~NothingOpen(asked).quoted \/ n < Len(v))]
  BY <1>1, <1>8, <1>11, ToldIs
<1>14. PICK l \in 0..Len(u) :
         /\ l = HowMany(Costs(u), asked, maxItems)
         /\ Told(rest, b) = [items |-> Lines(rest, u, l),
                             incomplete |-> (~NothingOpen(asked).quoted \/ l < Len(u))]
  BY <1>2, <1>3, <1>7, <1>12, ToldIs
<1>15. Costs(u) = Costs(v)
  BY <1>10 DEF Costs, ItemCost
<1>16. n = l
  BY <1>13, <1>14, <1>15, Zenon
<1>17. Len(u) = Len(v)
  BY <1>10
<1>18. n \in 0..k
  BY <1>10, <1>13
<1>19. Lines(rows, v, n) = Lines(rest, u, n)
  BY <1>10, <1>18 DEF Lines
<1>20. Told(rows, a) = Told(rest, b)
  BY <1>13, <1>14, <1>16, <1>17, <1>19, Zenon
<1>21. QED
  BY <1>11, <1>12, <1>20

-----------------------------------------------------------------------------
\* A recall is honest whatever the store holds, whoever asks, however tight the
\* limit: no open conflict is left out, what is missing is said, what is shown is
\* the best there is, and what others keep private is not felt (context.ts
\* buildContext).
THEOREM RecallsAreHonest == RecallIsHonest
<1> SUFFICES ASSUME NEW rows \in Stores, NEW caller \in Callers, NEW limit \in Limits,
                    NEW maxItems \in 1..2
             PROVE  /\ \A conflicts \in Disputes(rows) :
                         LET answer == BuildContext(caller, rows, conflicts, limit, maxItems)
                         IN SaysWhatIsMissing(caller, rows, conflicts, answer)
                              /\ BestFirst(rows, answer)
                    /\ LET rest == Readable(caller, rows)
                       IN Told(rows, BuildContext(caller, rows, {}, limit, maxItems))
                            = Told(rest, BuildContext(caller, rest, {}, limit, maxItems))
  BY DEF RecallIsHonest
<1>1. PICK m \in Nat : Holds(rows, m)
  <2>1. PICK m \in 1..MaxRows : rows \in [1..m -> Row]
    BY DEF Stores
  <2>2. \A row \in Row : row.score \in Nat
    BY DEF Row
  <2>3. m \in Nat /\ Holds(rows, m)
    BY <2>1, <2>2 DEF Holds
  <2>4. QED
    BY <2>3
<1>2. ASSUME NEW conflicts \in Disputes(rows)
      PROVE  LET answer == BuildContext(caller, rows, conflicts, limit, maxItems)
             IN SaysWhatIsMissing(caller, rows, conflicts, answer) /\ BestFirst(rows, answer)
  <2>1. PICK answer : answer = BuildContext(caller, rows, conflicts, limit, maxItems)
    OBVIOUS
  <2>2. SaysWhatIsMissing(caller, rows, conflicts, answer)
    BY <1>1, <2>1, MissingIsSaid
  <2>3. BestFirst(rows, answer)
    BY <1>1, <2>1, TheBestIsFirst
  <2>4. QED
    BY <2>1, <2>2, <2>3
<1>3. Told(rows, BuildContext(caller, rows, {}, limit, maxItems))
        = Told(Readable(caller, rows), BuildContext(caller, Readable(caller, rows), {}, limit, maxItems))
  BY <1>1, NotFelt
<1>4. QED
  BY <1>2, <1>3

\* A recall's answer is the truth, for any store, limit and number of items, and
\* so it is whenever it is given, whatever other recalls are crediting meanwhile:
\* it depends on the store alone (context.ts buildContext).
THEOREM RecallIsTrue == RecallIsHonest /\ (Spec => []RecallTellsTheTruth)
<1>1. RecallTellsTheTruth
  BY RecallsAreHonest DEF RecallTellsTheTruth
<1>2. Spec => []RecallTellsTheTruth
  BY <1>1, PTL
<1>3. QED
  BY <1>2, RecallsAreHonest

=============================================================================
