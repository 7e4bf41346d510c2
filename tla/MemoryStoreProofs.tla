------------------------- MODULE MemoryStoreProofs -------------------------
(***************************************************************************)
(* What MemoryStore keeps for any agents, records, contents and bounds:    *)
(* typing, the search index, fresh blocks and the reach of a deletion.     *)
(* The four hold together: what search holds is current because a          *)
(* correction is newer than every version of its record, deleted ones      *)
(* included, and a block is fresh only while its sources are.              *)
(***************************************************************************)
EXTENDS MemoryStore, TLAPS

\* A version that was deleted is on file no more, and never comes back.
DeletedIsGone == IdsOf(rows) \cap gone = {}

Apart(R, G) == IdsOf(R) \cap G = {}
Keyed(R) == \A r, q \in R : Id(r) = Id(q) => r = q
OneBlock(B) == \A b, d \in B :
  <<b.topic, b.scope, b.owner>> = <<d.topic, d.scope, d.owner>> => b = d

\* The part of the invariant that says nothing of conflicts.
BookInv ==
  /\ rows \subseteq Row /\ gone \subseteq Ids /\ index \subseteq Ids
  /\ blocks \subseteq Block
  /\ Keyed(rows) /\ OneBlock(blocks)
  /\ SearchIsCurrent
  /\ FreshBlocksAreCurrent
  /\ NoBlockCitesTheDeleted
  /\ DeletedIsGone

ConflictInv ==
  /\ conflict \in [Scopes -> {None} \cup Conflict]
  /\ judged \in [Scopes -> BOOLEAN]

IInv == BookInv /\ ConflictInv

(***************************************************************************)
(* Rows and their ids.                                                     *)
(***************************************************************************)

\* The id of a row is a version id, and taking `current' from a row leaves it
\* a row with the same id.
LEMMA RowFacts ==
  ASSUME NEW r \in Row
  PROVE  /\ Id(r) \in Ids /\ Id(r).record = r.record /\ Id(r).version = r.version
         /\ [r EXCEPT !.current = FALSE] \in Row
         /\ Id([r EXCEPT !.current = FALSE]) = Id(r)
         /\ [r EXCEPT !.current = FALSE].current = FALSE
         /\ Side(r) \in Sides
BY DEF Row, Id, Ids, Side, Sides

\* Marking blocks stale keeps their types and their keys, makes none fresh,
\* and reaches every block that cites one of the records.
LEMMA StaleFacts ==
  ASSUME NEW B, B \subseteq Block, OneBlock(B), NEW S
  PROVE  /\ Stale(B, S) \subseteq Block
         /\ OneBlock(Stale(B, S))
         /\ \A b \in Stale(B, S) : \E d \in B :
              /\ b.sources = d.sources
              /\ ~b.stale => ~d.stale /\ \A i \in d.sources : i.record \notin S
<1> DEFINE M(b) == [b EXCEPT !.stale = @ \/ \E i \in b.sources : i.record \in S]
<1>1. \A b \in B : /\ M(b) \in Block
                   /\ M(b).topic = b.topic /\ M(b).scope = b.scope
                   /\ M(b).owner = b.owner /\ M(b).sources = b.sources
                   /\ M(b).stale = (b.stale \/ \E i \in b.sources : i.record \in S)
  <2> TAKE b \in B
  <2>1. b \in Block
    OBVIOUS
  <2>2. (b.stale \/ \E i \in b.sources : i.record \in S) \in BOOLEAN
    BY <2>1 DEF Block
  <2> QED BY <2>1, <2>2 DEF Block
<1>2. Stale(B, S) = {M(b) : b \in B}
  BY DEF Stale
<1> HIDE DEF M
<1>3. Stale(B, S) \subseteq Block
  BY <1>1, <1>2
<1>4. OneBlock(Stale(B, S))
  BY <1>1, <1>2 DEF OneBlock
<1>5. \A b \in Stale(B, S) : \E d \in B :
        /\ b.sources = d.sources
        /\ ~b.stale => ~d.stale /\ \A i \in d.sources : i.record \notin S
  <2> SUFFICES ASSUME NEW d \in B
               PROVE  /\ M(d).sources = d.sources
                      /\ ~M(d).stale =>
                           ~d.stale /\ \A i \in d.sources : i.record \notin S
    BY <1>2
  <2>1. M(d).stale = (d.stale \/ \E i \in d.sources : i.record \in S)
    BY <1>1
  <2>2. M(d).sources = d.sources
    BY <1>1
  <2> QED BY <2>1, <2>2
<1> QED BY <1>3, <1>4, <1>5

(***************************************************************************)
(* What add, a correction and an import have in common: rows N are new and *)
(* newer than every version of their record, deleted ones included; rows O *)
(* are the current ones they supersede.                                    *)
(***************************************************************************)
Shelved(O) == {[o EXCEPT !.current = FALSE] : o \in O}

Writes(N, O, S) ==
  /\ N \subseteq Row
  /\ \A n \in N : n.current = TRUE
  /\ \A n, p \in N : n.record = p.record => n = p
  /\ \A n \in N : \A i \in IdsOf(rows) \cup gone :
       i.record = n.record => i.version < n.version
  /\ O \subseteq Current(rows)
  /\ \A r \in Current(rows) : r \in O <=> \E n \in N : n.record = r.record
  /\ \A o \in O : o.record \in S
  /\ rows' = (rows \ O) \cup Shelved(O) \cup N
  /\ index' = (index \ IdsOf(O)) \cup IdsOf(N)
  /\ gone' = gone
  /\ blocks' = Stale(blocks, S)

\* Every version ever written, and what a step may do to it: a version that
\* was written is never written again, and never becomes current again.
Known == IdsOf(rows) \cup gone
Onward ==
  /\ Known \subseteq Known'
  /\ \A r \in rows' : Id(r) \in Known =>
       \E p \in rows : Id(p) = Id(r) /\ p.value = r.value /\ (r.current => p = r)

LEMMA WriteKeepsBooks ==
  ASSUME BookInv, NEW N, NEW O, NEW S, Writes(N, O, S)
  PROVE  BookInv' /\ Onward
<1>w. /\ N \subseteq Row /\ \A n \in N : n.current = TRUE
      /\ \A n, p \in N : n.record = p.record => n = p
      /\ \A n \in N : \A i \in IdsOf(rows) \cup gone :
           i.record = n.record => i.version < n.version
      /\ O \subseteq Current(rows)
      /\ \A r \in Current(rows) : r \in O <=> \E n \in N : n.record = r.record
      /\ \A o \in O : o.record \in S
      /\ rows' = (rows \ O) \cup Shelved(O) \cup N
      /\ index' = (index \ IdsOf(O)) \cup IdsOf(N)
      /\ gone' = gone
      /\ blocks' = Stale(blocks, S)
  BY DEF Writes
<1> USE <1>w
<1>a. /\ rows \subseteq Row /\ O \subseteq rows
      /\ \A r \in rows : Id(r) \in Ids /\ Id(r) \in IdsOf(rows)
      /\ \A n \in N : Id(n) \in Ids /\ Id(n).record = n.record
                        /\ Id(n).version = n.version /\ n.version \in Nat
  BY RowFacts DEF BookInv, Current, IdsOf, Row
<1> DEFINE Sh(o) == [o EXCEPT !.current = FALSE]
<1>s. Shelved(O) = {Sh(o) : o \in O}
  BY DEF Shelved
<1>o. \A o \in O : /\ Sh(o) \in Row /\ ~Sh(o).current /\ Id(Sh(o)) = Id(o)
                  /\ Sh(o).value = o.value
  BY <1>a, RowFacts DEF Row
<1> HIDE DEF Sh
<1>b. \A q \in Shelved(O) : /\ q \in Row /\ ~q.current
                           /\ \E o \in O : q = Sh(o) /\ Id(q) = Id(o)
  BY <1>s, <1>o
<1>c. rows' \subseteq Row
  BY <1>a, <1>b
<1>d. \A n \in N : Id(n) \notin IdsOf(rows) \cup gone
  BY <1>a
<1>e. Current(rows') = (Current(rows) \ O) \cup N
  BY <1>b DEF Current
<1>f. IdsOf(rows') = IdsOf(rows) \cup IdsOf(N)
  <2>1. IdsOf(rows') = IdsOf(rows \ O) \cup IdsOf(Shelved(O)) \cup IdsOf(N)
    BY DEF IdsOf
  <2>2. IdsOf(Shelved(O)) = IdsOf(O)
    BY <1>s, <1>o DEF IdsOf
  <2>3. IdsOf(rows) = IdsOf(rows \ O) \cup IdsOf(O)
    BY <1>a DEF IdsOf
  <2> QED BY <2>1, <2>2, <2>3
<1>1. gone' \subseteq Ids /\ index' \subseteq Ids
  BY <1>a DEF BookInv, IdsOf
<1>2. Keyed(rows')
  <2> SUFFICES ASSUME NEW r \in rows', NEW q \in rows', Id(r) = Id(q)
               PROVE  r = q
    BY DEF Keyed
  <2>1. CASE r \in N \/ q \in N
    <3>1. \A x \in (rows \ O) \cup Shelved(O) : Id(x) \in IdsOf(rows)
      BY <1>a, <1>b
    <3> QED BY <2>1, <3>1, <1>a, <1>d
  <2>2. CASE r \notin N /\ q \notin N
    <3>2. \A x, y \in rows : Id(x) = Id(y) => x = y
      BY DEF BookInv, Keyed
    <3>3. r \in (rows \ O) \cup Shelved(O) /\ q \in (rows \ O) \cup Shelved(O)
      BY <2>2
    <3> QED BY <3>2, <3>3, <1>a, <1>b
  <2> QED BY <2>1, <2>2
<1>3. SearchIsCurrent'
  <2>1. index' = IdsOf(Current(rows'))
    <3>1. \A r \in Current(rows) \ O : Id(r) \notin IdsOf(O)
      BY <1>a DEF BookInv, Keyed, Current, IdsOf
    <3>2. IdsOf(Current(rows) \ O) = IdsOf(Current(rows)) \ IdsOf(O)
      BY <3>1 DEF IdsOf
    <3>3. IdsOf(Current(rows')) = IdsOf(Current(rows) \ O) \cup IdsOf(N)
      BY <1>e DEF IdsOf
    <3> QED BY <3>2, <3>3 DEF BookInv, SearchIsCurrent
  <2>2. \A r \in Current(rows') : \A i \in IdsOf(rows') \cup gone' :
          i.record = r.record => i.version <= r.version
    <3> SUFFICES ASSUME NEW r \in Current(rows'), NEW i \in IdsOf(rows') \cup gone',
                        i.record = r.record
                 PROVE  i.version <= r.version
      OBVIOUS
    <3>0. r \in Row /\ r.version \in Nat
      BY <1>c DEF Current, Row
    <3>1. CASE r \in N
      <4>1. CASE i \in IdsOf(rows) \cup gone
        <5>1. i.version \in Nat
          BY <4>1, <1>a DEF BookInv, Ids, IdsOf
        <5> QED BY <5>1, <3>0, <3>1, <4>1
      <4>2. CASE i \in IdsOf(N)
        <5>1. PICK n \in N : i = Id(n)
          BY <4>2 DEF IdsOf
        <5> QED BY <5>1, <3>0, <3>1, <1>a
      <4> QED BY <4>1, <4>2, <1>f
    <3>2. CASE r \in Current(rows) \ O
      <4>1. i \notin IdsOf(N)
        BY <3>2, <1>a DEF IdsOf
      <4>2. i \in IdsOf(rows) \cup gone
        BY <4>1, <1>f
      <4> QED BY <4>2, <3>2 DEF BookInv, SearchIsCurrent, Newest
    <3> QED BY <3>1, <3>2, <1>e
  <2> QED BY <2>1, <2>2 DEF SearchIsCurrent, Newest
<1>4. blocks' \subseteq Block /\ OneBlock(blocks')
  BY StaleFacts DEF BookInv
<1>5. FreshBlocksAreCurrent'
  <2> SUFFICES ASSUME NEW b \in blocks', ~b.stale, NEW i \in b.sources
               PROVE  i \in IdsOf(Current(rows'))
    BY DEF FreshBlocksAreCurrent
  <2>1. PICK d \in blocks : /\ b.sources = d.sources /\ ~d.stale
                            /\ \A j \in d.sources : j.record \notin S
    BY StaleFacts DEF BookInv
  <2>2. PICK r \in Current(rows) : i = Id(r)
    BY <2>1 DEF BookInv, FreshBlocksAreCurrent, IdsOf
  <2>3. r \notin O
    BY <2>1, <2>2, <1>a, RowFacts DEF Current
  <2> QED BY <2>2, <2>3, <1>e DEF IdsOf
<1>6. NoBlockCitesTheDeleted'
  <2>1. \A b \in blocks' : \E d \in blocks : b.sources = d.sources
    BY StaleFacts DEF BookInv
  <2> QED BY <2>1 DEF BookInv, NoBlockCitesTheDeleted
<1>7. DeletedIsGone'
  <2>1. IdsOf(N) \cap gone = {}
    BY <1>d DEF IdsOf
  <2> QED BY <2>1, <1>f DEF BookInv, DeletedIsGone
<1>8. Onward
  <2>1. Known \subseteq Known'
    BY <1>f DEF Known
  <2>2. ASSUME NEW r \in rows', Id(r) \in Known
        PROVE  \E p \in rows : Id(p) = Id(r) /\ p.value = r.value /\ (r.current => p = r)
    <3>1. r \notin N
      BY <1>d, <2>2 DEF Known
    <3>2. CASE r \in rows \ O
      BY <3>2
    <3>3. CASE r \in Shelved(O)
      BY <3>3, <1>a, <1>s, <1>o
    <3> QED BY <3>1, <3>2, <3>3
  <2> QED BY <2>1, <2>2 DEF Onward
<1> QED BY <1>c, <1>1, <1>2, <1>3, <1>4, <1>5, <1>6, <1>7, <1>8 DEF BookInv

(***************************************************************************)
(* The other calls, seen from the books.                                   *)
(***************************************************************************)

\* forget: what it deletes leaves the index, and every block built from a
\* version of the same records goes with it (forget).
LEMMA ForgetKeepsBooks ==
  ASSUME BookInv, NEW who, NEW targets, targets \subseteq rows, Forget(who, targets)
  PROVE  BookInv'
<1>a. /\ rows' = rows \ targets
      /\ gone' = gone \cup IdsOf(targets)
      /\ index' = index \ IdsOf(targets)
      /\ blocks' = Without(blocks, targets)
  BY DEF Forget
<1>b. \A r, q \in rows : Id(r) = Id(q) => r = q
  BY DEF BookInv, Keyed
<1>c. \A r \in rows : Id(r) \in Ids /\ Id(r).record = r.record
  BY RowFacts DEF BookInv
<1>1. rows' \subseteq Row /\ gone' \subseteq Ids /\ index' \subseteq Ids
  BY <1>a, <1>c DEF BookInv, IdsOf
<1>2. /\ blocks' \subseteq blocks
      /\ \A b \in blocks' : \A i \in b.sources :
           \A r \in targets : i.record # r.record
  BY <1>a DEF Without
<1>3. blocks' \subseteq Block /\ OneBlock(blocks') /\ Keyed(rows')
  BY <1>a, <1>2 DEF BookInv, OneBlock, Keyed
<1>4. /\ Current(rows') = Current(rows) \ targets
      /\ IdsOf(rows') = IdsOf(rows) \ IdsOf(targets)
      /\ IdsOf(Current(rows')) = IdsOf(Current(rows)) \ IdsOf(targets)
  BY <1>a, <1>b DEF Current, IdsOf
<1>5. SearchIsCurrent'
  <2>1. index' = IdsOf(Current(rows'))
    BY <1>a, <1>4 DEF BookInv, SearchIsCurrent
  <2>2. IdsOf(rows') \cup gone' \subseteq IdsOf(rows) \cup gone
    BY <1>a, <1>4 DEF IdsOf
  <2>3. \A r \in Current(rows') : \A i \in IdsOf(rows') \cup gone' :
          i.record = r.record => i.version <= r.version
    BY <2>2, <1>4 DEF BookInv, SearchIsCurrent, Newest
  <2> QED BY <2>1, <2>3 DEF SearchIsCurrent, Newest
<1>6. FreshBlocksAreCurrent'
  <2> SUFFICES ASSUME NEW b \in blocks', ~b.stale, NEW i \in b.sources
               PROVE  i \in IdsOf(Current(rows'))
    BY DEF FreshBlocksAreCurrent
  <2>1. i \in IdsOf(Current(rows))
    BY <1>2 DEF BookInv, FreshBlocksAreCurrent
  <2>2. i \notin IdsOf(targets)
    BY <1>2, <1>c DEF IdsOf
  <2> QED BY <2>1, <2>2, <1>4
<1>7. NoBlockCitesTheDeleted'
  <2>1. \A b \in blocks' : b.sources \cap IdsOf(targets) = {}
    BY <1>2, <1>c DEF IdsOf
  <2> QED BY <2>1, <1>2, <1>a DEF BookInv, NoBlockCitesTheDeleted
<1>8. DeletedIsGone'
  BY <1>a, <1>4 DEF BookInv, DeletedIsGone
<1> QED BY <1>1, <1>3, <1>5, <1>6, <1>7, <1>8 DEF BookInv

\* merge: what it builds is built from current rows alone (runMerge).
LEMMA MergeKeepsBooks ==
  ASSUME BookInv, MemoryAssumption, NEW who \in Callers, NEW s \in Scopes, NEW t,
         NEW only, Merge(who, s, t, only)
  PROVE  BookInv'
<1> DEFINE R == Merged(who, s, t, only)
<1>1. PICK f \in Filings(R) :
        blocks' = Rebuild(blocks,
          {BlockOf(who, s, u, {r \in R : f[r] = u}) : u \in {f[r] : r \in R}})
  BY DEF Merge
<1> DEFINE New(u) == BlockOf(who, s, u, {r \in R : f[r] = u})
           us == {f[r] : r \in R}
<1>2. rows' = rows /\ gone' = gone /\ index' = index
  BY DEF Merge
<1>3. R \subseteq Current(rows) /\ R \subseteq rows
  BY DEF Merged, OnTopic, Visible, Current
<1>4. us \subseteq Topics
  BY <1>3 DEF Filings, BookInv, Row
<1>5. BlockOwner(who, s) \in Agents \cup {None}
  BY DEF BlockOwner, Callers
<1>6. \A u \in us : /\ New(u) \in Block
                    /\ New(u).topic = u /\ New(u).scope = s
                    /\ New(u).owner = BlockOwner(who, s)
                    /\ New(u).sources \subseteq IdsOf(R)
  <2> TAKE u \in us
  <2> DEFINE X == IdsOf({r \in R : f[r] = u})
  <2>1. X \subseteq IdsOf(R)
    BY DEF IdsOf
  <2>2. IdsOf(R) \subseteq Ids
    BY <1>3, RowFacts DEF BookInv, IdsOf
  <2>3. New(u) = [topic |-> u, scope |-> s, owner |-> BlockOwner(who, s),
                  stale |-> FALSE, sources |-> X]
    BY DEF BlockOf
  <2> HIDE DEF X, New
  <2>4. X \in SUBSET Ids /\ u \in Topics
    BY <2>1, <2>2, <1>4
  <2> QED BY <2>1, <2>3, <2>4, <1>5 DEF Block
<1>7. blocks' = {New(u) : u \in us}
                  \cup {b \in blocks : \A n \in {New(u) : u \in us} :
                          <<b.topic, b.scope, b.owner>> # <<n.topic, n.scope, n.owner>>}
  BY <1>1 DEF Rebuild
<1> HIDE DEF New, us
<1>8. blocks' \subseteq Block
  BY <1>6, <1>7 DEF BookInv
<1>9. OneBlock(blocks')
  <2> SUFFICES ASSUME NEW b \in blocks', NEW d \in blocks',
                      <<b.topic, b.scope, b.owner>> = <<d.topic, d.scope, d.owner>>
               PROVE  b = d
    BY DEF OneBlock
  <2>1. \A u, v \in us : New(u).topic = New(v).topic => New(u) = New(v)
    BY <1>6
  <2>2. \A x, y \in blocks : <<x.topic, x.scope, x.owner>> = <<y.topic, y.scope, y.owner>> => x = y
    BY DEF BookInv, OneBlock
  <2>3. CASE b \in {New(u) : u \in us} /\ d \in {New(u) : u \in us}
    BY <2>1, <2>3
  <2>4. CASE b \notin {New(u) : u \in us} /\ d \notin {New(u) : u \in us}
    BY <2>2, <2>4, <1>7
  <2>5. CASE b \in {New(u) : u \in us} /\ d \notin {New(u) : u \in us}
    BY <2>5, <1>7
  <2>6. CASE b \notin {New(u) : u \in us} /\ d \in {New(u) : u \in us}
    BY <2>6, <1>7
  <2> QED BY <2>3, <2>4, <2>5, <2>6
<1>10. \A b \in blocks' : b \in blocks \/ b.sources \subseteq IdsOf(R)
  BY <1>6, <1>7
<1>11. IdsOf(R) \subseteq IdsOf(Current(rows)) /\ IdsOf(R) \cap gone = {}
  BY <1>3 DEF BookInv, DeletedIsGone, IdsOf
<1>12. FreshBlocksAreCurrent' /\ NoBlockCitesTheDeleted'
  BY <1>2, <1>10, <1>11
     DEF BookInv, FreshBlocksAreCurrent, NoBlockCitesTheDeleted
<1> QED BY <1>2, <1>8, <1>9, <1>12
        DEF BookInv, SearchIsCurrent, Newest, DeletedIsGone

\* resolve: blocks grow stale, and nothing else of the books moves.
LEMMA ResolveKeepsBooks ==
  ASSUME BookInv, NEW s, NEW side, NEW version, Resolve(s, side, version)
  PROVE  BookInv'
<1>1. rows' = rows /\ gone' = gone /\ index' = index
  BY DEF Resolve
<1> DEFINE S == {q.record : q \in conflict[s].sides}
<1>2. blocks' = Stale(blocks, S)
  BY DEF Resolve
<1> HIDE DEF S
<1>3. /\ blocks' \subseteq Block /\ OneBlock(blocks')
      /\ \A b \in blocks' : \E d \in blocks :
           b.sources = d.sources /\ (~b.stale => ~d.stale)
  BY <1>2, StaleFacts DEF BookInv
<1>4. FreshBlocksAreCurrent' /\ NoBlockCitesTheDeleted'
  BY <1>1, <1>3 DEF BookInv, FreshBlocksAreCurrent, NoBlockCitesTheDeleted
<1> QED BY <1>1, <1>3, <1>4 DEF BookInv, SearchIsCurrent, Newest, DeletedIsGone

(***************************************************************************)
(* The writes themselves.                                                  *)
(***************************************************************************)

\* A record that is not in use has no version, on file or deleted.
LEMMA UnusedIsNew ==
  ASSUME NEW record \in Unused, NEW i \in IdsOf(rows) \cup gone
  PROVE  i.record # record
BY DEF Unused

\* A new record (add).
LEMMA AddKeepsBooks ==
  ASSUME BookInv, MemoryAssumption, NEW who \in Callers, NEW record \in Unused,
         NEW c \in Contents, NEW linked, Add(who, record, c, linked)
  PROVE  BookInv' /\ Onward
<1> DEFINE n == NewRow(record, 1, who, c)
<1>1. n \in Row /\ n.record = record /\ n.version = 1 /\ n.current = TRUE
  <2>1. record \in RecordIds /\ 1 \in Nat \ {0}
    BY DEF Unused
  <2> QED BY <2>1, MemoryAssumption DEF NewRow, Row, Topics, Values
<1>2. /\ rows' = rows \cup {n} /\ index' = index \cup {Id(n)} /\ gone' = gone
      /\ blocks' = Stale(blocks, linked)
  BY DEF Add
<1> HIDE DEF n
<1>3. \A i \in IdsOf(rows) \cup gone : i.record # n.record
  BY <1>1, UnusedIsNew
<1>4. \A r \in Current(rows) : r.record # n.record
  <2> TAKE r \in Current(rows)
  <2>1. r \in rows /\ Id(r) \in IdsOf(rows) /\ Id(r).record = r.record
    BY RowFacts DEF Current, IdsOf, BookInv
  <2> QED BY <2>1, <1>3
<1>5. Shelved({}) = {} /\ IdsOf({}) = {} /\ IdsOf({n}) = {Id(n)}
  BY DEF Shelved, IdsOf
<1>6. /\ rows' = (rows \ {}) \cup Shelved({}) \cup {n}
      /\ index' = (index \ IdsOf({})) \cup IdsOf({n})
  BY <1>2, <1>5
<1>7. {n} \subseteq Row /\ {} \subseteq Current(rows)
  BY <1>1
<1>8. \A r \in Current(rows) : r \in {} <=> \E p \in {n} : p.record = r.record
  BY <1>4
<1>9. Writes({n}, {}, linked)
  BY <1>1, <1>2, <1>3, <1>6, <1>7, <1>8 DEF Writes
<1> QED BY <1>9, WriteKeepsBooks

\* A correction: its number follows the current version's, which no version
\* of the record is newer than (writeRecord).
LEMMA CorrectKeepsBooks ==
  ASSUME BookInv, MemoryAssumption, NEW who \in Callers, NEW old \in rows,
         NEW c \in Contents, NEW linked, Correct(who, old, c, linked)
  PROVE  BookInv' /\ Onward
<1> DEFINE n == NewRow(old.record, old.version + 1, who, c)
<1>1. /\ old \in Row /\ old.record \in RecordIds /\ old.version \in Nat \ {0}
      /\ old \in Current(rows)
  BY DEF BookInv, Row, Correct
<1>2. n \in Row /\ n.record = old.record /\ n.version = old.version + 1
        /\ n.current = TRUE
  <2>1. old.version + 1 \in Nat \ {0}
    BY <1>1
  <2> QED BY <1>1, <2>1, MemoryAssumption DEF NewRow, Row, Topics, Values
<1>3. /\ rows' = (rows \ {old}) \cup {[old EXCEPT !.current = FALSE], n}
      /\ index' = (index \ {Id(old)}) \cup {Id(n)}
      /\ gone' = gone
      /\ blocks' = Stale(blocks, {old.record} \cup linked)
  BY DEF Correct, Supersede
<1> HIDE DEF n
<1>4. \A i \in IdsOf(rows) \cup gone : i.record = n.record => i.version < n.version
  <2> TAKE i \in IdsOf(rows) \cup gone
  <2>1. i \in Ids
    BY RowFacts DEF BookInv, IdsOf
  <2>2. i.version \in Nat
    BY <2>1 DEF Ids
  <2>3. i.record = old.record => i.version <= old.version
    BY <1>1 DEF BookInv, SearchIsCurrent, Newest
  <2> QED BY <1>1, <1>2, <2>2, <2>3
<1>5. \A r \in Current(rows) : r.record = old.record => r = old
  <2> SUFFICES ASSUME NEW r \in Current(rows), r.record = old.record
               PROVE  r = old
    OBVIOUS
  <2>1. r \in rows /\ r \in Row /\ r.version \in Nat
    BY DEF Current, BookInv, Row
  <2>2. /\ Id(r) \in IdsOf(rows) /\ Id(old) \in IdsOf(rows)
        /\ Id(r).record = r.record /\ Id(r).version = r.version
        /\ Id(old).record = old.record /\ Id(old).version = old.version
    BY <1>1, <2>1, RowFacts DEF IdsOf
  <2>3. r.version <= old.version /\ old.version <= r.version
    BY <1>1, <2>2 DEF BookInv, SearchIsCurrent, Newest
  <2>4. Id(r) = Id(old)
    BY <1>1, <2>1, <2>3 DEF Id
  <2> QED BY <2>1, <2>4 DEF BookInv, Keyed
<1>6. /\ Shelved({old}) = {[old EXCEPT !.current = FALSE]}
      /\ IdsOf({old}) = {Id(old)} /\ IdsOf({n}) = {Id(n)}
  BY DEF Shelved, IdsOf
<1>7. /\ rows' = (rows \ {old}) \cup Shelved({old}) \cup {n}
      /\ index' = (index \ IdsOf({old})) \cup IdsOf({n})
  BY <1>3, <1>6
<1>8. {n} \subseteq Row /\ {old} \subseteq Current(rows)
  BY <1>1, <1>2
<1>9. \A r \in Current(rows) : r \in {old} <=> \E p \in {n} : p.record = r.record
  BY <1>2, <1>5
<1>10. \A o \in {old} : o.record \in {old.record} \cup linked
  OBVIOUS
<1>11. Writes({n}, {old}, {old.record} \cup linked)
  BY <1>2, <1>3, <1>4, <1>7, <1>8, <1>9, <1>10 DEF Writes
<1> QED BY <1>11, WriteKeepsBooks

\* Any number of new records (import).
LEMMA ImportKeepsBooks ==
  ASSUME BookInv, MemoryAssumption, NEW who \in Callers, NEW new \in Batch,
         NEW batch \in [new -> Contents], Import(who, batch)
  PROVE  BookInv' /\ Onward
<1> DEFINE Made(record) == NewRow(record, 1, who, batch[record])
           N == {Made(record) : record \in new}
<1>1. new \subseteq Unused /\ DOMAIN batch = new
  BY DEF Batch
<1>2. \A record \in new : /\ Made(record) \in Row /\ Made(record).record = record
                          /\ Made(record).version = 1 /\ Made(record).current = TRUE
  <2> TAKE record \in new
  <2>1. record \in RecordIds /\ batch[record] \in Contents /\ 1 \in Nat \ {0}
    BY <1>1 DEF Unused
  <2> QED BY <2>1, MemoryAssumption DEF NewRow, Row, Topics, Values
<1>3. /\ rows' = rows \cup N /\ index' = index \cup IdsOf(N) /\ gone' = gone
      /\ blocks' = Stale(blocks, new)
  BY <1>1 DEF Import
<1> HIDE DEF Made
<1>4. /\ N \subseteq Row
      /\ \A n \in N : n.current = TRUE /\ n.record \in Unused
      /\ \A n, p \in N : n.record = p.record => n = p
  BY <1>1, <1>2
<1> HIDE DEF N
<1>5. \A n \in N : \A i \in IdsOf(rows) \cup gone : i.record # n.record
  BY <1>4, UnusedIsNew
<1>6. \A r \in Current(rows) : \A n \in N : r.record # n.record
  <2> TAKE r \in Current(rows)
  <2>1. r \in rows /\ Id(r) \in IdsOf(rows) /\ Id(r).record = r.record
    BY RowFacts DEF Current, IdsOf, BookInv
  <2> QED BY <2>1, <1>5
<1>7. Shelved({}) = {} /\ IdsOf({}) = {}
  BY DEF Shelved, IdsOf
<1>8. /\ rows' = (rows \ {}) \cup Shelved({}) \cup N
      /\ index' = (index \ IdsOf({})) \cup IdsOf(N)
  BY <1>3, <1>7
<1>9. \A r \in Current(rows) : r \in {} <=> \E p \in N : p.record = r.record
  BY <1>6
<1>10. Writes(N, {}, new)
  BY <1>3, <1>4, <1>5, <1>8, <1>9 DEF Writes
<1> QED BY <1>10, WriteKeepsBooks

(***************************************************************************)
(* Conflicts.                                                              *)
(***************************************************************************)

\* A look at rows, a decision and a deletion leave a conflict one.
LEMMA ConflictTypes ==
  ASSUME NEW c \in {None} \cup Conflict
  PROVE  /\ \A bucket \in SUBSET Row : Judge(c, bucket) \in {None} \cup Conflict
         /\ \A ids : Retire(c, ids) \in {None} \cup Conflict
<1>1. ASSUME NEW bucket \in SUBSET Row
      PROVE  Judge(c, bucket) \in {None} \cup Conflict
  <2>1. SidesOf(bucket) \in SUBSET Sides
    BY RowFacts DEF SidesOf
  <2>2. Opened(bucket) \in Conflict
    BY <2>1 DEF Opened, Conflict
  <2>3. ASSUME c # None, NEW status \in {"open", "resolved"}
        PROVE  [c EXCEPT !.sides = SidesOf(bucket), !.status = status] \in Conflict
    BY <2>1, <2>3 DEF Conflict
  <2>4. c # None => c.status \in {"open", "resolved"}
    BY DEF Conflict
  <2>5. CASE bucket = {} \/ ~Disagree(bucket)
    BY <2>5 DEF Judge
  <2>6. CASE bucket # {} /\ Disagree(bucket) /\ c = None
    BY <2>2, <2>6 DEF Judge
  <2>7. CASE bucket # {} /\ Disagree(bucket) /\ c # None
    <3> DEFINE status == IF c.status = "resolved" /\ Uncovered(c, bucket)
                         THEN "open" ELSE c.status
    <3>1. status \in {"open", "resolved"}
      BY <2>4, <2>7
    <3>2. Judge(c, bucket) = [c EXCEPT !.sides = SidesOf(bucket), !.status = status]
      BY <2>7 DEF Judge
    <3> HIDE DEF status
    <3> QED BY <2>3, <2>7, <3>1, <3>2
  <2> QED BY <2>5, <2>6, <2>7
<1>2. ASSUME NEW ids
      PROVE  Retire(c, ids) \in {None} \cup Conflict
  BY DEF Retire, Conflict
<1> QED BY <1>1, <1>2

\* What a decision makes of a conflict.
Decided(c, side, version) ==
  [c EXCEPT !.status = "resolved", !.chosen = side.record, !.version = version,
            !.was = side.version, !.ruled = {Sense[q.value] : q \in c.sides}]

LEMMA DecidedIs ==
  ASSUME MemoryAssumption, NEW c \in Conflict, NEW side \in c.sides,
         NEW version \in {side.version} \cup Named
  PROVE  LET d == Decided(c, side, version)
         IN /\ d \in Conflict /\ d.sides = c.sides /\ d.status = "resolved"
            /\ d.chosen = side.record /\ d.was = side.version
            /\ d.ruled = {Sense[q.value] : q \in c.sides}
<1> DEFINE ruled == {Sense[q.value] : q \in c.sides}
<1>1. /\ side.record \in RecordIds /\ side.version \in Nat
      /\ \A q \in c.sides : q.value \in Values
  BY DEF Conflict, Sides
<1>2. version \in Nat
  BY <1>1, MemoryAssumption DEF MemoryAssumption
<1>3. ruled \in SUBSET Values
  <2>1. \A v \in Values : Sense[v] \in Values
    BY MemoryAssumption DEF MemoryAssumption
  <2> QED BY <1>1, <2>1
<1>4. Decided(c, side, version) =
        [c EXCEPT !.status = "resolved", !.chosen = side.record,
                  !.version = version, !.was = side.version, !.ruled = ruled]
  BY DEF Decided
<1> HIDE DEF ruled
<1>5. LET d == Decided(c, side, version)
      IN /\ d \in Conflict /\ d.sides = c.sides /\ d.status = "resolved"
         /\ d.chosen = side.record /\ d.was = side.version /\ d.ruled = ruled
  BY <1>1, <1>2, <1>3, <1>4 DEF Conflict
<1> QED BY <1>5 DEF ruled

LEMMA ResolveDecides ==
  ASSUME MemoryAssumption, ConflictInv, NEW s \in Scopes, conflict[s] # None,
         NEW side \in conflict[s].sides, NEW version, Resolve(s, side, version)
  PROVE  /\ conflict[s] \in Conflict /\ version \in {side.version} \cup Named
         /\ conflict' = [conflict EXCEPT ![s] = Decided(conflict[s], side, version)]
         /\ conflict'[s] = Decided(conflict[s], side, version)
         /\ \A x \in Scopes : x # s => conflict'[x] = conflict[x]
         /\ rows' = rows /\ gone' = gone /\ judged' = judged
<1>1. /\ conflict' = [conflict EXCEPT ![s] = Decided(conflict[s], side, version)]
      /\ version \in {side.version} \cup Named
      /\ rows' = rows /\ gone' = gone /\ judged' = judged
  BY DEF Resolve, Decided
<1>2. conflict[s] \in Conflict /\ DOMAIN conflict = Scopes
  BY DEF ConflictInv
<1> QED BY <1>1, <1>2

\* Looking at rows keeps the types of what is known of conflicts.
LEMMA DetectTypes ==
  ASSUME ConflictInv, NEW R, R \subseteq Row, NEW who, NEW S, NEW t, NEW touched,
         Detect(R, who, S, t, touched)
  PROVE  ConflictInv'
<1>1. \A s : Bucket(R, who, s, t) \in SUBSET Row
  BY DEF Bucket, OnTopic, Visible, Stating, Current
<1>2. conflict' = [s \in Scopes |->
        IF s \in S THEN Judge(conflict[s], Bucket(R, who, s, t)) ELSE conflict[s]]
  BY DEF Detect
<1>3. \A s \in Scopes : conflict[s] \in {None} \cup Conflict
  BY DEF ConflictInv
<1>4. \A s \in Scopes : Judge(conflict[s], Bucket(R, who, s, t)) \in {None} \cup Conflict
  BY <1>1, <1>3, ConflictTypes
<1>5. conflict' \in [Scopes -> {None} \cup Conflict]
  BY <1>2, <1>3, <1>4
<1>6. judged' \in [Scopes -> BOOLEAN]
  <2> DEFINE J(s) == IF s \in S /\ Bucket(R, who, s, t) # {}
                     THEN Bucket(R, who, s, t) = Stating(R, s)
                     ELSE judged[s] /\ s \notin touched
  <2>1. judged' = [s \in Scopes |-> J(s)]
    BY DEF Detect
  <2>2. \A s \in Scopes : J(s) \in BOOLEAN
    BY DEF ConflictInv
  <2> HIDE DEF J
  <2> QED BY <2>1, <2>2
<1> QED BY <1>5, <1>6 DEF ConflictInv

(***************************************************************************)
(* The invariant.                                                          *)
(***************************************************************************)
LEMMA InitIsSound == Init => IInv
BY DEF Init, IInv, BookInv, ConflictInv, Keyed, OneBlock, SearchIsCurrent,
       FreshBlocksAreCurrent, NoBlockCitesTheDeleted, DeletedIsGone, IdsOf, Current

LEMMA NextKeepsIInv ==
  ASSUME MemoryAssumption, IInv, [Next]_vars
  PROVE  IInv'
<1> USE DEF IInv
<1>1. ASSUME NEW who \in Callers, NEW c \in Contents, NEW linked \in Linked,
             NEW record \in Unused, Add(who, record, c, linked)
      PROVE  IInv'
  <2>1. BookInv'
    BY <1>1, AddKeepsBooks
  <2>2. Detect(rows', who, {c.scope}, AnyTopic, {c.scope})
    BY <1>1 DEF Add
  <2> QED BY <2>1, <2>2, DetectTypes DEF BookInv
<1>2. ASSUME NEW who \in Callers, NEW c \in Contents, NEW linked \in Linked,
             NEW old \in rows, Correct(who, old, c, linked)
      PROVE  IInv'
  <2>1. BookInv'
    BY <1>2, CorrectKeepsBooks
  <2>2. Detect(rows', who, {c.scope}, AnyTopic, {c.scope, old.scope})
    BY <1>2 DEF Correct
  <2> QED BY <2>1, <2>2, DetectTypes DEF BookInv
<1>3. ASSUME NEW who \in Callers, NEW new \in Batch, NEW batch \in [new -> Contents],
             Import(who, batch)
      PROVE  IInv'
  <2>1. BookInv'
    BY <1>3, ImportKeepsBooks
  <2>2. \E touched : Detect(rows', who, Scopes, AnyTopic, touched)
    BY <1>3 DEF Import
  <2> QED BY <2>1, <2>2, DetectTypes DEF BookInv
<1>4. ASSUME NEW who \in Callers, NEW s \in Scopes, NEW q \in Requests(s),
             Merge(who, s, q[1], q[2])
      PROVE  IInv'
  <2>1. BookInv'
    BY <1>4, MergeKeepsBooks
  <2>2. Detect(rows, who, {s}, q[1], {})
    BY <1>4 DEF Merge
  <2> QED BY <2>1, <2>2, DetectTypes DEF BookInv
<1>5. ASSUME NEW who \in Callers, NEW targets \in SUBSET rows, Forget(who, targets)
      PROVE  IInv'
  <2>1. BookInv'
    BY <1>5, ForgetKeepsBooks
  <2>2. /\ conflict' = [s \in Scopes |-> Retire(conflict[s], IdsOf(targets))]
        /\ judged' = judged
    BY <1>5 DEF Forget
  <2>3. \A s \in Scopes : Retire(conflict[s], IdsOf(targets)) \in {None} \cup Conflict
    BY ConflictTypes DEF ConflictInv
  <2> QED BY <2>1, <2>2, <2>3 DEF ConflictInv
<1>6. ASSUME NEW s \in Scopes, conflict[s] # None, NEW side \in conflict[s].sides,
             NEW version, Resolve(s, side, version)
      PROVE  IInv'
  <2>1. BookInv'
    BY <1>6, ResolveKeepsBooks
  <2>2. /\ conflict[s] \in Conflict /\ version \in {side.version} \cup Named
        /\ conflict' = [conflict EXCEPT ![s] = Decided(conflict[s], side, version)]
        /\ judged' = judged
    BY <1>6, ResolveDecides
  <2>3. Decided(conflict[s], side, version) \in Conflict
    BY <1>6, <2>2, DecidedIs
  <2> QED BY <2>1, <2>2, <2>3 DEF ConflictInv
<1>7. CASE UNCHANGED vars
  BY <1>7 DEF vars, BookInv, ConflictInv, SearchIsCurrent, Newest,
              FreshBlocksAreCurrent, NoBlockCitesTheDeleted, DeletedIsGone
<1>8. CASE Next
  <2>1. \A who : \A R \in SUBSET rows : Visible(R, who) \in SUBSET rows
    BY DEF Visible
  <2>2. \A who \in Callers, record \in RecordIds : ForgetRecord(who, record) => IInv'
    BY <1>5, <2>1 DEF ForgetRecord
  <2>3. \A who \in Callers, t \in Topics : ForgetTopic(who, t) => IInv'
    BY <1>5, <2>1 DEF ForgetTopic
  <2>4. \A s \in Scopes :
          \A side \in (IF conflict[s] = None THEN {} ELSE conflict[s].sides) :
            \A version : Resolve(s, side, version) => IInv'
    BY <1>6
  <2>5. \A s \in Scopes : \A q \in Requests(s), who \in Askers(s) :
          Merge(who, s, q[1], q[2]) => IInv'
    BY <1>4 DEF Askers, Callers
  <2> QED BY <1>1, <1>2, <1>3, <1>8, <2>2, <2>3, <2>4, <2>5 DEF Next
<1> QED BY <1>7, <1>8

THEOREM BooksAreSound == Spec => []IInv
<1>1. Init => IInv
  BY InitIsSound
<1>2. IInv /\ [Next]_vars => IInv'
  BY MemoryAssumption, NextKeepsIInv
<1> QED BY <1>1, <1>2, PTL DEF Spec

(***************************************************************************)
(* Every reachable state is well typed, and a version has one row and an   *)
(* audience one block for a topic, however calls follow each other.        *)
(***************************************************************************)
THEOREM MemoryTypeCorrect == Spec => []TypeOK
<1>1. IInv => TypeOK
  BY DEF IInv, BookInv, ConflictInv, TypeOK, Keyed, OneBlock
<1> QED BY <1>1, BooksAreSound, PTL

(***************************************************************************)
(* Search holds the current versions and nothing else, and a current       *)
(* version is the newest its record ever had (writeRecord, forget).        *)
(***************************************************************************)
THEOREM SearchHoldsWhatIsCurrent == Spec => []SearchIsCurrent
<1>1. IInv => SearchIsCurrent
  BY DEF IInv, BookInv
<1> QED BY <1>1, BooksAreSound, PTL

(***************************************************************************)
(* A block that is served as current was built from versions that all are  *)
(* (markBlocksStale, runMerge, forget).                                    *)
(***************************************************************************)
THEOREM FreshMeansCurrent == Spec => []FreshBlocksAreCurrent
<1>1. IInv => FreshBlocksAreCurrent
  BY DEF IInv, BookInv
<1> QED BY <1>1, BooksAreSound, PTL

(***************************************************************************)
(* No block cites a version that was deleted (forget).                     *)
(***************************************************************************)
THEOREM DeletionReachesBlocks == Spec => []NoBlockCitesTheDeleted
<1>1. IInv => NoBlockCitesTheDeleted
  BY DEF IInv, BookInv
<1> QED BY <1>1, BooksAreSound, PTL

-----------------------------------------------------------------------------
(***************************************************************************)
(* Conflicts: they say what the records say, and a decision covers every   *)
(* value there is.  The second rests on the first, and both on what was    *)
(* shown of versions: one that was written is never written again and      *)
(* never becomes current again.                                            *)
(***************************************************************************)

(***************************************************************************)
(* What a conflict on file says of the records.  A decided conflict needs  *)
(* the same: as long as records disagree its sides are theirs, or deleting *)
(* one of them could take the conflict off file while the others disagree. *)
(***************************************************************************)
TellsOf(c, stating) ==
  /\ Disagree(stating) => c # None /\ c.sides = SidesOf(stating)
  /\ (c # None /\ c.status = "open") => /\ Differ(stating)
                                       /\ c.sides = SidesOf(stating)

Truth == \A s \in Scopes : judged[s] => TellsOf(conflict[s], Stating(rows, s))

\* Sides disagree, or differ, when the rows they stand for do; and what has
\* two senses has two values.
LEMMA SidesDisagree ==
  ASSUME NEW R, R \subseteq Row
  PROVE  /\ Disagree(SidesOf(R)) <=> Disagree(R)
         /\ Differ(SidesOf(R)) <=> Differ(R)
         /\ Disagree(R) => Differ(R)
<1>1. \A r \in R : Side(r).value = r.value
  BY DEF Side
<1>2. SidesOf(R) = {Side(r) : r \in R}
  BY DEF SidesOf
<1> QED BY <1>1, <1>2 DEF Disagree, Differ

\* A look at all that state a fact leaves a conflict that tells of them.
LEMMA JudgeTells ==
  ASSUME NEW c \in {None} \cup Conflict, NEW R \in SUBSET Row, R # {}
  PROVE  TellsOf(Judge(c, R), R)
<1>0. Disagree(R) => Differ(R)
  BY SidesDisagree
<1>1. CASE ~Disagree(R)
  <2>1. Judge(c, R) = IF c # None /\ c.status = "open" THEN None ELSE c
    BY <1>1 DEF Judge
  <2> QED BY <1>1, <2>1 DEF TellsOf
<1>2. CASE Disagree(R)
  <2>1. Judge(c, R) \in {None} \cup Conflict
    BY ConflictTypes
  <2>2. CASE c = None
    <3>1. Judge(c, R) = Opened(R) /\ Opened(R).sides = SidesOf(R)
      BY <1>2, <2>2 DEF Judge, Opened
    <3>2. SidesOf(R) \in SUBSET Sides
      BY RowFacts DEF SidesOf
    <3>3. Opened(R) \in Conflict
      BY <3>2 DEF Opened, Conflict
    <3> QED BY <1>0, <1>2, <3>1, <3>3, NoneAssumption DEF TellsOf
  <2>3. CASE c # None
    <3> DEFINE status == IF c.status = "resolved" /\ Uncovered(c, R)
                         THEN "open" ELSE c.status
    <3>1. Judge(c, R) = [c EXCEPT !.sides = SidesOf(R), !.status = status]
      BY <1>2, <2>3 DEF Judge
    <3> HIDE DEF status
    <3>2. c \in Conflict
      BY <2>3
    <3>3. Judge(c, R).sides = SidesOf(R)
      BY <3>1, <3>2 DEF Conflict
    <3>4. SidesOf(R) \in SUBSET Sides
      BY RowFacts DEF SidesOf
    <3>5. Judge(c, R) # None
      <4>1. c.status \in {"open", "resolved"}
        BY <3>2 DEF Conflict
      <4>2. status \in {"open", "resolved"}
        BY <4>1 DEF status
      <4>3. [c EXCEPT !.sides = SidesOf(R), !.status = status] \in Conflict
        BY <3>2, <3>4, <4>2 DEF Conflict
      <4> QED BY <3>1, <4>3, NoneAssumption
    <3> QED BY <1>0, <1>2, <3>3, <3>5 DEF TellsOf
  <2> QED BY <2>2, <2>3
<1> QED BY <1>1, <1>2

\* A look changes what is known of the scopes looked at, and what was known of
\* a scope stands where no row changed.
LEMMA DetectTells ==
  ASSUME ConflictInv, Truth, NEW R, R \subseteq Row, NEW who, NEW S, NEW t, NEW touched,
         Detect(R, who, S, t, touched), R = rows',
         \A s \in Scopes \ touched : Stating(rows', s) = Stating(rows, s)
  PROVE  Truth'
<1> SUFFICES ASSUME NEW s \in Scopes, judged'[s]
             PROVE  TellsOf(conflict'[s], Stating(rows', s))
  BY DEF Truth
<1> DEFINE bucket == Bucket(R, who, s, t)
<1>1. conflict'[s] = IF s \in S THEN Judge(conflict[s], bucket) ELSE conflict[s]
  BY DEF Detect
<1>2. judged'[s] = IF s \in S /\ bucket # {} THEN bucket = Stating(R, s)
                   ELSE judged[s] /\ s \notin touched
  BY DEF Detect
<1>3. bucket \in SUBSET Row
  BY DEF Bucket, OnTopic, Visible, Stating, Current
<1>4. conflict[s] \in {None} \cup Conflict
  BY DEF ConflictInv
<1> HIDE DEF bucket
<1>5. CASE s \in S /\ bucket # {}
  <2>1. TellsOf(Judge(conflict[s], bucket), bucket)
    BY <1>3, <1>4, <1>5, JudgeTells
  <2> QED BY <2>1, <1>1, <1>2, <1>5
<1>6. CASE ~(s \in S /\ bucket # {})
  <2>1. conflict'[s] = conflict[s]
    BY <1>1, <1>6 DEF Judge
  <2>2. judged[s] /\ s \notin touched
    BY <1>2, <1>6
  <2> QED BY <2>1, <2>2 DEF Truth
<1> QED BY <1>5, <1>6

\* Deleting rows takes exactly their sides from a conflict that tells of them.
LEMMA RetireTells ==
  ASSUME NEW c \in {None} \cup Conflict, NEW R, R \subseteq rows, BookInv,
         NEW targets, targets \subseteq rows, TellsOf(c, R)
  PROVE  TellsOf(Retire(c, IdsOf(targets)), R \ targets)
<1> DEFINE ids == IdsOf(targets)
           left == {q \in c.sides : Id(q) \notin ids}
           d == Retire(c, ids)
<1>1. \A r \in R : r \in targets <=> Id(r) \in ids
  BY DEF BookInv, Keyed, IdsOf
<1>2. \A r \in R : Id(Side(r)) = Id(r)
  BY DEF Id, Side
<1>3. c.sides = SidesOf(R) => left = SidesOf(R \ targets)
  BY <1>1, <1>2 DEF SidesOf
<1>4. Disagree(R \ targets) => Disagree(R)
  BY DEF Disagree
<1>5. /\ Differ(SidesOf(R \ targets)) <=> Differ(R \ targets)
      /\ Disagree(R \ targets) => Differ(R \ targets)
  <2>1. R \ targets \subseteq Row
    BY DEF BookInv
  <2> QED BY <2>1, SidesDisagree
<1>6. d \in {None} \cup Conflict /\ (c = None => d = None)
  BY ConflictTypes DEF Retire
<1>7. ASSUME c # None, Differ(left)
      PROVE  d # None /\ d.sides = left /\ d.status = c.status
  <2>1. c \in Conflict /\ d = [c EXCEPT !.sides = left]
    BY <1>7 DEF Retire
  <2>2. left \in SUBSET Sides
    BY <2>1 DEF Conflict
  <2> HIDE DEF d, left
  <2>3. d \in Conflict
    BY <2>1, <2>2 DEF Conflict
  <2> QED BY <2>1, <2>3, NoneAssumption DEF Conflict
<1>8. ~Differ(left) => d = None
  BY DEF Retire
<1> HIDE DEF d, left, ids
<1>9. Disagree(R \ targets) => d # None /\ d.sides = SidesOf(R \ targets)
  BY <1>3, <1>4, <1>5, <1>7 DEF TellsOf
<1>10. (d # None /\ d.status = "open") => /\ Differ(R \ targets)
                                          /\ d.sides = SidesOf(R \ targets)
  BY <1>3, <1>5, <1>6, <1>7, <1>8 DEF TellsOf
<1> QED BY <1>9, <1>10 DEF TellsOf, d, ids

\* A step of the store writes rows or none and looks, or deletes, or decides.
Looks ==
  \E who, S, t, touched :
    /\ Detect(rows', who, S, t, touched)
    /\ \A s \in Scopes \ touched : Stating(rows', s) = Stating(rows, s)

LEMMA StepKinds ==
  ASSUME MemoryAssumption, BookInv, Next
  PROVE  \/ Onward /\ Looks
         \/ \E who \in Callers : \E targets \in SUBSET rows : Forget(who, targets)
         \/ \E s \in Scopes : /\ conflict[s] # None
                              /\ \E side \in conflict[s].sides :
                                   \E version : Resolve(s, side, version)
<1>1. ASSUME NEW who \in Callers, NEW c \in Contents, NEW linked \in Linked,
             NEW record \in Unused, Add(who, record, c, linked)
      PROVE  Onward /\ Looks
  <2> DEFINE n == NewRow(record, 1, who, c)
  <2>1. rows' = rows \cup {n} /\ Detect(rows', who, {c.scope}, AnyTopic, {c.scope})
    BY <1>1 DEF Add
  <2>2. n.scope = c.scope
    BY DEF NewRow
  <2> HIDE DEF n
  <2>3. \A s \in Scopes \ {c.scope} : Stating(rows', s) = Stating(rows, s)
    BY <2>1, <2>2 DEF Stating, Current
  <2>4. Onward
    BY <1>1, AddKeepsBooks
  <2> QED BY <2>1, <2>3, <2>4 DEF Looks
<1>2. ASSUME NEW who \in Callers, NEW c \in Contents, NEW linked \in Linked,
             NEW old \in rows, Correct(who, old, c, linked)
      PROVE  Onward /\ Looks
  <2> DEFINE n == NewRow(old.record, old.version + 1, who, c)
             o == [old EXCEPT !.current = FALSE]
  <2>1. /\ rows' = (rows \ {old}) \cup {o, n}
        /\ Detect(rows', who, {c.scope}, AnyTopic, {c.scope, old.scope})
    BY <1>2 DEF Correct, Supersede
  <2>2. n.scope = c.scope /\ o.current = FALSE
    BY RowFacts DEF NewRow, BookInv
  <2> HIDE DEF n, o
  <2>3. \A s \in Scopes \ {c.scope, old.scope} : Stating(rows', s) = Stating(rows, s)
    BY <2>1, <2>2 DEF Stating, Current
  <2>4. Onward
    BY <1>2, CorrectKeepsBooks
  <2> QED BY <2>1, <2>3, <2>4 DEF Looks
<1>3. ASSUME NEW who \in Callers, NEW new \in Batch, NEW batch \in [new -> Contents],
             Import(who, batch)
      PROVE  Onward /\ Looks
  <2> DEFINE N == {NewRow(record, 1, who, batch[record]) : record \in DOMAIN batch}
             touched == {r.scope : r \in N}
  <2>1. rows' = rows \cup N /\ Detect(rows', who, Scopes, AnyTopic, touched)
    BY <1>3 DEF Import
  <2> HIDE DEF N
  <2>2. \A s \in Scopes \ touched : Stating(rows', s) = Stating(rows, s)
    BY <2>1 DEF Stating, Current
  <2>3. Onward
    BY <1>3, ImportKeepsBooks
  <2> QED BY <2>1, <2>2, <2>3 DEF Looks
<1>4. ASSUME NEW who \in Callers, NEW s \in Scopes, NEW q \in Requests(s),
             Merge(who, s, q[1], q[2])
      PROVE  Onward /\ Looks
  <2>1. rows' = rows /\ gone' = gone /\ Detect(rows', who, {s}, q[1], {})
    BY <1>4 DEF Merge
  <2>2. Onward
    BY <2>1 DEF Onward, Known
  <2> QED BY <2>1, <2>2 DEF Looks
<1>5. \A who : \A R \in SUBSET rows : Visible(R, who) \in SUBSET rows
  BY DEF Visible
<1>6. \A who \in Callers, record \in RecordIds : ForgetRecord(who, record) =>
        \E targets \in SUBSET rows : Forget(who, targets)
  BY <1>5 DEF ForgetRecord
<1>7. \A who \in Callers, t \in Topics : ForgetTopic(who, t) =>
        \E targets \in SUBSET rows : Forget(who, targets)
  BY <1>5 DEF ForgetTopic
<1>8. \A s \in Scopes :
        \A side \in (IF conflict[s] = None THEN {} ELSE conflict[s].sides) :
          conflict[s] # None /\ side \in conflict[s].sides
  OBVIOUS
<1>9. \A s \in Scopes : \A q \in Requests(s), who \in Askers(s) :
        Merge(who, s, q[1], q[2]) => Onward /\ Looks
  BY <1>4 DEF Askers, Callers
<1> QED BY <1>1, <1>2, <1>3, <1>6, <1>7, <1>8, <1>9 DEF Next

LEMMA NextKeepsTruth ==
  ASSUME MemoryAssumption, IInv, Truth, [Next]_vars, IInv'
  PROVE  Truth'
<1> USE DEF IInv
<1>0. rows' \subseteq Row
  BY DEF BookInv
<1>1. ASSUME NEW who, NEW S, NEW t, NEW touched, Detect(rows', who, S, t, touched),
             \A s \in Scopes \ touched : Stating(rows', s) = Stating(rows, s)
      PROVE  Truth'
  BY <1>0, <1>1, DetectTells
<1>2. ASSUME NEW who \in Callers, NEW targets \in SUBSET rows, Forget(who, targets)
      PROVE  Truth'
  <2> SUFFICES ASSUME NEW s \in Scopes, judged'[s]
               PROVE  TellsOf(conflict'[s], Stating(rows', s))
    BY DEF Truth
  <2>1. /\ conflict'[s] = Retire(conflict[s], IdsOf(targets))
        /\ rows' = rows \ targets /\ judged[s]
    BY <1>2 DEF Forget
  <2>2. Stating(rows', s) = Stating(rows, s) \ targets
    BY <2>1 DEF Stating, Current
  <2>3. Stating(rows, s) \subseteq rows
    BY DEF Stating, Current
  <2>4. conflict[s] \in {None} \cup Conflict /\ TellsOf(conflict[s], Stating(rows, s))
    BY <2>1 DEF ConflictInv, Truth
  <2> QED BY <2>1, <2>2, <2>3, <2>4, RetireTells
<1>3. ASSUME NEW s \in Scopes, conflict[s] # None, NEW side \in conflict[s].sides,
             NEW version, Resolve(s, side, version)
      PROVE  Truth'
  <2> DEFINE d == Decided(conflict[s], side, version)
  <2>1. /\ conflict[s] \in Conflict /\ version \in {side.version} \cup Named
        /\ conflict'[s] = d /\ \A x \in Scopes : x # s => conflict'[x] = conflict[x]
        /\ rows' = rows /\ judged' = judged
    BY <1>3, ResolveDecides
  <2>2. d \in Conflict /\ d.sides = conflict[s].sides /\ d.status = "resolved"
    BY <1>3, <2>1, DecidedIs
  <2> HIDE DEF d
  <2>3. conflict'[s] # None
    BY <2>1, <2>2, NoneAssumption
  <2>4. judged[s] => TellsOf(conflict'[s], Stating(rows, s))
    BY <1>3, <2>1, <2>2, <2>3 DEF Truth, TellsOf
  <2> QED BY <2>1, <2>4 DEF Truth
<1>4. CASE UNCHANGED vars
  BY <1>4 DEF vars, Truth
<1> QED BY <1>1, <1>2, <1>3, <1>4, StepKinds DEF Looks

(***************************************************************************)
(* Where a conflict was last looked at with all its records in view, it    *)
(* tells what they say: through corrections, imports, partial merges,      *)
(* decisions and deletions (detectConflicts, forget).                      *)
(***************************************************************************)
THEOREM ConflictsAreTrue == Spec => []ConflictsTellTheTruth
<1>1. Init => IInv /\ Truth
  <2>1. Init => Truth
    BY DEF Init, Truth, TellsOf, Disagree, Stating, Current
  <2> QED BY <2>1, InitIsSound
<1>2. IInv /\ Truth /\ [Next]_vars => (IInv /\ Truth)'
  BY MemoryAssumption, NextKeepsIInv, NextKeepsTruth
<1>3. IInv /\ Truth => ConflictsTellTheTruth
  BY DEF Truth, TellsOf, ConflictsTellTheTruth
<1> QED BY <1>1, <1>2, <1>3, PTL DEF Spec

(***************************************************************************)
(* What a decision covers.  A decision stands as long as every look finds  *)
(* the chosen record and nothing it did not cover, and each look replaces  *)
(* the sides the next one compares with.  So the sides themselves must be  *)
(* covered, and must say what the versions they name say.                  *)
(***************************************************************************)
Match(Q, R, K) == \A q \in Q : /\ Id(q) \in K
                               /\ \A r \in R : Id(r) = Id(q) => r.value = q.value
SidesMatch ==
  \A s \in Scopes : conflict[s] # None => Match(conflict[s].sides, rows, Known)

ChosenId(c) == [record |-> c.chosen, version |-> c.was]
ChosenIsKnown ==
  \A s \in Scopes : (conflict[s] # None /\ conflict[s].status = "resolved") =>
    ChosenId(conflict[s]) \in Known

RulingOf(c, stating, whole) ==
  (/\ c # None /\ c.status = "resolved"
   /\ \E r \in stating : Id(r) = ChosenId(c)) =>
     /\ \A q \in c.sides : Sense[q.value] \in c.ruled
     /\ \A r \in stating : Id(r) = ChosenId(c) => Sense[r.value] \in c.ruled
     /\ whole => \A r \in stating : Sense[r.value] \in c.ruled

Rulings ==
  \A s \in Scopes : RulingOf(conflict[s], Stating(rows, s), judged[s])

RulingInv == SidesMatch /\ ChosenIsKnown /\ Rulings

\* A record has one current version.
OneOf(R) == \A r, q \in Current(R) : r.record = q.record => r = q
LEMMA OneCurrent ==
  ASSUME NEW R \in SUBSET Row, Keyed(R),
         \A r \in Current(R) : \A i \in IdsOf(R) :
           i.record = r.record => i.version <= r.version
  PROVE  OneOf(R)
<1> SUFFICES ASSUME NEW r \in Current(R), NEW q \in Current(R), r.record = q.record
             PROVE  r = q
  BY DEF OneOf
<1>1. /\ r \in R /\ q \in R /\ r \in Row /\ q \in Row
      /\ r.version \in Nat /\ q.version \in Nat
  BY DEF Current, Row
<1>2. /\ Id(r) \in IdsOf(R) /\ Id(q) \in IdsOf(R)
      /\ Id(r).record = r.record /\ Id(r).version = r.version
      /\ Id(q).record = q.record /\ Id(q).version = q.version
  BY <1>1, RowFacts DEF IdsOf
<1>3. r.version <= q.version /\ q.version <= r.version
  BY <1>2
<1>4. Id(r) = Id(q)
  BY <1>1, <1>3 DEF Id
<1> QED BY <1>1, <1>4 DEF Keyed

LEMMA OneCurrentNext ==
  ASSUME BookInv'
  PROVE  OneOf(rows') /\ Keyed(rows') /\ rows' \in SUBSET Row
<1>1. rows' \in SUBSET Row /\ Keyed(rows')
  BY DEF BookInv
<1>2. \A r \in Current(rows') : \A i \in IdsOf(rows') :
        i.record = r.record => i.version <= r.version
  BY DEF BookInv, SearchIsCurrent, Newest
<1> QED BY <1>1, <1>2, OneCurrent

\* Sides that match go on matching, and those a look writes down match.
LEMMA MatchStays ==
  ASSUME Onward, NEW Q, Match(Q, rows, Known)
  PROVE  Match(Q, rows', Known')
<1> SUFFICES ASSUME NEW q \in Q
             PROVE  /\ Id(q) \in Known'
                    /\ \A r \in rows' : Id(r) = Id(q) => r.value = q.value
  BY DEF Match
<1>1. Id(q) \in Known /\ \A p \in rows : Id(p) = Id(q) => p.value = q.value
  BY DEF Match
<1>2. Known \subseteq Known'
  BY DEF Onward
<1>3. ASSUME NEW r \in rows', Id(r) = Id(q)
      PROVE  r.value = q.value
  <2>1. PICK p \in rows : Id(p) = Id(r) /\ p.value = r.value
    BY <1>1, <1>3 DEF Onward
  <2> QED BY <1>1, <1>3, <2>1
<1> QED BY <1>1, <1>2, <1>3

LEMMA SidesOfMatch ==
  ASSUME NEW R, Keyed(R), NEW Q \in SUBSET R, NEW K, IdsOf(R) \subseteq K
  PROVE  Match(SidesOf(Q), R, K)
<1>1. \A r \in R : Id(Side(r)) = Id(r) /\ Side(r).value = r.value
  BY DEF Id, Side
<1>2. \A r \in R : Id(r) \in K
  BY DEF IdsOf
<1> QED BY <1>1, <1>2 DEF Match, SidesOf, Keyed

\* A version that was written before and states the fact now stated it then.
LEMMA StatedBefore ==
  ASSUME Onward, NEW s, NEW r \in Stating(rows', s), Id(r) \in Known
  PROVE  r \in Stating(rows, s)
<1>1. r \in rows' /\ r.current /\ r.scope = s /\ r.value # NoValue
  BY DEF Stating, Current
<1>2. r \in rows
  BY <1>1 DEF Onward
<1> QED BY <1>1, <1>2 DEF Stating, Current

\* What a look may make of a conflict.
LEMMA JudgeCases ==
  ASSUME NEW c \in {None} \cup Conflict, NEW R \in SUBSET Row
  PROVE  \/ Judge(c, R) = c /\ (R = {} \/ ~Disagree(R))
         \/ Judge(c, R) = None
         \/ /\ Judge(c, R).sides = SidesOf(R)
            /\ \/ Judge(c, R).status = "open"
               \/ /\ c # None /\ c.status = "resolved"
                  /\ Judge(c, R).chosen = c.chosen
                  /\ Judge(c, R).was = c.was
                  /\ Judge(c, R).ruled = c.ruled
                  /\ ~Uncovered(c, R)
<1>1. CASE R = {} \/ ~Disagree(R)
  BY <1>1 DEF Judge
<1>2. CASE R # {} /\ Disagree(R) /\ c = None
  BY <1>2 DEF Judge, Opened
<1>3. CASE R # {} /\ Disagree(R) /\ c # None
  <2> DEFINE status == IF c.status = "resolved" /\ Uncovered(c, R)
                       THEN "open" ELSE c.status
  <2>1. Judge(c, R) = [c EXCEPT !.sides = SidesOf(R), !.status = status]
    BY <1>3 DEF Judge
  <2>2. c \in Conflict
    BY <1>3
  <2>3. c.status \in {"open", "resolved"}
    BY <2>2 DEF Conflict
  <2>4. status = "open" \/ (c.status = "resolved" /\ ~Uncovered(c, R))
    BY <2>3
  <2> HIDE DEF status
  <2>5. /\ Judge(c, R).sides = SidesOf(R) /\ Judge(c, R).status = status
        /\ Judge(c, R).chosen = c.chosen /\ Judge(c, R).was = c.was
        /\ Judge(c, R).ruled = c.ruled
    BY <2>1, <2>2 DEF Conflict
  <2> QED BY <1>3, <2>4, <2>5
<1> QED BY <1>1, <1>2, <1>3

\* A decision that a look leaves standing still covers what is there.
LEMMA LookCovers ==
  ASSUME NEW s \in Scopes, NEW c \in Conflict, c.status = "resolved",
         Match(c.sides, rows, Known), ChosenId(c) \in Known, Onward, BookInv',
         RulingOf(c, Stating(rows, s), judged[s]),
         NEW R \in SUBSET Stating(rows', s),
         NEW r0 \in Stating(rows', s), Id(r0) = ChosenId(c)
  PROVE  /\ Sense[r0.value] \in c.ruled
         /\ \A q \in c.sides : Sense[q.value] \in c.ruled
         /\ R # {} /\ ~Disagree(R) /\ R = Stating(rows', s) =>
              \A r \in R : Sense[r.value] \in c.ruled
         /\ ~Uncovered(c, R) => \A r \in R : Sense[r.value] \in c.ruled
<1>1. r0 \in Stating(rows, s)
  BY StatedBefore
<1>2. Sense[r0.value] \in c.ruled /\ \A q \in c.sides : Sense[q.value] \in c.ruled
  BY <1>1, NoneAssumption DEF RulingOf
<1>3. R # {} /\ ~Disagree(R) /\ R = Stating(rows', s) =>
        \A r \in R : Sense[r.value] \in c.ruled
  BY <1>2 DEF Disagree
<1>4. ASSUME ~Uncovered(c, R), NEW r \in R
      PROVE  Sense[r.value] \in c.ruled
  <2>1. PICK q \in R : q.record = c.chosen
    BY <1>4 DEF Uncovered
  <2>2. r0 \in Current(rows') /\ q \in Current(rows') /\ r \in rows'
    BY DEF Stating, Current
  <2>3. OneOf(rows') /\ r0 \in Row
    BY <2>2, OneCurrentNext DEF Current
  <2>4. r0.record = c.chosen
    BY DEF Id, ChosenId
  <2>5. q = r0
    BY <2>1, <2>2, <2>3, <2>4 DEF OneOf
  <2>6. CASE Sense[r.value] = Sense[q.value]
    BY <1>2, <2>5, <2>6
  <2>7. CASE Sense[r.value] # Sense[q.value]
    <3>1. PICK x \in c.sides : Id(x) = Id(r)
      BY <1>4, <2>1, <2>7 DEF Uncovered, IdsOf
    <3>2. Match(c.sides, rows', Known')
      BY MatchStays
    <3>3. r.value = x.value
      BY <2>2, <3>1, <3>2 DEF Match
    <3> QED BY <1>2, <3>3
  <2> QED BY <2>6, <2>7
<1> QED BY <1>2, <1>3, <1>4

\* A look, after rows were written or none, keeps decisions covered.
LEMMA DetectRules ==
  ASSUME BookInv', ConflictInv, RulingInv, Onward,
         NEW who, NEW S, NEW t, NEW touched, Detect(rows', who, S, t, touched),
         \A s \in Scopes \ touched : Stating(rows', s) = Stating(rows, s)
  PROVE  RulingInv'
<1> SUFFICES ASSUME NEW s \in Scopes, conflict'[s] # None
             PROVE  /\ Match(conflict'[s].sides, rows', Known')
                    /\ conflict'[s].status = "resolved" =>
                         ChosenId(conflict'[s]) \in Known'
                    /\ RulingOf(conflict'[s], Stating(rows', s), judged'[s])
  BY DEF RulingInv, SidesMatch, ChosenIsKnown, Rulings, RulingOf
<1> DEFINE c == conflict[s]
           d == conflict'[s]
           R == Bucket(rows', who, s, t)
           stating == Stating(rows', s)
<1>1. d = IF s \in S THEN Judge(c, R) ELSE c
  BY DEF Detect
<1>2. judged'[s] = IF s \in S /\ R # {} THEN R = stating
                   ELSE judged[s] /\ s \notin touched
  BY DEF Detect
<1>3. R \in SUBSET stating /\ stating \in SUBSET rows' /\ R \in SUBSET rows'
  BY DEF Bucket, OnTopic, Visible, Stating, Current
<1>4. c \in {None} \cup Conflict
  BY DEF ConflictInv
<1>5. /\ c # None => Match(c.sides, rows, Known)
      /\ (c # None /\ c.status = "resolved") => ChosenId(c) \in Known
      /\ RulingOf(c, Stating(rows, s), judged[s])
  BY DEF RulingInv, SidesMatch, ChosenIsKnown, Rulings
<1>6. Known \subseteq Known' /\ IdsOf(rows') \subseteq Known'
  BY DEF Onward, Known
<1>7. Keyed(rows') /\ R \in SUBSET Row
  BY <1>3, OneCurrentNext
<1>8. s \notin touched => stating = Stating(rows, s)
  OBVIOUS
<1> HIDE DEF c, d, R, stating
<1>9. CASE d = c /\ (s \in S => R = {} \/ ~Disagree(R))
  <2>0. c \in Conflict
    BY <1>4, <1>9 DEF d
  <2>1. Match(d.sides, rows', Known')
    BY <1>5, <1>9, <2>0, NoneAssumption, MatchStays
  <2>2. d.status = "resolved" => ChosenId(d) \in Known'
    BY <1>5, <1>6, <1>9, <2>0, NoneAssumption
  <2>3. ASSUME c.status = "resolved", NEW r0 \in stating, Id(r0) = ChosenId(c)
        PROVE  /\ \A q \in c.sides : Sense[q.value] \in c.ruled
               /\ \A r \in stating : Id(r) = ChosenId(c) => Sense[r.value] \in c.ruled
               /\ judged'[s] => \A r \in stating : Sense[r.value] \in c.ruled
    <3>1. /\ Sense[r0.value] \in c.ruled
          /\ \A q \in c.sides : Sense[q.value] \in c.ruled
          /\ R # {} /\ ~Disagree(R) /\ R = stating => \A r \in R : Sense[r.value] \in c.ruled
      BY <1>3, <1>5, <2>0, <2>3, NoneAssumption, LookCovers DEF stating
    <3>2. \A r \in stating : Id(r) = ChosenId(c) => r = r0
      BY <1>3, <1>7, <2>3 DEF Keyed
    <3>3. CASE s \in S /\ R # {}
      BY <1>2, <1>9, <3>1, <3>2, <3>3
    <3>4. CASE ~(s \in S /\ R # {})
      <4>1. judged'[s] => judged[s] /\ stating = Stating(rows, s)
        BY <1>2, <1>8, <3>4
      <4>2. judged'[s] => \A r \in stating : Sense[r.value] \in c.ruled
        BY <1>5, <2>0, <2>3, <4>1, NoneAssumption DEF RulingOf
      <4> QED BY <3>1, <3>2, <4>2
    <3> QED BY <3>3, <3>4
  <2>4. RulingOf(d, stating, judged'[s])
    BY <1>9, <2>3 DEF RulingOf
  <2> QED BY <2>1, <2>2, <2>4 DEF d, stating
<1>10. CASE s \in S /\ d.sides = SidesOf(R) /\ d.status = "open"
  <2>1. Match(d.sides, rows', Known')
    BY <1>3, <1>6, <1>7, <1>10, SidesOfMatch
  <2>2. RulingOf(d, stating, judged'[s])
    BY <1>10 DEF RulingOf
  <2> QED BY <1>10, <2>1, <2>2 DEF d, stating
<1>11. CASE /\ s \in S /\ d.sides = SidesOf(R) /\ c # None /\ c.status = "resolved"
            /\ d.chosen = c.chosen /\ d.was = c.was /\ d.ruled = c.ruled
            /\ ~Uncovered(c, R)
  <2>1. Match(d.sides, rows', Known')
    BY <1>3, <1>6, <1>7, <1>11, SidesOfMatch
  <2>2. ChosenId(d) = ChosenId(c) /\ ChosenId(c) \in Known'
    BY <1>5, <1>6, <1>11 DEF ChosenId
  <2>3. c \in Conflict /\ R # {}
    BY <1>4, <1>11 DEF Uncovered
  <2>4. ASSUME NEW r0 \in stating, Id(r0) = ChosenId(c)
        PROVE  /\ Sense[r0.value] \in c.ruled
               /\ \A r \in R : Sense[r.value] \in c.ruled
    BY <1>3, <1>5, <1>11, <2>3, <2>4, LookCovers DEF stating
  <2>5. \A q \in SidesOf(R) : \E r \in R : q.value = r.value
    BY DEF SidesOf, Side
  <2>6. judged'[s] => R = stating
    BY <1>2, <1>11, <2>3
  <2>7. RulingOf(d, stating, judged'[s])
    BY <1>11, <2>2, <2>4, <2>5, <2>6 DEF RulingOf
  <2> QED BY <2>1, <2>2, <2>7 DEF d, stating
<1>12. s \in S => \/ d = c /\ (R = {} \/ ~Disagree(R))
                  \/ d = None
                  \/ /\ d.sides = SidesOf(R)
                     /\ \/ d.status = "open"
                        \/ /\ c # None /\ c.status = "resolved"
                           /\ d.chosen = c.chosen /\ d.was = c.was
                           /\ d.ruled = c.ruled /\ ~Uncovered(c, R)
  BY <1>1, <1>4, <1>7, JudgeCases
<1>13. d # None
  BY DEF d
<1> QED BY <1>1, <1>9, <1>10, <1>11, <1>12, <1>13

\* Deleting versions leaves fewer records and fewer sides.
LEMMA ForgetRules ==
  ASSUME ConflictInv, RulingInv, NEW who, NEW targets \in SUBSET rows,
         Forget(who, targets)
  PROVE  RulingInv'
<1>1. rows' = rows \ targets /\ gone' = gone \cup IdsOf(targets)
  BY DEF Forget
<1>2. /\ IdsOf(rows) \subseteq IdsOf(rows \ targets) \cup IdsOf(targets)
      /\ IdsOf(rows \ targets) \subseteq IdsOf(rows)
  BY DEF IdsOf
<1>3. Known \subseteq Known'
  BY <1>1, <1>2 DEF Known
<1>4. Onward
  BY <1>1, <1>3 DEF Onward
<1> SUFFICES ASSUME NEW s \in Scopes, conflict'[s] # None
             PROVE  /\ Match(conflict'[s].sides, rows', Known')
                    /\ conflict'[s].status = "resolved" =>
                         ChosenId(conflict'[s]) \in Known'
                    /\ RulingOf(conflict'[s], Stating(rows', s), judged'[s])
  BY DEF RulingInv, SidesMatch, ChosenIsKnown, Rulings, RulingOf
<1> DEFINE c == conflict[s]
           d == conflict'[s]
           left == {q \in c.sides : Id(q) \notin IdsOf(targets)}
<1>5. d = Retire(c, IdsOf(targets)) /\ judged'[s] = judged[s]
  BY DEF Forget
<1>6. c # None /\ d = [c EXCEPT !.sides = left]
  BY <1>5 DEF Retire
<1>7. c \in Conflict
  BY <1>6 DEF ConflictInv
<1>8. /\ Match(c.sides, rows, Known)
      /\ c.status = "resolved" => ChosenId(c) \in Known
      /\ RulingOf(c, Stating(rows, s), judged[s])
  BY <1>6 DEF RulingInv, SidesMatch, ChosenIsKnown, Rulings
<1>9. left \subseteq c.sides
  OBVIOUS
<1>10. Stating(rows', s) \subseteq Stating(rows, s)
  BY <1>1 DEF Stating, Current
<1> HIDE DEF c, d, left
<1>11. /\ d.sides = left /\ d.status = c.status /\ d.chosen = c.chosen
       /\ d.was = c.was /\ d.ruled = c.ruled
  BY <1>6, <1>7 DEF Conflict
<1>12. Match(d.sides, rows', Known')
  <2>1. Match(c.sides, rows', Known')
    BY <1>4, <1>8, MatchStays
  <2> QED BY <1>9, <1>11, <2>1 DEF Match
<1>13. ChosenId(d) = ChosenId(c)
  BY <1>11 DEF ChosenId
<1>14. RulingOf(d, Stating(rows', s), judged'[s])
  BY <1>5, <1>6, <1>8, <1>9, <1>10, <1>11, <1>13 DEF RulingOf
<1> QED BY <1>3, <1>8, <1>11, <1>12, <1>13, <1>14 DEF d

\* A decision covers every side, and the sides are all there is where the
\* records disagree.
LEMMA ResolveRules ==
  ASSUME MemoryAssumption, ConflictInv, RulingInv, Truth, NEW s \in Scopes,
         conflict[s] # None, NEW side \in conflict[s].sides,
         NEW version, Resolve(s, side, version)
  PROVE  RulingInv'
<1> DEFINE c == conflict[s]
           d == Decided(c, side, version)
<1>1. /\ c \in Conflict /\ version \in {side.version} \cup Named
      /\ conflict'[s] = d /\ \A x \in Scopes : x # s => conflict'[x] = conflict[x]
      /\ rows' = rows /\ gone' = gone /\ judged' = judged
  BY ResolveDecides
<1>2. conflict'[s] = d /\ \A x \in Scopes : x # s => conflict'[x] = conflict[x]
  BY <1>1
<1>3. rows' = rows /\ judged' = judged /\ Known' = Known
  BY <1>1 DEF Known
<1>4. /\ d.sides = c.sides /\ d.chosen = side.record /\ d.was = side.version
      /\ d.ruled = {Sense[q.value] : q \in c.sides}
  BY <1>1, DecidedIs
<1>5. Match(c.sides, rows, Known)
  BY DEF RulingInv, SidesMatch
<1>6. judged[s] => TellsOf(c, Stating(rows, s))
  BY DEF Truth
<1>7. side \in c.sides
  OBVIOUS
<1> HIDE DEF c
<1>8. /\ d.sides = c.sides /\ d.chosen = side.record /\ d.was = side.version
      /\ d.ruled = {Sense[q.value] : q \in c.sides}
  BY <1>4
<1> HIDE DEF d
<1>9. ChosenId(d) = Id(side)
  BY <1>8 DEF ChosenId, Id
<1>10. Id(side) \in Known /\ \A r \in rows : Id(r) = Id(side) => r.value = side.value
  BY <1>5, <1>7 DEF Match
<1>11. RulingOf(d, Stating(rows, s), judged[s])
  <2> SUFFICES ASSUME NEW r0 \in Stating(rows, s), Id(r0) = ChosenId(d)
               PROVE  /\ \A q \in d.sides : Sense[q.value] \in d.ruled
                      /\ \A r \in Stating(rows, s) :
                           Id(r) = ChosenId(d) => Sense[r.value] \in d.ruled
                      /\ judged[s] => \A r \in Stating(rows, s) : Sense[r.value] \in d.ruled
    BY DEF RulingOf
  <2>1. \A r \in Stating(rows, s) : r \in rows
    BY DEF Stating, Current
  <2>2. \A q \in d.sides : Sense[q.value] \in d.ruled
    BY <1>8
  <2>3. \A r \in Stating(rows, s) : Id(r) = ChosenId(d) => Sense[r.value] \in d.ruled
    BY <1>7, <1>8, <1>9, <1>10, <2>1
  <2>4. ASSUME judged[s], Disagree(Stating(rows, s)), NEW r \in Stating(rows, s)
        PROVE  Sense[r.value] \in d.ruled
    <3>1. Side(r) \in c.sides /\ Side(r).value = r.value
      BY <1>6, <2>4 DEF TellsOf, SidesOf, Side
    <3> QED BY <1>8, <3>1
  <2>5. ~Disagree(Stating(rows, s)) => \A r \in Stating(rows, s) :
          Sense[r.value] = Sense[r0.value]
    BY DEF Disagree
  <2> QED BY <2>2, <2>3, <2>4, <2>5
<1>12. SidesMatch'
  BY <1>2, <1>3, <1>5, <1>8 DEF RulingInv, SidesMatch
<1>13. ChosenIsKnown'
  BY <1>2, <1>3, <1>9, <1>10 DEF RulingInv, ChosenIsKnown
<1>14. Rulings'
  BY <1>2, <1>3, <1>11 DEF RulingInv, Rulings
<1> QED BY <1>12, <1>13, <1>14 DEF RulingInv

LEMMA NextKeepsRulings ==
  ASSUME MemoryAssumption, IInv, Truth, RulingInv, [Next]_vars, IInv'
  PROVE  RulingInv'
<1> USE DEF IInv
<1>1. Onward /\ Looks => RulingInv'
  BY DetectRules DEF Looks
<1>2. \A who \in Callers : \A targets \in SUBSET rows :
        Forget(who, targets) => RulingInv'
  BY ForgetRules
<1>3. \A s \in Scopes : conflict[s] # None =>
        \A side \in conflict[s].sides :
          \A version : Resolve(s, side, version) => RulingInv'
  BY MemoryAssumption, ResolveRules
<1>4. CASE UNCHANGED vars
  BY <1>4 DEF vars, RulingInv, SidesMatch, ChosenIsKnown, Rulings, Known
<1> QED BY <1>1, <1>2, <1>3, <1>4, StepKinds

(***************************************************************************)
(* "A new disagreement could hide behind an old ruling, which invariant 5  *)
(* forbids": it cannot.  While the chosen record says what it said, every  *)
(* value on file was there when it was chosen, or the conflict is open     *)
(* again (detectConflicts, resolveConflict, forget).                       *)
(***************************************************************************)
THEOREM RulingsCover == Spec => []RulingsCoverWhatIsThere
<1>1. Init => RulingInv
  BY DEF Init, RulingInv, SidesMatch, ChosenIsKnown, Rulings, RulingOf
<1>2. RulingInv /\ IInv /\ Truth /\ [Next]_vars /\ IInv' => RulingInv'
  BY MemoryAssumption, NextKeepsRulings
<1>3. RulingInv /\ IInv => RulingsCoverWhatIsThere
  <2> SUFFICES ASSUME RulingInv, NEW s \in Scopes, judged[s],
                      conflict[s] # None, conflict[s].status = "resolved",
                      NEW r \in Stating(rows, s), r.record = conflict[s].chosen,
                      r.version = conflict[s].was
               PROVE  {Sense[q.value] : q \in Stating(rows, s)} \subseteq conflict[s].ruled
    BY DEF RulingsCoverWhatIsThere
  <2>1. Id(r) = ChosenId(conflict[s])
    BY DEF Id, ChosenId
  <2> QED BY <2>1 DEF RulingInv, Rulings, RulingOf
<1>4. Init => IInv /\ Truth
  <2>1. Init => Truth
    BY DEF Init, Truth, TellsOf, Disagree, Stating, Current
  <2> QED BY <2>1, InitIsSound
<1>5. IInv /\ Truth /\ [Next]_vars => (IInv /\ Truth)'
  BY MemoryAssumption, NextKeepsIInv, NextKeepsTruth
<1> QED BY <1>1, <1>2, <1>3, <1>4, <1>5, PTL DEF Spec

=============================================================================
