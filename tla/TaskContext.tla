----------------------------- MODULE TaskContext -----------------------------
(***************************************************************************)
(* What a recall answers (context.ts buildContext, with merge.ts           *)
(* buildItems and openConflicts): the newest records the caller may read,  *)
(* ranked, collapsed into items where they say the same, after the open    *)
(* conflicts they have a side in, within a limit of characters.  An answer *)
(* is a function of the store.  Rows are numbered, the newest first; a     *)
(* score is given, 0 where no word of the query occurs.                    *)
(*                                                                         *)
(* Definitions called Bug... are variants of the one that follows them, as *)
(* a plausible mistake in the code would make it; nothing here uses them.  *)
(***************************************************************************)
EXTENDS Naturals, Sequences, FiniteSets, FiniteSetsExt, Functions

CONSTANTS
  MaxRows,   \* bound: current rows of a workspace
  Newest,    \* how many a recall considers (500)
  MaxLimit,  \* LIMITS.contextLimitMax
  TextCost, RefCost, HeadCost, SideCost,  \* what the answer's parts cost
  Limits     \* bound: limits tried

\* Who wrote a row, and who asks: this agent, another, and the owner.
Authors == {"me", "other"}
Callers == {"me", "owner"}

\* The members of S in order, ahead[x] being those before x.  (What follows
\* <<>> \o is written out by TLC, once.)
InOrder(S, ahead) ==
  <<>> \o [p \in 1..Cardinality(S) |-> CHOOSE x \in S : Cardinality(ahead[x]) = p - 1]

\* Who wrote what is shared makes no difference.
Row == {row \in [author : Authors, scope : {"workspace", "private"}, text : {"x", "y"}, score : 0..1] :
          row.scope = "workspace" => row.author = "other"}

MayRead(caller, row) ==
  caller = "owner" \/ row.scope = "workspace" \/ row.author = caller

\* The newest of what the caller may read.
BugConsidered(caller, rows) ==
  {i \in DOMAIN rows : i <= Newest /\ MayRead(caller, rows[i])}
Considered(caller, rows) ==
  LET readable == {i \in DOMAIN rows : MayRead(caller, rows[i])}
  IN {i \in readable : Cardinality({j \in readable : j <= i}) <= Newest}

\* By relevance, then by age; where nothing matches, by age.
Better(rows, i, j) ==
  rows[i].score > rows[j].score \/ (rows[i].score = rows[j].score /\ i < j)
Found(rows, considered) ==
  LET matched == {i \in considered : rows[i].score > 0}
  IN IF matched = {} THEN considered ELSE matched

\* Rows that say the same to the same audience are one item with all authors,
\* in the place of the best of them.
BugContentHash(row) == row.text
ContentHash(row) == <<row.text, row.scope>>
Groups(rows, found) ==
  {{j \in found : ContentHash(rows[j]) = ContentHash(rows[i])} : i \in found}
Ahead(rows, groups) ==
  [g \in groups |-> {h \in groups : \E j \in h : \A i \in g : Better(rows, j, i)}]
Items(rows, found) ==
  LET groups == Groups(rows, found) IN InOrder(groups, Ahead(rows, groups))

ItemCost(item) == TextCost + RefCost * Cardinality(item)

\* A conflict is between rows of one audience; an agent is told of shared ones.
IsConflict(rows, sides) == \A i, j \in sides : rows[i].scope = rows[j].scope
OpenConflicts(caller, rows, conflicts, found) ==
  {sides \in conflicts :
     /\ caller # "owner" => \A i \in sides : rows[i].scope = "workspace"
     /\ sides \cap found # {}}

\* fitConflicts: all of them, and every side; what may go is the quoted text.
ConflictCost(sides, quoted) ==
  HeadCost + Cardinality(sides) * (SideCost + (IF quoted THEN TextCost ELSE 0))
CostOf(conflicts, quoted) == MapThenSumSet(LAMBDA c : ConflictCost(c, quoted), conflicts)
BugFit(conflicts, share) ==
  LET quoted == CostOf(conflicts, TRUE) <= share
  IN [conflicts |-> IF quoted THEN conflicts ELSE {}, quoted |-> quoted,
      cost |-> IF quoted THEN CostOf(conflicts, TRUE) ELSE 0]
Fit(conflicts, share) ==
  LET quoted == CostOf(conflicts, TRUE) <= share
  IN [conflicts |-> conflicts, quoted |-> quoted, cost |-> CostOf(conflicts, quoted)]

\* As many items as there is room for, the best first.
Cost(costs, n) == MapThenSumSet(LAMBDA i : costs[i], 1..n)
Room(costs, used, limit, maxItems) ==
  Max({0} \cup {n \in DOMAIN costs : n <= maxItems /\ used + Cost(costs, n) <= limit})

BuildContext(caller, rows, conflicts, asked, maxItems) ==
  LET limit == IF asked < MaxLimit THEN asked ELSE MaxLimit
      found == Found(rows, Considered(caller, rows))
      items == Items(rows, found)
      costs == [i \in DOMAIN items |-> ItemCost(items[i])]
      fitted == Fit(OpenConflicts(caller, rows, conflicts, found), limit \div 2)
      n == Room(costs, fitted.cost, limit, maxItems)
  IN [items |-> SubSeq(items, 1, n), conflicts |-> fitted.conflicts, quoted |-> fitted.quoted,
      incomplete |-> ~fitted.quoted \/ n < Len(items),
      used |-> fitted.cost + Cost(costs, n), limit |-> limit, found |-> found]

(***************************************************************************)
(* Properties, over every input within the bounds.                         *)
(***************************************************************************)
\* Which of the two texts is which makes no difference.
Stores == {rows \in UNION {[1..n -> Row] : n \in 1..MaxRows} : rows[1].text = "x"}
Disputes(rows) ==
  {{}} \cup {{c} : c \in {s \in SUBSET DOMAIN rows : Cardinality(s) = 2 /\ IsConflict(rows, s)}}

Cited(answer) == UNION Range(answer.items)

\* Every open conflict about something found is there, both sides of it, however
\* tight the limit; and an answer that does not say it is incomplete has all that
\* was found, and the text of every side (buildContext, fitConflicts).
SaysWhatIsMissing(caller, rows, conflicts, answer) ==
  /\ \A sides \in conflicts :
       (\A i \in sides : MayRead(caller, rows[i])) /\ sides \cap answer.found # {}
         /\ (caller = "owner" \/ \A i \in sides : rows[i].scope = "workspace")
         => sides \in answer.conflicts
  /\ ~answer.incomplete => answer.quoted /\ Cited(answer) = answer.found
  /\ answer.items # <<>> => answer.used <= answer.limit

\* What is left out for want of room is less relevant than all there is, and what
\* an item merges is of one audience.
BestFirst(rows, answer) ==
  /\ \A i \in answer.found \ Cited(answer), j \in DOMAIN answer.items :
       \E k \in answer.items[j] : Better(rows, k, i)
  /\ \A j \in DOMAIN answer.items : \A i, k \in answer.items[j] : rows[i].scope = rows[k].scope

\* What the caller may not read makes no difference: the answer is the one a
\* store without it gives (visibilityWhere before take, and before scoring).
Places(caller, rows) ==
  LET mine == {i \in DOMAIN rows : MayRead(caller, rows[i])}
  IN InOrder(mine, [i \in mine |-> {j \in mine : j < i}])
Readable(caller, rows) ==
  LET places == Places(caller, rows) IN [p \in DOMAIN places |-> rows[places[p]]]
Told(rows, answer) ==
  [items |-> [j \in DOMAIN answer.items |->
                <<Cardinality(answer.items[j]), ContentHash(rows[Max(answer.items[j])])>>],
   incomplete |-> answer.incomplete]

(***************************************************************************)
(* A recall is honest: a tight limit hides neither a disagreement nor that *)
(* something is missing, keeps what is most relevant, and what others keep *)
(* private is not felt (buildContext).                                     *)
(***************************************************************************)
RecallIsHonest ==
  \A rows \in Stores, caller \in Callers, limit \in Limits, maxItems \in 1..2 :
    /\ \A conflicts \in Disputes(rows) :
         LET answer == BuildContext(caller, rows, conflicts, limit, maxItems)
         IN SaysWhatIsMissing(caller, rows, conflicts, answer) /\ BestFirst(rows, answer)
    /\ LET rest == Readable(caller, rows)
       IN Told(rows, BuildContext(caller, rows, {}, limit, maxItems))
            = Told(rest, BuildContext(caller, rest, {}, limit, maxItems))

(***************************************************************************)
(* "An empty result, never a guess", and a result that is not whole says   *)
(* so.  It fails where more records can be read than are considered: the   *)
(* older ones are dropped and the answer is not called incomplete.         *)
(***************************************************************************)
EveryMatchIsFound ==
  \A rows \in Stores, caller \in Callers :
    LET answer == BuildContext(caller, rows, {}, MaxLimit, MaxRows)
    IN ~answer.incomplete =>
         \A i \in DOMAIN rows : MayRead(caller, rows[i]) /\ rows[i].score > 0 => i \in Cited(answer)

=============================================================================
