----------------------------- MODULE Summaries -----------------------------
(***************************************************************************)
(* Model summaries (summaries.ts): the records are read, a model is asked  *)
(* for up to 45 seconds, the records are looked at again, and a block is   *)
(* written in up to four calls, none of them in a transaction.  One topic  *)
(* and one audience; a block's body quotes every record that was sent.     *)
(* What the model proposes is returned and stored nowhere.                 *)
(***************************************************************************)
EXTENDS Deletions

CONSTANT Askers  \* summarize calls that may be in progress

\* A call: how far it has come, what it sent, whether that was superseded
\* meanwhile, and the block it found or made.
Asks == [at : {"asking", "checked", "found", "stored", "cleared"},
         rows : SUBSET Texts, stale : BOOLEAN, block : Nat \cup {None}]
ASSUME SummariesAssumption == IsFiniteSet(Askers) /\ None \notin Asks

VARIABLES
  enabled,   \* the owner's permission to send memory to the model
  asks,      \* asks[p]: the call of p, None when there is none
  slipped    \* history variable: between a call's last look and its last
             \* write, its records changed, another call wrote, or it died

summaryVars == <<enabled, asks, slipped>>

InitSummaries ==
  enabled = TRUE /\ asks = [p \in Askers |-> None] /\ slipped = FALSE

At(p, at) == asks[p] # None /\ asks[p].at = at
Writing(p) == \E at \in {"checked", "found", "stored", "cleared"} : At(p, at)
Quiet == \A p \in Askers : ~Writing(p)
Idle == \A p \in Askers : asks[p] = None

Step(p, ask) ==
  /\ asks' = [asks EXCEPT ![p] = ask]
  /\ UNCHANGED <<rows, current, gone, replies, trail, enabled>>

\* setModelSummaries.
Switch ==
  /\ Left("switch") /\ Spend("switch")
  /\ enabled' = ~enabled /\ UNCHANGED <<store, trail, asks, slipped>>

\* The records in view are sent, if the owner allows it and there are any.
Gather(p) ==
  /\ asks[p] = None /\ enabled /\ current # {} /\ Left("summary") /\ Spend("summary")
  /\ Step(p, [at |-> "asking", rows |-> current, stale |-> FALSE, block |-> None])
  /\ UNCHANGED <<blocks, sources, slipped>>

\* The model fails, times out or answers in another shape.
NoSummary(p) ==
  At(p, "asking") /\ Step(p, None) /\ UNCHANGED <<blocks, sources, budget, slipped>>

\* stillPresent: a summary of a text deleted meanwhile is thrown away; of one
\* superseded meanwhile it is kept and says stale.
BugStillThere(R) == TRUE
StillThere(R) == R \subseteq rows
BugHeldStill(R) == TRUE
HeldStill(R) == R \subseteq current
LookAgain(p) ==
  /\ At(p, "asking")
  /\ IF StillThere(asks[p].rows)
     THEN Step(p, [asks[p] EXCEPT !.at = "checked", !.stale = ~HeldStill(asks[p].rows)])
     ELSE Step(p, None)
  /\ slipped' = (slipped \/ \E q \in Askers \ {p} : Writing(q))
  /\ UNCHANGED <<blocks, sources, budget>>

\* findFirst: any block there is.
Find(p) ==
  /\ At(p, "checked")
  /\ \E b \in IF blocks = {} THEN {None} ELSE {x.id : x \in blocks} :
       Step(p, [asks[p] EXCEPT !.at = "found", !.block = b])
  /\ UNCHANGED <<blocks, sources, budget, slipped>>

Taken == {b.id : b \in blocks} \cup {asks[q].block : q \in {x \in Askers : asks[x] # None}}
Unused == CHOOSE i \in 0..Cardinality(Taken) : i \notin Taken
Block(p, id) == [id |-> id, quotes |-> asks[p].rows, stale |-> asks[p].stale]

Create(p) ==
  /\ At(p, "found") /\ asks[p].block = None
  /\ blocks' = blocks \cup {Block(p, Unused)}
  /\ Step(p, [asks[p] EXCEPT !.at = "stored", !.block = Unused])
  /\ UNCHANGED <<sources, budget, slipped>>

\* The block that was found is overwritten; one that is gone by now throws.
Update(p) ==
  /\ At(p, "found") /\ asks[p].block # None
  /\ LET old == {b \in blocks : b.id = asks[p].block}
     IN IF old = {} THEN Step(p, None) /\ UNCHANGED blocks
        ELSE /\ blocks' = (blocks \ old) \cup {Block(p, asks[p].block)}
             /\ Step(p, [asks[p] EXCEPT !.at = "stored"])
  /\ UNCHANGED <<sources, budget, slipped>>

\* What it cited before goes, then what it cites is written in one statement,
\* which fails whole when the block is gone or cites a row already.
BugOthers(id) == sources
Others(id) == {s \in sources : s[1] # id}
ClearSources(p) ==
  /\ At(p, "stored")
  /\ sources' = Others(asks[p].block)
  /\ Step(p, [asks[p] EXCEPT !.at = "cleared"])
  /\ UNCHANGED <<blocks, budget, slipped>>

CiteSources(p) ==
  LET new == {asks[p].block} \X asks[p].rows
      fits == asks[p].block \in {b.id : b \in blocks} /\ new \cap sources = {}
  IN /\ At(p, "cleared")
     /\ sources' = IF fits THEN sources \cup new ELSE sources
     /\ Step(p, None)
     /\ UNCHANGED <<blocks, budget, slipped>>

SummariesNext == Switch \/ \E p \in Askers :
  \/ Gather(p) \/ NoSummary(p) \/ LookAgain(p) \/ Find(p) \/ Create(p) \/ Update(p)
  \/ ClearSources(p) \/ CiteSources(p)

\* What a write or a deletion of the records does to a call that has looked.
Slips(records) ==
  slipped' = (slipped \/ \E p \in Askers : Writing(p) /\ RecordsOf(asks[p].rows) \cap records # {})

=============================================================================
