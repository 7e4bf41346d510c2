---------------------------- MODULE UsageReports ----------------------------
(***************************************************************************)
(* Confirmed spend (usage.ts, usage-credentials.ts): agents report the     *)
(* requests they made, owners link the key that paid for them, and the     *)
(* publisher asks the provider about what is still pending.                *)
(*                                                                         *)
(* Each database call is a step.  reportUsage reads the ids it was given,  *)
(* reads who has a key, and writes; verifyPendingUsage lists a batch, and  *)
(* per row reads a key (once per workspace) and writes the answer;         *)
(* setUsageCredential writes the key, then takes the rejections back.      *)
(*                                                                         *)
(* A row is a generation's: the key (provider, generationId) is unique.    *)
(* older[g] holds the generations whose rows were reported before g's      *)
(* (reportedAt), and a row's id is one nobody in the middle of a call      *)
(* remembers for that generation.                                          *)
(*                                                                         *)
(* Definitions called Bug... are variants of the one that follows them, as *)
(* a plausible mistake in the code would make it; nothing here uses them.  *)
(***************************************************************************)
EXTENDS Naturals, FiniteSets

CONSTANTS
  Workspaces,
  Generations,  \* ids of model requests
  Keys,         \* provider keys
  NoKey,        \* no key is linked
  Unasked,      \* a key this run has not looked up
  None,
  PaidBy,       \* PaidBy[g]: the key that paid for g, or NoKey: nobody did
  Claims,       \* the ways agents may share out what they report
  Limit,        \* OFFCUT_PUBLISHER_USAGE_BATCH: rows a run asks about
  MaxLinks,     \* bound: how often each workspace links a key
  MaxFailures   \* bound: outages, lost calls, dead processes, and keys that
                \* are cleared or revoked

ASSUME UsageAssumption ==
  /\ IsFiniteSet(Workspaces) /\ IsFiniteSet(Generations)
  /\ NoKey \notin Keys /\ Unasked \notin Keys \cup {NoKey}
  /\ None \notin Keys /\ None # NoKey
  /\ PaidBy \in [Generations -> Keys \cup {NoKey}]
  /\ Claims \subseteq [Workspaces -> SUBSET Generations]
  /\ Limit \in Nat \ {0}
  /\ MaxLinks \in Nat /\ MaxFailures \in Nat

VARIABLES
  claims,     \* claims[w]: the generations agents of w report, for good
  usage,      \* usage[g]: the row of model_usage for g, or None
  older,      \* older[g]: generations reported before g, among those on file
  linked,     \* linked[w]: the key on file
  relinking,  \* relinking[w]: the key is written, the rejections are not back
  call,       \* call[w]: the report an agent of w is making
  run,        \* the verification run in progress
  revoked,    \* keys the provider no longer accepts
  answered,   \* history variable: answered[w]: ids w was told are on file
  everLinked, \* history variable: everLinked[w]: keys w ever linked
  links, failures

vars == <<claims, usage, older, linked, relinking, call, run, revoked, answered,
          everLinked, links, failures>>

\* A row of model_usage, a report in progress, and a verification run.
Row == [holder : Workspaces, status : {"pending", "verified", "rejected"},
        id : Nat]
Calls == [at : {"keys", "write", "one"}, todo : SUBSET Generations,
          found : [Generations -> Row \cup {None}]]
Items == [gen : Generations, holder : Workspaces, id : Nat,
          older : SUBSET Generations]
Runs == [todo : SUBSET Items,
         keys : [Workspaces -> Keys \cup {NoKey, Unasked}]]

\* None is no record, and no key.
ASSUME NoneAssumption == None \notin Row \cup Calls \cup Runs

Init ==
  /\ claims \in Claims
  /\ usage = [g \in Generations |-> None]
  /\ older = [g \in Generations |-> {}]
  /\ linked = [w \in Workspaces |-> NoKey]
  /\ relinking = [w \in Workspaces |-> FALSE]
  /\ call = [w \in Workspaces |-> None]
  /\ run = None
  /\ revoked = {}
  /\ answered = [w \in Workspaces |-> {}]
  /\ everLinked = [w \in Workspaces |-> {}]
  /\ links = [w \in Workspaces |-> 0] /\ failures = 0

Fail == failures < MaxFailures /\ failures' = failures + 1

(***************************************************************************)
(* reportUsage.                                                            *)
(***************************************************************************)

\* The ids on file are read.
Report(w, batch) ==
  /\ call[w] = None
  /\ batch # {} /\ batch \subseteq claims[w]
  /\ call' = [call EXCEPT ![w] =
                [at |-> "keys", todo |-> batch,
                 found |-> [g \in Generations |->
                              IF g \in batch THEN usage[g] ELSE None]]]
  /\ UNCHANGED <<claims, usage, older, linked, relinking, run, revoked,
                 answered, everLinked, links, failures>>

\* A row found under another workspace that cannot settle it: its key
\* refused the request, or it has no key now.
BugStranded(w, row) == row.holder # w /\ row.status = "rejected"
Stranded(w, row) ==
  /\ row.holder # w
  /\ \/ row.status = "rejected"
     \/ row.status = "pending" /\ linked[row.holder] = NoKey

BugAfterKeys(w, fresh) == [call[w] EXCEPT !.at = "write", !.todo = fresh]
AfterKeys(w, fresh) ==
  IF fresh = {} THEN None
  ELSE [call[w] EXCEPT !.at = "write", !.todo = fresh]

\* Who has a key is read, and what to write is decided; the rest is
\* answered `duplicate'.
ReadKeys(w) ==
  /\ call[w] # None /\ call[w].at = "keys"
  /\ LET found == call[w].found
         fresh == {g \in call[w].todo :
                     found[g] = None \/ Stranded(w, found[g])}
     IN /\ answered' = [answered EXCEPT ![w] = @ \cup (call[w].todo \ fresh)]
        /\ call' = [call EXCEPT ![w] = AfterKeys(w, fresh)]
  /\ UNCHANGED <<claims, usage, older, linked, relinking, run, revoked,
                 everLinked, links, failures>>

\* deleteMany by row id: the row that was found, unless it was paid since.
BugReleases(found, g) ==
  found[g] # None /\ usage[g] # None /\ usage[g].id = found[g].id
Releases(found, g) ==
  /\ found[g] # None /\ usage[g] # None
  /\ usage[g].id = found[g].id
  /\ usage[g].status \in {"pending", "rejected"}

\* The insert goes through when every id is free once the releases are done.
CanInsert(w, batch) ==
  \A g \in batch : usage[g] = None \/ Releases(call[w].found, g)

\* The ids of g's rows that are on file or remembered, and one that is not.
Known(g) ==
  (IF usage[g] = None THEN {} ELSE {usage[g].id})
    \cup {call[w].found[g].id : w \in {w \in Workspaces :
             call[w] # None /\ g \in call[w].todo /\ call[w].found[g] # None}}
    \cup (IF run = None THEN {}
          ELSE {item.id : item \in {item \in run.todo : item.gen = g}})
FreshId(g) == CHOOSE n \in 0..Cardinality(Known(g)) : n \notin Known(g)

Insert(w, batch) ==
  /\ usage' = [g \in Generations |->
                 IF g \notin batch THEN usage[g]
                 ELSE [holder |-> w, status |-> "pending", id |-> FreshId(g)]]
  /\ older' = [g \in Generations |->
                 IF g \in batch THEN {h \in Generations \ batch : usage[h] # None}
                 ELSE older[g] \ batch]
  /\ answered' = [answered EXCEPT ![w] = @ \cup batch]

Write(w) ==
  /\ call[w] # None /\ call[w].at = "write"
  /\ CanInsert(w, call[w].todo)
  /\ Insert(w, call[w].todo)
  /\ call' = [call EXCEPT ![w] = None]
  /\ UNCHANGED <<claims, linked, relinking, run, revoked, everLinked, links,
                 failures>>

\* A unique violation rolls the releases back; the batch is written again,
\* one id at a time.
BugRollBack(w) ==
  usage' = [g \in Generations |->
              IF g \in call[w].todo /\ Releases(call[w].found, g)
              THEN None ELSE usage[g]]
RollBack(w) == usage' = usage

Collide(w) ==
  /\ call[w] # None /\ call[w].at = "write"
  /\ ~CanInsert(w, call[w].todo)
  /\ RollBack(w)
  /\ call' = [call EXCEPT ![w].at = "one"]
  /\ UNCHANGED <<claims, older, linked, relinking, run, revoked, answered,
                 everLinked, links, failures>>

WriteOne(w) ==
  /\ call[w] # None /\ call[w].at = "one"
  /\ \E g \in call[w].todo :
       /\ \/ CanInsert(w, {g}) /\ Insert(w, {g})
          \/ /\ ~CanInsert(w, {g})
             /\ answered' = [answered EXCEPT ![w] = @ \cup {g}]
             /\ UNCHANGED <<usage, older>>
       /\ call' = [call EXCEPT ![w] =
                     IF call[w].todo = {g} THEN None
                     ELSE [call[w] EXCEPT !.todo = @ \ {g}]]
  /\ UNCHANGED <<claims, linked, relinking, run, revoked, everLinked, links,
                 failures>>

\* The process dies or the store fails: the agent gets no answer.
ReportFails(w) ==
  /\ call[w] # None
  /\ Fail
  /\ call' = [call EXCEPT ![w] = None]
  /\ UNCHANGED <<claims, usage, older, linked, relinking, run, revoked,
                 answered, everLinked, links>>

(***************************************************************************)
(* setUsageCredential and clearUsageCredential.  A key the provider does   *)
(* not accept when it is probed is never stored.                           *)
(***************************************************************************)
SpendLink(w) == links[w] < MaxLinks /\ links' = [links EXCEPT ![w] = @ + 1]

LinkKey(w, k) ==
  /\ ~relinking[w]
  /\ k \notin revoked
  /\ SpendLink(w)
  /\ linked' = [linked EXCEPT ![w] = k]
  /\ everLinked' = [everLinked EXCEPT ![w] = @ \cup {k}]
  /\ relinking' = [relinking EXCEPT ![w] = TRUE]
  /\ UNCHANGED <<claims, usage, older, call, run, revoked, answered,
                 failures>>

ResetRejected(w) ==
  /\ relinking[w]
  /\ usage' = [g \in Generations |->
                 IF usage[g] # None /\ usage[g].holder = w
                      /\ usage[g].status = "rejected"
                 THEN [usage[g] EXCEPT !.status = "pending"]
                 ELSE usage[g]]
  /\ relinking' = [relinking EXCEPT ![w] = FALSE]
  /\ UNCHANGED <<claims, older, linked, call, run, revoked, answered,
                 everLinked, links, failures>>

\* The process dies between the two writes.
LinkDies(w) ==
  /\ relinking[w]
  /\ Fail
  /\ relinking' = [relinking EXCEPT ![w] = FALSE]
  /\ UNCHANGED <<claims, usage, older, linked, call, run, revoked, answered,
                 everLinked, links>>

ClearKey(w) ==
  /\ ~relinking[w] /\ linked[w] # NoKey
  /\ Fail
  /\ linked' = [linked EXCEPT ![w] = NoKey]
  /\ UNCHANGED <<claims, usage, older, relinking, call, run, revoked,
                 answered, everLinked, links>>

\* The provider stops accepting a key: it answers 401 from now on.
Revoke(k) ==
  /\ k \notin revoked
  /\ Fail
  /\ revoked' = revoked \cup {k}
  /\ UNCHANGED <<claims, usage, older, linked, relinking, call, run,
                 answered, everLinked, links>>

(***************************************************************************)
(* verifyPendingUsage, run by the publisher.                               *)
(***************************************************************************)
BugAskable == {g \in Generations : usage[g] # None /\ usage[g].status = "pending"}
Askable == {g \in Generations : /\ usage[g] # None
                                /\ usage[g].status = "pending"
                                /\ linked[usage[g].holder] # NoKey}

\* The oldest rows whose workspace has a key, up to the limit.
IsBatch(batch) ==
  /\ batch \subseteq Askable
  /\ batch = Askable \/ Cardinality(batch) = Limit
  /\ Cardinality(batch) <= Limit
  /\ \A g \in batch, h \in Askable \ batch : h \notin older[g]

BeginRun ==
  /\ run = None
  /\ \E batch \in SUBSET Askable :
       /\ IsBatch(batch) /\ batch # {}
       /\ run' = [todo |-> {[gen |-> g, holder |-> usage[g].holder,
                             id |-> usage[g].id,
                             older |-> older[g]] : g \in batch},
                  keys |-> [w \in Workspaces |-> Unasked]]
  /\ UNCHANGED <<claims, usage, older, linked, relinking, call, revoked,
                 answered, everLinked, links, failures>>

IsNext(item) ==
  /\ run # None /\ item \in run.todo
  /\ \A other \in run.todo : other.gen \notin item.older

\* source.forWorkspace: once per workspace and run.
BugResolve(w) == [v \in Workspaces |-> linked[w]]
Resolve(w) == [run.keys EXCEPT ![w] = linked[w]]
ResolveKey(item) ==
  /\ IsNext(item)
  /\ run.keys[item.holder] = Unasked
  /\ run' = [run EXCEPT !.keys = Resolve(item.holder)]
  /\ UNCHANGED <<claims, usage, older, linked, relinking, call, revoked,
                 answered, everLinked, links, failures>>

KeyFor(item) == run.keys[item.holder]
Done(item) == run' = [run EXCEPT !.todo = @ \ {item}]

\* No key to ask with, or no answer: the row stays pending.  A revoked key
\* is never answered; a good one goes unanswered while the provider is out.
Defer(item) ==
  /\ IsNext(item) /\ KeyFor(item) # Unasked
  /\ \/ KeyFor(item) \in revoked \cup {NoKey} /\ failures' = failures
     \/ KeyFor(item) \notin revoked \cup {NoKey} /\ Fail
  /\ Done(item)
  /\ UNCHANGED <<claims, usage, older, linked, relinking, call, revoked,
                 answered, everLinked, links>>

\* The provider answers, and the row is updated by its id.
Verdict(item) == IF PaidBy[item.gen] = KeyFor(item) THEN "verified"
                                                    ELSE "rejected"
StillThere(item) ==
  usage[item.gen] # None /\ usage[item.gen].id = item.id
Settle(item) ==
  /\ IsNext(item) /\ KeyFor(item) \in Keys \ revoked
  /\ StillThere(item)
  /\ usage' = [usage EXCEPT ![item.gen].status = Verdict(item)]
  /\ Done(item)
  /\ UNCHANGED <<claims, older, linked, relinking, call, revoked, answered,
                 everLinked, links, failures>>

\* The row was released meanwhile: the update throws, and the run with it.
SettleMissing(item) ==
  /\ IsNext(item) /\ KeyFor(item) \in Keys \ revoked
  /\ ~StillThere(item)
  /\ run' = None
  /\ UNCHANGED <<claims, usage, older, linked, relinking, call, revoked,
                 answered, everLinked, links, failures>>

EndRun ==
  /\ run # None /\ run.todo = {}
  /\ run' = None
  /\ UNCHANGED <<claims, usage, older, linked, relinking, call, revoked,
                 answered, everLinked, links, failures>>

RunDies ==
  /\ run # None
  /\ Fail
  /\ run' = None
  /\ UNCHANGED <<claims, usage, older, linked, relinking, call, revoked,
                 answered, everLinked, links>>

Reporting(w) ==
  ReadKeys(w) \/ Write(w) \/ Collide(w) \/ WriteOne(w)
Running ==
  \/ BeginRun \/ EndRun
  \/ run # None /\ \E item \in run.todo :
       ResolveKey(item) \/ Defer(item) \/ Settle(item) \/ SettleMissing(item)

Next ==
  \/ \E w \in Workspaces :
       \/ \E batch \in SUBSET claims[w] : Report(w, batch)
       \/ Reporting(w) \/ ReportFails(w)
       \/ \E k \in Keys : LinkKey(w, k)
       \/ ResetRejected(w) \/ LinkDies(w) \/ ClearKey(w)
  \/ \E k \in Keys : Revoke(k)
  \/ Running \/ RunDies

Spec == Init /\ [][Next]_vars

\* What agents of w may ever report.
Reportable(w) == UNION {c[w] : c \in Claims}

(***************************************************************************)
(* Fairness: the publisher runs at every tick, a call once made returns,   *)
(* and an agent keeps reporting what it was not told is on file.  "It means *)
(* settled, not retry: a caller told this never sends the id again".       *)
(***************************************************************************)
FairSpec ==
  /\ Spec
  /\ WF_vars(Running)
  /\ \A w \in Workspaces :
       /\ WF_vars(Reporting(w)) /\ WF_vars(ResetRejected(w))
       /\ \A g \in Reportable(w) :
            SF_vars(g \notin answered[w] /\ Report(w, {g}))

(***************************************************************************)
(* Properties.                                                             *)
(***************************************************************************)

\* What the tables and the calls in progress hold (reportUsage,
\* verifyPendingUsage).
TypeOK ==
  /\ claims \in Claims
  /\ usage \in [Generations -> Row \cup {None}]
  /\ older \in [Generations -> SUBSET Generations]
  /\ linked \in [Workspaces -> Keys \cup {NoKey}]
  /\ relinking \in [Workspaces -> BOOLEAN]
  /\ call \in [Workspaces -> Calls \cup {None}]
  /\ \A w \in Workspaces :
       call[w] # None => call[w].todo \in (SUBSET claims[w]) \ {{}}
  /\ run \in Runs \cup {None}
  /\ revoked \subseteq Keys
  /\ answered \in [Workspaces -> SUBSET Generations]
  /\ everLinked \in [Workspaces -> SUBSET Keys]
  /\ links \in [Workspaces -> 0..MaxLinks]
  /\ failures \in 0..MaxFailures

(***************************************************************************)
(* "A verified row is never released, so nothing that has been paid can be *)
(* claimed twice": whatever a report decided to release before the row was *)
(* confirmed (reportUsage).                                                *)
(***************************************************************************)
VerifiedStands ==
  [][\A g \in Generations :
       (usage[g] # None /\ usage[g].status = "verified") =>
          usage'[g] = usage[g]]_vars

(***************************************************************************)
(* "Only the key that paid can confirm a generation": spend is confirmed   *)
(* under a workspace only with a key that workspace linked and that paid   *)
(* for it (verifyPendingUsage, openRouterUsageSource).                     *)
(***************************************************************************)
OnlyThePayerIsPaid ==
  \A g \in Generations :
    (usage[g] # None /\ usage[g].status = "verified") =>
       PaidBy[g] \in everLinked[usage[g].holder]

(***************************************************************************)
(* An id an agent was told is counted - accepted or a duplicate - is on    *)
(* file from then on, under somebody: an agent never sends it again        *)
(* (reportUsage: "the release and the insert are ONE write").              *)
(***************************************************************************)
OnFileOnceAnswered ==
  \A w \in Workspaces : \A g \in answered[w] : usage[g] # None

(***************************************************************************)
(* Spend is confirmed in the end if some workspace keeps the key that paid *)
(* for it linked and its agent goes on reporting it until it is told that  *)
(* the request is counted (reportUsage, verifyPendingUsage).  Two cases    *)
(* are left out, because the agent never sends the id again.  It was told  *)
(* `duplicate' of somebody else's row, one that could still be settled or  *)
(* one that was written beside its own, or lost its row to somebody else:  *)
(* what becomes of that row brings no report back.  Or its row stays       *)
(* rejected: the process died before the new key took the rejections back, *)
(* or the answer for the old key came after that.                          *)
(***************************************************************************)
Confirmed(g) == usage[g] # None /\ usage[g].status = "verified"
KeepsPaying(w, g) == linked[w] = PaidBy[g] /\ PaidBy[g] \in Keys \ revoked
Displaced(w, g) ==
  g \in answered[w] /\ usage[g] # None /\ usage[g].holder # w
LeftRejected(w, g) ==
  /\ ~relinking[w]
  /\ usage[g] # None /\ usage[g].holder = w /\ usage[g].status = "rejected"
EventuallyConfirmed ==
  \A w \in Workspaces : \A g \in Reportable(w) :
    <>[](/\ g \in claims[w] /\ KeepsPaying(w, g)
         /\ ~Displaced(w, g) /\ ~LeftRejected(w, g)) => <>Confirmed(g)

(***************************************************************************)
(* The same while no workspace has a revoked key on file: the limit of a   *)
(* batch starves nobody whose rows the provider answers for, and a row     *)
(* nobody can confirm is released to the workspace that can (reportUsage,  *)
(* verifyPendingUsage).                                                    *)
(***************************************************************************)
ConfirmedWhileKeysWork ==
  <>[](\A v \in Workspaces : linked[v] \notin revoked) => EventuallyConfirmed

(***************************************************************************)
(* "A row that can never become money does not own the id" (usage.ts:190): *)
(* the same for an agent that was told `duplicate'.  It fails when the     *)
(* other row's key refuses the request afterwards, and when the other      *)
(* workspace has no key and the two reports collided: the payer's agent    *)
(* does not send the id again, and the row keeps it.                       *)
(***************************************************************************)
RowsWithoutMoneyOwnNothing ==
  \A w \in Workspaces : \A g \in Reportable(w) :
    <>[](/\ g \in claims[w] /\ KeepsPaying(w, g) /\ ~LeftRejected(w, g)
         /\ \A v \in Workspaces : linked[v] \notin revoked) => <>Confirmed(g)

=============================================================================
