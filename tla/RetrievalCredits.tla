-------------------------- MODULE RetrievalCredits --------------------------
(***************************************************************************)
(* Credits for used memory (credits.ts): when an agent recalls records     *)
(* that other agents wrote, each of them earns its author one credit, once *)
(* and for ever.  The recall reads which credits exist, then inserts the   *)
(* missing ones in one statement that goes through whole or not at all; an *)
(* error is swallowed, so that a recall never fails because of a credit.   *)
(*                                                                         *)
(* Definitions called Bug... are variants of the one that follows them, as *)
(* a plausible mistake in the code would make it; nothing here uses them.  *)
(***************************************************************************)
EXTENDS Naturals, FiniteSets

CONSTANTS
  Agents,      \* agents of one workspace: a recall does not leave it
  Records,
  None,
  Author,      \* Author[r]: the agent that wrote r
  MaxFailures  \* bound: how often the store fails or the process dies

ASSUME CreditAssumption ==
  /\ None \notin Agents
  /\ Author \in [Records -> Agents]
  /\ MaxFailures \in Nat

VARIABLES
  credit,   \* credit[r]: the agent whose recall credited r, or None
  recall,   \* recall[a]: how far the latest recall of a has come
  failures

vars == <<credit, recall, failures>>

Idle == [at |-> "idle", used |-> {}, fresh |-> {}]

Init ==
  /\ credit = [r \in Records |-> None]
  /\ recall = [a \in Agents |-> Idle]
  /\ failures = 0

Resting == {"idle", "done"}

\* The records of a result that earn somebody else something.
Candidates(a, result) == {r \in result : Author[r] # a}

Recall(a, result) ==
  /\ recall[a].at \in Resting
  /\ Candidates(a, result) # {}
  /\ recall' = [recall EXCEPT ![a] =
                  [at |-> "read", used |-> Candidates(a, result), fresh |-> {}]]
  /\ UNCHANGED <<credit, failures>>

BugUncredited(used) == used
Uncredited(used) == {r \in used : credit[r] = None}
BugAfterRead(fresh) == "write"
AfterRead(fresh) == IF fresh = {} THEN "done" ELSE "write"
ReadExisting(a) ==
  /\ recall[a].at = "read"
  /\ LET fresh == Uncredited(recall[a].used)
     IN recall' = [recall EXCEPT ![a].at = AfterRead(fresh),
                                 ![a].fresh = fresh]
  /\ UNCHANGED <<credit, failures>>

\* recordId is unique: one record credited meanwhile fails the statement.
BugInsertable(fresh) == TRUE
Insertable(fresh) == \A r \in fresh : credit[r] = None
CreateMany(a) ==
  /\ recall[a].at = "write"
  /\ credit' = IF Insertable(recall[a].fresh)
               THEN [r \in Records |->
                       IF r \in recall[a].fresh THEN a ELSE credit[r]]
               ELSE credit
  /\ recall' = [recall EXCEPT ![a].at = "done"]
  /\ UNCHANGED failures

\* The table is unavailable or the process dies: nothing is credited.
Fail(a) ==
  /\ recall[a].at \notin Resting
  /\ failures < MaxFailures /\ failures' = failures + 1
  /\ recall' = [recall EXCEPT ![a] = Idle]
  /\ UNCHANGED credit

Next ==
  \E a \in Agents :
    \/ \E result \in SUBSET Records : Recall(a, result)
    \/ ReadExisting(a) \/ CreateMany(a) \/ Fail(a)

Spec == Init /\ [][Next]_vars

(***************************************************************************)
(* Fairness: a recall returns, and every record keeps turning up in the    *)
(* recalls of some agent that did not write it, together with anything.    *)
(***************************************************************************)
FairSpec ==
  /\ Spec
  /\ \A a \in Agents : WF_vars(ReadExisting(a) \/ CreateMany(a))
  /\ \A r \in Records :
       SF_vars(\E a \in Agents \ {Author[r]}, result \in SUBSET Records :
                 r \in result /\ Recall(a, result))

(***************************************************************************)
(* Properties.                                                             *)
(***************************************************************************)

\* What a credit and a recall in progress are (creditRetrieval).
TypeOK ==
  /\ credit \in [Records -> Agents \cup {None}]
  /\ recall \in [Agents -> [at : {"idle", "read", "write", "done"},
                            used : SUBSET Records, fresh : SUBSET Records]]
  /\ \A a \in Agents : /\ recall[a].fresh \subseteq recall[a].used
                       /\ recall[a].at = "write" => recall[a].fresh # {}
  /\ failures \in 0..MaxFailures

(***************************************************************************)
(* A record earns once, ever: two recalls that both found it uncredited    *)
(* never both credit it, and no later one does (creditRetrieval; the       *)
(* unique recordId of reward_credits).                                     *)
(***************************************************************************)
EarnsOnce ==
  [][\A r \in Records : credit[r] # None => credit'[r] = credit[r]]_vars

(***************************************************************************)
(* A record other agents keep using is credited in the end, however often  *)
(* recalls overlap and drop each other's batches: each loss is somebody's  *)
(* gain, and the credits already there are read before the insert          *)
(* (creditRetrieval).                                                      *)
(***************************************************************************)
EventuallyCredited == \A r \in Records : <>(credit[r] # None)

=============================================================================
