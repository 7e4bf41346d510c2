------------------------------ MODULE Recalls ------------------------------
(***************************************************************************)
(* What a recall credits (RetrievalCredits) and what it answers            *)
(* (TaskContext).                                                          *)
(***************************************************************************)
EXTENDS RetrievalCredits, TaskContext

(***************************************************************************)
(* TaskContext.RecallIsHonest, looked at once: an answer has no state.     *)
(***************************************************************************)
AtFirst == failures = 0 /\ \A a \in Agents : recall[a] = Idle /\ \A r \in Records : credit[r] = None

RecallTellsTheTruth == AtFirst => RecallIsHonest

=============================================================================
