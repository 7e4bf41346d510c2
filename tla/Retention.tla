----------------------------- MODULE Retention -----------------------------
(***************************************************************************)
(* What a deletion promises (invariant 7): writing and deleting, summaries *)
(* and backups beside one another over one store.                          *)
(***************************************************************************)
EXTENDS Backups

vars == <<core, summaryVars, backupVars>>

Init == InitCore /\ InitSummaries /\ InitBackups

\* The service: it is stopped from the start of a restore until one succeeded.
Serves ==
  \/ \E record \in RecordIds :
       \/ Write(record) /\ Slips({record}) /\ UNCHANGED <<enabled, asks, backupVars>>
       \/ Credit(record) /\ UNCHANGED summaryVars
  \/ \E targets \in SUBSET rows :
       /\ Forget(targets) /\ Slips(RecordsOf(targets))
       /\ UNCHANGED <<enabled, asks, backupVars>>
  \/ \E targets \in orphans : Repeat(targets) /\ UNCHANGED <<summaryVars, backupVars>>
  \/ (Mirror \/ MirrorFails) /\ UNCHANGED <<summaryVars, backupVars>>
  \/ SummariesNext /\ UNCHANGED backupVars

ServiceDies ==
  /\ Dies
  /\ asks' = [p \in Askers |-> None]
  /\ slipped' = (slipped \/ ~Quiet)
  /\ UNCHANGED <<enabled, backupVars>>

Next ==
  \/ ~down /\ (Serves \/ ServiceDies)
  \/ Tick /\ UNCHANGED <<summaryVars, backupVars>>
  \/ BackupsNext /\ UNCHANGED summaryVars

Spec == Init /\ [][Next]_vars

(***************************************************************************)
(* Properties.                                                             *)
(***************************************************************************)
\* What the tables can hold: their foreign keys hold, while the service runs
\* and in a store half restored.
StoreOK ==
  /\ current \subseteq rows /\ rows \cup gone \subseteq written /\ written \subseteq Texts
  /\ rows \cap gone = {}
  /\ blocks \subseteq Blocks
  /\ \A b, c \in blocks : b.id = c.id => b = c
  /\ sources \subseteq {b.id : b \in blocks} \X (rows \cup gone)
  /\ replies \subseteq SUBSET Texts

\* What the file and the processes beside the store hold.
TrailOK ==
  /\ mirror \subseteq [record : RecordIds, at : Nat] /\ clock \in Nat
  /\ pending \in {None} \cup SUBSET gone
  /\ budget \in [Kinds -> Nat]
ProcessesOK ==
  /\ asks \in [Askers -> Asks \cup {None}] /\ slipped \in BOOLEAN
  /\ dump \in Dumps \cup {None} /\ files \subseteq Snapshots
  /\ restoring \in Restores \cup {None} /\ down \in BOOLEAN
  /\ restoring # None => down
  /\ down => Idle

TypeOK == StoreOK /\ TrailOK /\ ProcessesOK

(***************************************************************************)
(* "A deletion that has been acknowledged stays done": once its line is in *)
(* the file, a text is on file no more, whatever snapshots were restored   *)
(* and however often, a restore that died halfway included; except a       *)
(* snapshot begun in the tick of the line, which is compared with `>', and *)
(* snapshots of a store a restore had left half done (appendDeletions,     *)
(* deletionsSince, replayDeletion).                                        *)
(***************************************************************************)
Excused(at) == \E u \in used : u.at = at \/ u.half
DeletionStands ==
  ~down => \A l \in lined : l[1] \in rows => Excused(l[2])

(***************************************************************************)
(* No block quotes a deleted text, and one that does not say it is stale   *)
(* quotes current versions only, after corrections, deletions and restores *)
(* alike; unless a call did not see a change after its last look, or a     *)
(* snapshot was taken while somebody wrote, or of a store half restored    *)
(* (summarize, replayDeletion).                                            *)
(***************************************************************************)
Undisturbed == ~slipped /\ ~\E u \in used : u.torn \/ u.half
QuotesNothingDeleted ==
  ~down /\ Undisturbed => \A b \in blocks : b.quotes \subseteq rows
FreshSummariesAreCurrent ==
  ~down /\ Undisturbed => \A b \in blocks : ~b.stale => b.quotes \subseteq current
SummariesTellTheTruth == QuotesNothingDeleted /\ FreshSummariesAreCurrent

(***************************************************************************)
(* "It is discarded rather than stored or returned: a deletion that has    *)
(* been acknowledged stays done, and a summary is never worth reopening    *)
(* it" (summaries.ts:541).  Whatever comes after the last look, that is.   *)
(* It fails for a deletion between that look and the write of the block.   *)
(***************************************************************************)
NoSummaryReopensADeletion ==
  ~down /\ Quiet /\ used = {} => \A b \in blocks : b.quotes \subseteq rows

(***************************************************************************)
(* A block cites exactly what it quotes, or deletions and corrections      *)
(* would miss it (summarize).                                              *)
(***************************************************************************)
CitesWhatItQuotes ==
  ~down /\ Undisturbed /\ Quiet =>
    \A b \in blocks : {s[2] : s \in {x \in sources : x[1] = b.id}} = b.quotes

(***************************************************************************)
(* A snapshot taken while nobody wrote loads whole: a restore that was not *)
(* killed ends with the service back (restoreBackup's order of tables).    *)
(***************************************************************************)
WholeSnapshotsLoad ==
  [][restoring # None /\ restoring' = None /\ down' /\ budget' = budget
       => restoring.file.torn]_vars

(***************************************************************************)
(* "so nothing you deleted comes back" (cli/backup.ts): a text whose       *)
(* deletion was acknowledged is not on file again, where snapshots and     *)
(* lines are never of one tick and snapshots are whole.  It fails: the     *)
(* process died before the line, and the repeated request appends none.    *)
(***************************************************************************)
NothingAcknowledgedComesBack ==
  ~down /\ Undisturbed /\ ~(\E u \in used, m \in mirror : u.at = m.at) => answered \cap rows = {}

(***************************************************************************)
(* "A record earns ONCE, ever" (schema.prisma).  It fails: a restore       *)
(* forgets the credits.                                                    *)
(***************************************************************************)
EarnsOnceEver == \A r \in RecordIds : earned[r] <= 1

=============================================================================
