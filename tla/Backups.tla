------------------------------ MODULE Backups ------------------------------
(***************************************************************************)
(* Snapshots and their restoration (backup.ts, cli/backup.ts): a dump      *)
(* reads table after table, without a transaction, while the service goes  *)
(* on; a restore clears the tables, loads the snapshot, and replays the    *)
(* deletions the file has recorded since.  It is run with the service      *)
(* stopped, and the service comes back when it has succeeded.              *)
(*                                                                         *)
(* The tables are those that matter to one another, and the credits, which *)
(* the dump leaves out although they hang on the workspace's row.          *)
(***************************************************************************)
EXTENDS Summaries, Sequences

CONSTANT Retention   \* days a snapshot is kept

VARIABLES
  dump,      \* the snapshot being taken
  files,     \* the snapshots there are
  restoring, \* the restore in progress: its file, its step, lines left
  down,      \* no restore has succeeded since one was begun
  used,      \* history variable: when the snapshots restored were taken,
             \* whether somebody was writing meanwhile, and whether what was
             \* dumped was half restored
  credits,   \* records credited to their author
  earned     \* history variable: credits ever given for a record

backupVars == <<dump, files, restoring, down, used, credits, earned>>

BugTables == <<"blocks", "sources", "rows", "replies">>
Tables == <<"rows", "blocks", "sources", "replies">>
Steps == 1..Len(Tables)

\* What the tables hold; a snapshot, the dump of one, and a restore.
RowTable == [live : SUBSET Texts, current : SUBSET Texts, gone : SUBSET Texts]
Contents == [rows : RowTable, blocks : SUBSET Blocks, sources : SUBSET (Nat \X Texts),
             replies : SUBSET (SUBSET Texts)]
Snapshots == [takenAt : Nat, tables : Contents, torn : BOOLEAN, half : BOOLEAN]
Dumps == [at : Nat, takenAt : Nat, got : Contents, was : Contents, busy : BOOLEAN,
          half : BOOLEAN]
Restores == [file : Snapshots, at : Nat, lines : SUBSET [record : RecordIds, at : Nat]]
ASSUME BackupsAssumption ==
  Retention \in Nat /\ None \notin Snapshots \cup Dumps \cup Restores

InitBackups ==
  /\ dump = None /\ files = {} /\ restoring = None /\ down = FALSE /\ used = {}
  /\ credits = {} /\ earned = [r \in RecordIds |-> 0]

All == [rows |-> [live |-> rows, current |-> current, gone |-> gone],
        blocks |-> blocks, sources |-> sources, replies |-> replies]
Empty == [rows |-> [live |-> {}, current |-> {}, gone |-> {}],
          blocks |-> {}, sources |-> {}, replies |-> {}]

(***************************************************************************)
(* createBackup: takenAt is read first; old snapshots are pruned last.     *)
(* Nothing asks whether the store is whole: one that a restore left behind *)
(* half done is dumped as it is.                                           *)
(***************************************************************************)
Dump ==
  /\ dump = None /\ restoring = None /\ Left("dump") /\ Spend("dump")
  /\ dump' = [at |-> 1, takenAt |-> clock, got |-> Empty, was |-> All, busy |-> ~Quiet,
              half |-> down]
  /\ UNCHANGED <<store, trail, files, restoring, down, used, credits, earned>>

Read(t) == CASE t = "rows"    -> [dump.got EXCEPT !.rows = All.rows]
             [] t = "blocks"  -> [dump.got EXCEPT !.blocks = blocks]
             [] t = "sources" -> [dump.got EXCEPT !.sources = sources]
             [] t = "replies" -> [dump.got EXCEPT !.replies = replies]

ReadTable ==
  /\ dump # None /\ dump.at \in Steps
  /\ dump' = [dump EXCEPT !.at = @ + 1, !.got = Read(Tables[dump.at]),
                          !.busy = @ \/ ~Quiet \/ All # dump.was]
  /\ UNCHANGED <<core, files, restoring, down, used, credits, earned>>

Snapshot == [takenAt |-> dump.takenAt, tables |-> dump.got, torn |-> dump.busy,
             half |-> dump.half]

Kept(F) == {f \in F : clock - f.takenAt <= Retention}

WriteFile ==
  /\ dump # None /\ dump.at \notin Steps
  /\ files' = Kept(files \cup {Snapshot})
  /\ dump' = None
  /\ UNCHANGED <<core, restoring, down, used, credits, earned>>

Prune ==
  /\ files # Kept(files) /\ files' = Kept(files)
  /\ UNCHANGED <<core, dump, restoring, down, used, credits, earned>>

(***************************************************************************)
(* restoreBackup.                                                          *)
(***************************************************************************)

\* Clearing the tables takes with them what hangs on their rows.
Clear(f) ==
  /\ restoring = None /\ dump = None /\ pending = None /\ Idle
  /\ Left("restore") /\ Spend("restore")
  /\ f \in files
  /\ rows' = {} /\ current' = {} /\ gone' = {}
  /\ blocks' = {} /\ sources' = {} /\ replies' = {}
  /\ credits' = {}
  /\ restoring' = [file |-> f, at |-> 1, lines |-> {}]
  /\ down' = TRUE
  /\ used' = used \cup {[at |-> f.takenAt, torn |-> f.torn, half |-> f.half]}
  /\ UNCHANGED <<trail, dump, files, earned>>

Loading(t) == restoring # None /\ restoring.at \in Steps /\ Tables[restoring.at] = t
From == restoring.file.tables
Loaded == restoring' = [restoring EXCEPT !.at = @ + 1]
\* A row whose parent is not there is refused, and the restore ends there.
Fails == restoring' = None
Rest == UNCHANGED <<trail, budget, dump, files, down, used, credits, earned>>

LoadRows ==
  /\ Loading("rows") /\ Loaded
  /\ rows' = From.rows.live /\ current' = From.rows.current
  /\ gone' = From.rows.gone
  /\ UNCHANGED <<blocks, sources, replies>> /\ Rest

LoadBlocks ==
  /\ Loading("blocks") /\ Loaded /\ blocks' = From.blocks
  /\ UNCHANGED <<rows, current, gone, sources, replies>> /\ Rest

LoadSources ==
  /\ Loading("sources")
  /\ LET fit == {s \in From.sources : /\ s[1] \in {b.id : b \in blocks}
                                         /\ s[2] \in rows \cup gone}
     IN /\ sources' = fit
        /\ IF fit = From.sources THEN Loaded ELSE Fails
  /\ UNCHANGED <<rows, current, gone, blocks, replies>> /\ Rest

LoadReplies ==
  /\ Loading("replies") /\ Loaded /\ replies' = From.replies
  /\ UNCHANGED <<rows, current, gone, blocks, sources>> /\ Rest

\* deletionsSince: strictly after the snapshot was begun.
Since(f) == {m \in mirror : m.at > f.takenAt}

ReadLedger ==
  /\ restoring # None /\ restoring.at = Len(Tables) + 1
  /\ restoring' = [restoring EXCEPT !.at = @ + 1, !.lines = Since(restoring.file)]
  /\ UNCHANGED store /\ Rest

\* replayDeletion: every version of the record, whatever the deletion took; of
\* a record that is not there, nothing.
Replayed(record) == Removed(Of(rows \cup gone, record))

Replay ==
  /\ restoring # None /\ restoring.at > Len(Tables) + 1
  /\ \E m \in restoring.lines :
       /\ Replayed(m.record)
       /\ restoring' = [restoring EXCEPT !.lines = @ \ {m}]
  /\ UNCHANGED replies /\ Rest

Restored ==
  /\ restoring # None /\ restoring.at > Len(Tables) + 1 /\ restoring.lines = {}
  /\ restoring' = None /\ down' = FALSE
  /\ UNCHANGED <<core, dump, files, used, credits, earned>>

RestoreDies ==
  /\ restoring # None /\ Left("crash") /\ Spend("crash")
  /\ restoring' = None
  /\ UNCHANGED <<store, trail, dump, files, down, used, credits, earned>>

\* creditRetrieval: one credit for a record, as far as the table knows.
Credit(record) ==
  /\ Left("credit") /\ Spend("credit")
  /\ Of(rows, record) # {} /\ record \notin credits
  /\ credits' = credits \cup {record}
  /\ earned' = [earned EXCEPT ![record] = @ + 1]
  /\ UNCHANGED <<store, trail, dump, files, restoring, down, used>>

BackupsNext ==
  \/ Dump \/ ReadTable \/ WriteFile \/ Prune
  \/ \E f \in files : Clear(f)
  \/ LoadRows \/ LoadBlocks \/ LoadSources \/ LoadReplies
  \/ ReadLedger \/ Replay \/ Restored \/ RestoreDies

=============================================================================
