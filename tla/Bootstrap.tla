------------------------------ MODULE Bootstrap ------------------------------
(***************************************************************************)
(* Opening the store (bootstrap.ts, db.ts).  Several processes open one    *)
(* SQLite file.  Each looks at its version stamp; where that is behind, it *)
(* adds the columns an older store lacks, one statement each, and then, in *)
(* one transaction, the missing tables and indexes and the stamp.  Every   *)
(* operation of a process waits for this, and a process has one connection.*)
(*                                                                         *)
(* Definitions called Bug... are variants of the one that follows them, as *)
(* a plausible mistake in the code would make it; nothing here uses them.  *)
(***************************************************************************)
EXTENDS ApiProcess, FiniteSets, Sequences

CONSTANTS
  Processes,
  Columns,      \* ADDED_COLUMNS, in order
  MaxAttempts

ASSUME BootstrapAssumption ==
  /\ IsFiniteSet(Processes)
  /\ None \notin Processes \cup {"bootstrap", "transaction", "answered", "begun"}
  /\ Columns \in Seq(STRING)
  /\ MaxAttempts \in Nat \ {0}

VARIABLES
  file,     \* the store: whose tables it has, and what they lack
  writer,   \* the process whose transaction holds SQLite's write lock
  opening,  \* opening[p]: how far ensureSchema has come in p
  holds,    \* holds[p]: what has p's connection
  asked     \* asked[p]: the operation p has under way

bootVars == <<file, writer, opening, holds, asked>>

AllColumns == {Columns[i] : i \in DOMAIN Columns}

File(tables, columns, strict, current) ==
  [tables |-> tables, columns |-> columns, strict |-> strict, stamped |-> current]
New == File("none", {}, FALSE, FALSE)

\* A new file, an older store with or without what cannot be relaxed, one that
\* prisma db push made, and another application's.
Stores ==
  {New, File("foreign", {}, FALSE, FALSE), File("whole", AllColumns, FALSE, FALSE)}
  \cup [tables : {"older"}, columns : SUBSET AllColumns, strict : BOOLEAN, stamped : {FALSE}]

Closed == [at |-> "closed", present |-> "none", attempt |-> 0, todo |-> <<>>, why |-> None]

BootstrapInit ==
  /\ file \in IF Left("open") THEN Stores ELSE {New}
  /\ writer = None
  /\ opening = [p \in Processes |-> Closed]
  /\ holds = [p \in Processes |-> None]
  /\ asked = [p \in Processes |-> None]

Free(p) == holds[p] = None
Steps(p, at) == opening' = [opening EXCEPT ![p].at = at]
Throws(p, why) == opening' = [opening EXCEPT ![p].at = "failed", ![p].why = why]

\* getPrisma: the bootstrap starts with the client.
Open(p) ==
  /\ opening[p].at = "closed" /\ Left("open") /\ Spend("open")
  /\ Steps(p, "stamp")
  /\ UNCHANGED <<file, writer, holds, asked, now>>

ReadStamp(p) ==
  /\ opening[p].at = "stamp" /\ Free(p)
  /\ Steps(p, IF file.stamped THEN "ready" ELSE "look")
  /\ UNCHANGED <<file, writer, holds, asked, now, budget>>

\* What tables there were is not asked again.
LookAtTables(p) ==
  /\ opening[p].at = "look" /\ Free(p)
  /\ IF file.tables = "foreign" THEN Throws(p, "foreign")
     ELSE opening' = [opening EXCEPT ![p].at = "attempt", ![p].present = file.tables]
  /\ UNCHANGED <<file, writer, holds, asked, now, budget>>

Attempt(p) ==
  /\ opening[p].at = "attempt" /\ Free(p)
  /\ opening' = [opening EXCEPT
       ![p].at = IF file.stamped THEN "ready" ELSE "strict", ![p].attempt = @ + 1]
  /\ UNCHANGED <<file, writer, holds, asked, now, budget>>

\* upgradeInPlace; for a file that had no tables there is nothing to do.
BugUpgraded(p) == <<>>
Upgraded(p) == IF opening[p].present = "none" THEN <<>> ELSE Columns

CheckStrict(p) ==
  /\ opening[p].at = "strict" /\ Free(p)
  /\ IF opening[p].present # "none" /\ file.strict THEN Throws(p, "older")
     ELSE opening' = [opening EXCEPT ![p].at = "columns", ![p].todo = Upgraded(p)]
  /\ UNCHANGED <<file, writer, holds, asked, now, budget>>

CheckColumn(p) ==
  /\ opening[p].at = "columns" /\ Free(p)
  /\ CASE opening[p].todo = <<>> -> Steps(p, "create")
       [] opening[p].todo # <<>> /\ Head(opening[p].todo) \in file.columns ->
            opening' = [opening EXCEPT ![p].todo = Tail(@)]
       [] OTHER -> Steps(p, "alter")
  /\ UNCHANGED <<file, writer, holds, asked, now, budget>>

\* A statement of its own; a column somebody added meanwhile is an error.
AlterTable(p) ==
  LET column == Head(opening[p].todo)
  IN /\ opening[p].at = "alter" /\ Free(p) /\ writer = None
     /\ IF column \in file.columns THEN Throws(p, "duplicate column") /\ UNCHANGED file
        ELSE /\ file' = [file EXCEPT !.columns = @ \cup {column}]
             /\ opening' = [opening EXCEPT ![p].at = "columns", ![p].todo = Tail(@)]
     /\ UNCHANGED <<writer, holds, asked, now, budget>>

\* The transaction: IF NOT EXISTS statements, and the stamp, or nothing.  Tables
\* that are there stay as they are, and an index on a column they lack fails.
BeginCreate(p) ==
  /\ opening[p].at = "create" /\ Free(p) /\ writer = None
  /\ writer' = p /\ holds' = [holds EXCEPT ![p] = "bootstrap"] /\ Steps(p, "creating")
  /\ UNCHANGED <<file, asked, now, budget>>

Created == IF file.tables = "none" THEN AllColumns ELSE file.columns

\* In two steps, a process that dies between them leaves a stamp and no tables.
BugFinish(p) ==
  \/ /\ ~file.stamped /\ file' = [file EXCEPT !.stamped = TRUE]
     /\ UNCHANGED <<writer, opening, holds>>
  \/ /\ file.stamped /\ file' = File("whole", Created, FALSE, TRUE)
     /\ writer' = None /\ holds' = [holds EXCEPT ![p] = None] /\ Steps(p, "ready")
Finish(p) ==
  /\ writer' = None /\ holds' = [holds EXCEPT ![p] = None]
  /\ IF Created = AllColumns
     THEN file' = File("whole", Created, FALSE, TRUE) /\ Steps(p, "ready")
     ELSE UNCHANGED file /\ Throws(p, "no such column")

Create(p) ==
  /\ opening[p].at = "creating"
  /\ Finish(p)
  /\ UNCHANGED <<asked, now, budget>>

\* Somebody else's transaction took longer than SQLite waits.
Busy(p) ==
  /\ opening[p].at \in {"alter", "create"} /\ Free(p) /\ writer # None
  /\ IF opening[p].attempt < MaxAttempts THEN Steps(p, "attempt") ELSE Throws(p, "busy")
  /\ UNCHANGED <<file, writer, holds, asked, now, budget>>

\* The process is killed; what its transaction did is undone.
Exit(p) ==
  /\ opening[p].at # "closed" /\ Left("crash") /\ Spend("crash")
  /\ writer' = IF writer = p THEN None ELSE writer
  /\ opening' = [opening EXCEPT ![p] = Closed]
  /\ holds' = [holds EXCEPT ![p] = None] /\ asked' = [asked EXCEPT ![p] = None]
  /\ UNCHANGED <<file, now>>

\* A query waits for the bootstrap, and then for the connection; a transaction
\* as well, and in this order; its queries run on the connection it has.
Ask(p, operation) ==
  /\ opening[p].at # "closed" /\ asked[p] = None /\ Left("query") /\ Spend("query")
  /\ asked' = [asked EXCEPT ![p] = operation]
  /\ UNCHANGED <<file, writer, opening, holds, now>>

BugMayBegin(p) == asked[p] = "transaction"
MayBegin(p) == asked[p] = "transaction" /\ opening[p].at = "ready"

BeginTransaction(p) ==
  /\ MayBegin(p) /\ Free(p)
  /\ holds' = [holds EXCEPT ![p] = "transaction"]
  /\ asked' = [asked EXCEPT ![p] = "begun"]
  /\ UNCHANGED <<file, writer, opening, now, budget>>

\* The hook of every query, in a transaction or not.
RunQuery(p) ==
  /\ opening[p].at = "ready"
  /\ \/ asked[p] = "query" /\ Free(p)
     \/ asked[p] = "begun"
  /\ asked' = [asked EXCEPT ![p] = "answered"]
  /\ UNCHANGED <<file, writer, opening, holds, now, budget>>

EndOperation(p) ==
  /\ \/ asked[p] = "answered"
     \/ asked[p] # None /\ opening[p].at = "failed"
  /\ asked' = [asked EXCEPT ![p] = None]
  /\ holds' = [holds EXCEPT ![p] = IF @ = "transaction" THEN None ELSE @]
  /\ UNCHANGED <<file, writer, opening, now, budget>>

BootstrapNext ==
  \E p \in Processes :
    \/ Open(p) \/ ReadStamp(p) \/ LookAtTables(p) \/ Attempt(p) \/ CheckStrict(p)
    \/ CheckColumn(p) \/ AlterTable(p) \/ BeginCreate(p) \/ Create(p) \/ Busy(p)
    \/ Exit(p) \/ BeginTransaction(p) \/ RunQuery(p) \/ EndOperation(p)
    \/ \E operation \in {"query", "transaction"} : Ask(p, operation)

(***************************************************************************)
(* Properties.                                                             *)
(***************************************************************************)

\* Only one process writes, and it is the one whose connection does.
BootstrapTypeOK ==
  /\ \A p \in Processes : (writer = p) <=> (holds[p] = "bootstrap")
  /\ \A p \in Processes : opening[p].at = "creating" <=> writer = p
  /\ file.columns \subseteq AllColumns

\* No query meets a store without its tables and columns (withSchemaBootstrap).
QueriesFindTheirTables == \A p \in Processes :
  asked[p] = "answered" => file.tables = "whole" /\ file.columns = AllColumns

\* Whoever opens a store, together with whom and after whatever crash, opens it,
\* or the store cannot be opened in place; save for the two ways two processes
\* that open it at once disturb each other (ensureSchema).
OpensOrSaysWhy == \A p \in Processes : LET why == opening[p].why IN
  opening[p].at = "failed" =>
    CASE why = "foreign" -> file.tables = "foreign"
      [] why = "older" -> file.strict
      [] why = "busy" -> opening[p].attempt = MaxAttempts
      [] OTHER -> why = "duplicate column" /\ Cardinality(Processes) > 1

\* No transaction sits on the connection the bootstrap needs.
NobodyWaitsForItself == \A p \in Processes :
  holds[p] = "transaction" => opening[p].at \notin
    {"stamp", "look", "attempt", "strict", "columns", "alter", "create"}

(***************************************************************************)
(* A store opens whole, or says why: no query meets half a schema, no      *)
(* process waits for a connection it holds itself, and no crash leaves     *)
(* what the next process cannot open (ensureSchema, withSchemaBootstrap).  *)
(***************************************************************************)
OpensWholeOrSaysWhy ==
  QueriesFindTheirTables /\ OpensOrSaysWhy /\ NobodyWaitsForItself

(***************************************************************************)
(* "Safe to call any number of times, from any number of processes"        *)
(* (bootstrap.ts).  It fails where two processes bring one older store up  *)
(* to date: both find a column missing, and the second statement that adds *)
(* it is an error that is not retried.                                     *)
(***************************************************************************)
SafeFromManyProcesses ==
  \A p \in Processes : opening[p].why # "duplicate column"

=============================================================================
