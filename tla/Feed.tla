-------------------------------- MODULE Feed --------------------------------
(***************************************************************************)
(* The console's live feed (memory.ts eventsCursor and eventsSince,        *)
(* memory.controller.ts events): a poll reads the entries of the audit     *)
(* trail after a cursor of time and id, page by page, into a stream; a     *)
(* client that was cut off comes back with the last cursor it was given.   *)
(* An entry is stamped when its statement is made and is on file when that *)
(* has run; ids are in no order.                                           *)
(*                                                                         *)
(* Definitions called Bug... are variants of the one that follows them, as *)
(* a plausible mistake in the code would make it; nothing here uses them.  *)
(***************************************************************************)
EXTENDS ApiProcess, SequencesExt

CONSTANTS
  LastId,   \* ids are 1..LastId; 0 stands for the empty id
  Page      \* POLL_PAGE

ASSUME FeedAssumption ==
  LastId \in Nat /\ Page \in Nat \ {0} /\ None \notin Nat \X Nat

VARIABLES
  stamped,   \* entries being written: <<time, id>>
  trail,     \* entries on file
  cursor,    \* where the server's stream stands, None when there is none
  wire,      \* entries on their way to the client
  place,     \* the last cursor the client was given, None at first
  got,       \* entries the client got, in order
  began,     \* history variable: where the client's first stream began
  missable,  \* history variable: entries that came on file behind a cursor,
             \* or that a cursor without an id left out
  caughtUp   \* history variable: nothing came on file since a short page

feedVars == <<stamped, trail, cursor, wire, place, got, began, missable, caughtUp>>

FeedInit ==
  /\ stamped = {} /\ trail = {} /\ cursor = None /\ wire = <<>> /\ place = None
  /\ got = <<>> /\ began = None /\ missable = {} /\ caughtUp = FALSE

Before(x, y) == x[1] < y[1] \/ (x[1] = y[1] /\ x[2] < y[2])

Stamp(id) ==
  /\ id \notin {e[2] : e \in stamped \cup trail} /\ Left("entry") /\ Spend("entry")
  /\ stamped' = stamped \cup {<<now, id>>}
  /\ UNCHANGED <<trail, cursor, wire, place, got, began, missable, caughtUp, now>>

\* By now a stream, or the client, may have read past it.
IsFiled(e) ==
  /\ e \in stamped
  /\ stamped' = stamped \ {e} /\ trail' = trail \cup {e} /\ caughtUp' = FALSE
  /\ missable' = IF \E c \in {cursor, place} \ {None} : ~Before(c, e)
                 THEN missable \cup {e} ELSE missable
  /\ UNCHANGED <<cursor, wire, place, got, began, now, budget>>

\* A stream begins at the newest entry, or at this moment when there is none.
Newest ==
  IF trail = {} THEN {<<now, 0>>} ELSE {e \in trail : \A x \in trail \ {e} : Before(x, e)}

OpenStream ==
  /\ cursor = None /\ place = None /\ Left("follow") /\ Spend("follow")
  /\ \E head \in Newest : cursor' = head /\ place' = head /\ began' = head
  /\ caughtUp' = FALSE
  /\ UNCHANGED <<stamped, trail, wire, got, missable, now>>

\* Or where the client was; without the id, the rest of its millisecond is
\* left out.
BugResume(bare) ==
  /\ cursor = None /\ place # None
  /\ cursor' = began /\ caughtUp' = FALSE
  /\ UNCHANGED <<stamped, trail, wire, place, got, began, missable, now, budget>>
Resume(bare) ==
  /\ cursor = None /\ place # None
  /\ cursor' = IF bare THEN <<place[1], LastId>> ELSE place
  /\ missable' = IF bare THEN missable \cup {e \in trail : e[1] = place[1]} ELSE missable
  /\ caughtUp' = FALSE
  /\ UNCHANGED <<stamped, trail, wire, place, got, began, now, budget>>

\* eventsSince: the first of what comes after the cursor, in order; what a page
\* leaves out comes after it, and only a full page leaves anything out.
Rest == {e \in trail : Before(cursor, e)}
Pages ==
  {page \in SeqOf(Rest, Page) :
     /\ \A i, j \in DOMAIN page : i < j => Before(page[i], page[j])
     /\ \A e \in Rest \ Range(page) :
          Len(page) = Page /\ \A i \in DOMAIN page : Before(page[i], e)}

\* An empty page leaves the cursor where it was.
NextCursor(page) == IF page = <<>> THEN cursor ELSE Last(page)

Poll ==
  /\ cursor # None
  /\ \E page \in Pages :
       /\ wire' = wire \o page
       /\ cursor' = NextCursor(page)
       /\ caughtUp' = (Len(page) < Page)
  /\ UNCHANGED <<stamped, trail, place, got, began, missable, now, budget>>

Receive ==
  /\ wire # <<>>
  /\ wire' = Tail(wire) /\ got' = Append(got, Head(wire)) /\ place' = Head(wire)
  /\ UNCHANGED <<stamped, trail, cursor, began, missable, caughtUp, now, budget>>

\* The connection is lost, and what was on its way.
Drop ==
  /\ cursor # None /\ Left("drop") /\ Spend("drop")
  /\ cursor' = None /\ wire' = <<>> /\ caughtUp' = FALSE
  /\ UNCHANGED <<stamped, trail, place, got, began, missable, now>>

\* The process dies; a statement that has not run never will.
FeedLost ==
  /\ cursor' = None /\ wire' = <<>> /\ caughtUp' = FALSE /\ stamped' = {}
  /\ UNCHANGED <<trail, place, got, began, missable>>

FeedNext ==
  \/ \E id \in 1..LastId : Stamp(id)
  \/ \E e \in stamped : IsFiled(e)
  \/ \E bare \in BOOLEAN : Resume(bare)
  \/ OpenStream \/ Poll \/ Receive \/ Drop

(***************************************************************************)
(* Properties.                                                             *)
(***************************************************************************)

\* What a client got is on file, and so is what is on its way to it.
FeedTypeOK ==
  /\ stamped \cap trail = {} /\ stamped \cup trail \subseteq (0..now) \X (1..LastId)
  /\ \A i \in DOMAIN got : got[i] \in trail
  /\ \A i \in DOMAIN wire : wire[i] \in trail
  /\ cursor = None => wire = <<>>
  /\ missable \subseteq trail

(***************************************************************************)
(* The seam of a stream and the next has no double: a client gets entries  *)
(* in order and each once, through reconnections (resumeFrom).             *)
(***************************************************************************)
NothingTwice == \A i, j \in DOMAIN got : i < j => Before(got[i], got[j])

(***************************************************************************)
(* And no gap: with nothing on its way and nothing filed since a short     *)
(* page, a client has every entry since its first stream began, except     *)
(* what came on file behind a cursor (eventsSince, POLL_PAGE).             *)
(***************************************************************************)
NothingMissed ==
  caughtUp /\ wire = <<>> =>
    \A e \in trail \ missable : Before(began, e) => e \in Range(got)

(***************************************************************************)
(* One stream and the next make one feed: no entry twice, none left out,   *)
(* whatever was cut off, and wherever (resumeFrom, eventsSince).           *)
(***************************************************************************)
FeedIsSeamless == NothingTwice /\ NothingMissed

=============================================================================
