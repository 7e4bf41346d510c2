----------------------------- MODULE RewardsPage -----------------------------
(***************************************************************************)
(* The console's reward pages (rewards.controller.ts summary and standing, *)
(* with the readers of usage.ts and credits.ts): each is several queries   *)
(* over one account's usage reports and credits, with no transaction       *)
(* around them, while verification, new reports and recalls go on.         *)
(* summary asks one after the other, standing all at once.  What a query   *)
(* counts or adds up is modelled as the set of rows it saw.  The times     *)
(* the windows go by are taken when a statement is made; its row is there  *)
(* to be seen when it has run, and a page may have begun in between.       *)
(*                                                                         *)
(* Definitions called Bug... are variants of the one that follows them, as *)
(* a plausible mistake in the code would make it; nothing here uses them.  *)
(***************************************************************************)
EXTENDS ApiProcess, FiniteSets

CONSTANTS
  Reports,   \* usage reports of the account
  Credits,   \* credits of the account
  Month      \* the rolling window

ASSUME PageAssumption ==
  /\ Month \in Nat /\ Reports \cap Credits = {}
  /\ None \notin Nat \cup {"pending", "verified", "rejected", "summary", "standing"}

VARIABLES
  usage,     \* usage[r]: its status, and when it was verified
  earned,    \* earned[c]: the time of the credit on file, or None
  dated,     \* dated[x]: the time in a statement that has not run, which is to
             \* confirm a report or to write a credit; None where there is none
  page,      \* the page being loaded
  disturbed, \* history variable: a row was written since the page was begun
  behind     \* history variable: credits dated before the page was begun and
             \* written since

pageVars == <<usage, earned, dated, page, disturbed, behind>>

NoPage == [kind |-> None, at |-> 0, answers |-> <<>>]

RewardsPageInit ==
  /\ usage = [r \in Reports |-> [status |-> None, at |-> None]]
  /\ earned = [c \in Credits |-> None]
  /\ dated = [x \in Reports \cup Credits |-> None]
  /\ page = NoPage /\ disturbed = FALSE /\ behind = {}

(***************************************************************************)
(* What goes on meanwhile: a report is filed, answered for, asked about    *)
(* again when a key is linked, or claimed by another account's workspace;  *)
(* a recall writes a credit.                                               *)
(***************************************************************************)
Moves == {<<None, "pending">>, <<"pending", "rejected">>, <<"rejected", "pending">>,
          <<"pending", None>>, <<"rejected", None>>}

\* The run that would confirm a report refuses none meanwhile; when the row is
\* released its statement finds nothing.
ReportMoves(r, to) ==
  /\ <<usage[r].status, to>> \in Moves /\ Left("report") /\ Spend("report")
  /\ to = "rejected" => dated[r] = None
  /\ usage' = [usage EXCEPT ![r] = [status |-> to, at |-> None]]
  /\ dated' = [dated EXCEPT ![r] = None] /\ disturbed' = TRUE
  /\ UNCHANGED <<earned, page, behind, now>>

\* The provider knows the request: verifiedAt is this moment.
Confirm(r) ==
  /\ usage[r].status = "pending" /\ dated[r] = None /\ Left("report") /\ Spend("report")
  /\ dated' = [dated EXCEPT ![r] = now]
  /\ UNCHANGED <<usage, earned, page, disturbed, behind, now>>

IsConfirmed(r) ==
  /\ dated[r] # None
  /\ usage' = [usage EXCEPT ![r] = [status |-> "verified", at |-> dated[r]]]
  /\ dated' = [dated EXCEPT ![r] = None] /\ disturbed' = TRUE
  /\ UNCHANGED <<earned, page, behind, now, budget>>

\* createdAt is when createMany is called.
Earn(c) ==
  /\ earned[c] = None /\ dated[c] = None /\ Left("earn") /\ Spend("earn")
  /\ dated' = [dated EXCEPT ![c] = now]
  /\ UNCHANGED <<usage, earned, page, disturbed, behind, now>>

IsEarned(c) ==
  /\ dated[c] # None
  /\ earned' = [earned EXCEPT ![c] = dated[c]]
  /\ dated' = [dated EXCEPT ![c] = None] /\ disturbed' = TRUE
  /\ behind' = IF dated[c] < page.at THEN behind \cup {c} ELSE behind
  /\ UNCHANGED <<usage, page, now, budget>>

(***************************************************************************)
(* The queries.  A window begins a month before the page did; the credits' *)
(* window ends where the page began, the spend's does not end.             *)
(***************************************************************************)
In(status) == {r \in Reports : usage[r].status = status}
UnconfirmedUsage(status) == In(status)
SpendEver == In("verified")
SpendByWorkspace(since) == {r \in In("verified") : usage[r].at >= since}
EarnedEver == {c \in Credits : earned[c] # None}
CreditsOf(since, until) ==
  {c \in EarnedEver : since <= earned[c] /\ earned[c] < until}
AgentActivity == {r \in Reports : usage[r].status # None}

Since == IF page.at > Month THEN page.at - Month ELSE 0

Answer(query) ==
  CASE query = "confirmed" -> SpendEver
    [] query = "confirmed30d" -> SpendByWorkspace(Since)
    [] query = "creditsEver" -> IF page.kind = "summary" THEN EarnedEver ELSE CreditsOf(0, page.at)
    [] query = "credits30d" -> CreditsOf(Since, page.at)
    [] query \in {"pending", "rejected"} -> UnconfirmedUsage(query)
    [] query = "unconfirmed" -> AgentActivity \ SpendEver
    [] query = "activity" -> AgentActivity

BugSummary == <<"pending", "rejected", "confirmed", "creditsEver", "credits30d">>
Summary == <<"confirmed", "creditsEver", "credits30d", "pending", "rejected">>
Standing == {"activity", "confirmed", "confirmed30d", "creditsEver", "credits30d", "unconfirmed"}

Load(kind) ==
  /\ page.kind = None /\ Left("load") /\ Spend("load")
  /\ page' = [kind |-> kind, at |-> now, answers |-> <<>>]
  /\ disturbed' = FALSE /\ behind' = {}
  /\ UNCHANGED <<usage, earned, dated, now>>

Asked == DOMAIN page.answers
NextQueries ==
  IF page.kind = "summary"
  THEN {Summary[i] : i \in {j \in DOMAIN Summary : Cardinality(Asked) = j - 1}}
  ELSE Standing \ Asked

Query(query) ==
  /\ page.kind # None /\ query \in NextQueries
  /\ page' = [page EXCEPT !.answers =
                [q \in Asked \cup {query} |-> IF q = query THEN Answer(query) ELSE @[q]]]
  /\ UNCHANGED <<usage, earned, dated, disturbed, behind, now, budget>>

Loaded == page.kind # None /\ NextQueries = {}

\* The answer is sent.
Send == /\ Loaded /\ page' = NoPage /\ disturbed' = FALSE /\ behind' = {}
        /\ UNCHANGED <<usage, earned, dated, now, budget>>

\* The process dies, and with it the recalls it was serving; the publisher,
\* which confirms reports, is another.
PageLost ==
  /\ page' = NoPage /\ disturbed' = FALSE /\ behind' = {}
  /\ dated' = [x \in Reports \cup Credits |-> IF x \in Credits THEN None ELSE dated[x]]
  /\ UNCHANGED <<usage, earned>>

RewardsPageNext ==
  \/ \E r \in Reports :
       \/ \E to \in {None, "pending", "rejected"} : ReportMoves(r, to)
       \/ Confirm(r) \/ IsConfirmed(r)
  \/ \E c \in Credits : Earn(c) \/ IsEarned(c)
  \/ \E kind \in {"summary", "standing"} : Load(kind)
  \/ page.kind # None /\ \E query \in NextQueries : Query(query)
  \/ Send

(***************************************************************************)
(* Properties.                                                             *)
(***************************************************************************)

\* When nothing was written while a page was loading it accounts for every row:
\* what agents reported is confirmed, waiting or refused, and nothing is two.
AccountsForAll == LET seen == page.answers IN
  Loaded /\ ~disturbed =>
    IF page.kind = "summary"
    THEN /\ seen["confirmed"] \cup seen["pending"] \cup seen["rejected"] = AgentActivity
         /\ seen["pending"] \cap seen["rejected"] = {}
    ELSE /\ seen["activity"] = seen["confirmed"] \cup seen["unconfirmed"]
         /\ seen["confirmed30d"] \subseteq seen["confirmed"]

\* Whatever is written meanwhile: no report is both paying and called waiting or
\* refused on a summary, and a month's credits are among the credits ever, but
\* for those whose statement was made before the page began and ran since.
NothingIsTwo == LET seen == page.answers IN
  Loaded =>
    /\ seen["credits30d"] \ behind \subseteq seen["creditsEver"]
    /\ page.kind = "summary" =>
         seen["confirmed"] \cap (seen["pending"] \cup seen["rejected"]) = {}

(***************************************************************************)
(* The reward pages add up: a quiet page accounts for every report, no     *)
(* verification between two of its queries makes a summary count money     *)
(* twice, and no credit given since it began is in one figure only         *)
(* (summary, standing).                                                    *)
(***************************************************************************)
PagesAddUp == AccountsForAll /\ NothingIsTwo

(***************************************************************************)
(* "Computed once and reused so the two figures below cannot be taken a    *)
(* millisecond apart and disagree" (rewards.controller.ts).  They can.     *)
(* The spend's window has no end, so a report verified between the two     *)
(* queries is among a month's spend and not among the spend ever; and a    *)
(* credit stamped before the page and written between the two queries is   *)
(* among a month's credits and not among the credits ever.                 *)
(***************************************************************************)
FiguresAgree == LET seen == page.answers IN
  Loaded =>
    /\ seen["credits30d"] \subseteq seen["creditsEver"]
    /\ page.kind = "standing" => seen["confirmed30d"] \subseteq seen["confirmed"]

=============================================================================
