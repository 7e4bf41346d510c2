---------------------------- MODULE AccrualLedger ----------------------------
(***************************************************************************)
(* The reward ledger (ledger.ts) and the schedulers that write to it.      *)
(*                                                                         *)
(* recordAccruals is two database calls: a read of every row whose window  *)
(* overlaps, and one insert of the whole period.  Each is a step here, and *)
(* the accrual that produced the figures is a step before them, so several *)
(* schedulers interleave between any two.  A window is half-open and need  *)
(* not be a period of today's length: the length is configuration.         *)
(*                                                                         *)
(* Definitions called Bug... are variants of the one that follows them, as *)
(* a plausible mistake in the code would make it; nothing here uses them.  *)
(***************************************************************************)
EXTENDS Naturals, Sequences

CONSTANTS
  Schedulers,  \* processes that settle periods
  Addresses,
  Windows,     \* windows a scheduler may ask for
  MaxAmount,   \* bound: the most a window owes an address
  MaxChanges,  \* bound: how often what a window owes is recomputed differently
  MaxCalls,    \* bound: how many calls are made
  None

ASSUME LedgerAssumption ==
  /\ Windows \subseteq [since : Nat, until : Nat]
  /\ \A w \in Windows : w.since < w.until
  /\ MaxAmount \in Nat /\ MaxChanges \in Nat /\ MaxCalls \in Nat

VARIABLES
  rows,     \* reward_accruals
  owed,     \* owed[w]: what accrueWindow returns for w when it is asked now
  call,     \* call[s]: the call s is in
  batches,  \* history variable: what each insert wrote, in order
  told,     \* history variable: the answers callers were given
  raced,    \* history variable: two calls in progress at one moment asked
            \* for overlapping windows with different figures
  changes, calls

vars == <<rows, owed, call, batches, told, raced, changes, calls>>

Figures == [Addresses -> 0..MaxAmount]
Row == [address : Addresses, window : Windows, amount : Nat \ {0}]

Overlaps(v, w) == v.since < w.until /\ v.until > w.since

\* An address owed nothing is dropped, not written as zero.
BugPayable(w, figures) ==
  {[address |-> a, window |-> w, amount |-> figures[a]] : a \in Addresses}
Payable(w, figures) ==
  {[address |-> a, window |-> w, amount |-> figures[a]] :
     a \in {b \in Addresses : figures[b] > 0}}

Init ==
  /\ rows = {}
  /\ owed \in [Windows -> Figures]
  /\ call = [s \in Schedulers |-> None]
  /\ batches = <<>>
  /\ told = {}
  /\ raced = FALSE
  /\ changes = 0 /\ calls = 0

\* A wallet connected, a report confirmed late, a workspace deleted: the
\* accrual of a closed window is not what it was.
OwedChanges(w, figures) ==
  /\ changes < MaxChanges
  /\ figures # owed[w]
  /\ owed' = [owed EXCEPT ![w] = figures]
  /\ changes' = changes + 1
  /\ UNCHANGED <<rows, call, batches, told, raced, calls>>

\* accrueWindow, and recordAccruals up to its read.
Races(s, w, payable) ==
  \E t \in Schedulers \ {s} :
    /\ call[t] # None
    /\ Overlaps(call[t].window, w)
    /\ call[t].payable # payable
Accrue(s, w) ==
  /\ call[s] = None
  /\ calls < MaxCalls
  /\ calls' = calls + 1
  /\ call' = [call EXCEPT ![s] = [at |-> "find", window |-> w,
                                  payable |-> Payable(w, owed[w])]]
  /\ raced' = (raced \/ Races(s, w, Payable(w, owed[w])))
  /\ UNCHANGED <<rows, owed, batches, told, changes>>

In(s, at) == call[s] # None /\ call[s].at = at
Return(s) == call' = [call EXCEPT ![s] = None]
Tell(s) ==
  told' = told \cup {[window |-> call[s].window, payable |-> call[s].payable]}

BugOverlapping(w) == {r \in rows : r.window = w}
Overlapping(w) == {r \in rows : Overlaps(r.window, w)}

\* The window is on file with exactly these figures.  Rows of one window
\* differ in their address, so comparing by address is comparing the sets.
BugSettledAs(w, payable) == Overlapping(w) # {} /\ payable \subseteq Overlapping(w)
SettledAs(w, payable) == Overlapping(w) # {} /\ payable = Overlapping(w)

FindNothing(s) ==
  /\ In(s, "find")
  /\ Overlapping(call[s].window) = {}
  /\ call[s].payable # {}
  /\ call' = [call EXCEPT ![s].at = "create"]
  /\ UNCHANGED <<rows, owed, batches, told, raced, changes, calls>>

\* Nothing on file and nothing to write: no trace of the window is left.
FindNothingOwed(s) ==
  /\ In(s, "find")
  /\ Overlapping(call[s].window) = {}
  /\ call[s].payable = {}
  /\ Tell(s) /\ Return(s)
  /\ UNCHANGED <<rows, owed, batches, raced, changes, calls>>

FindSettled(s) ==
  /\ In(s, "find")
  /\ SettledAs(call[s].window, call[s].payable)
  /\ Tell(s) /\ Return(s)
  /\ UNCHANGED <<rows, owed, batches, raced, changes, calls>>

\* Another window overlaps, or the figures differ: recordAccruals throws.
FindConflict(s) ==
  /\ In(s, "find")
  /\ Overlapping(call[s].window) # {}
  /\ ~SettledAs(call[s].window, call[s].payable)
  /\ Return(s)
  /\ UNCHANGED <<rows, owed, batches, told, raced, changes, calls>>

\* The unique key on (address, periodStart).
BugKeysFree(payable) == payable # {}
KeysFree(payable) ==
  \A p \in payable, r \in rows :
    ~(r.address = p.address /\ r.window.since = p.window.since)

\* The caller hears of it, unless the answer is lost on the way.
CreateMany(s) ==
  /\ In(s, "create")
  /\ KeysFree(call[s].payable)
  /\ rows' = rows \cup call[s].payable
  /\ batches' = Append(batches, [window |-> call[s].window,
                                 payable |-> call[s].payable])
  /\ Tell(s) \/ told' = told
  /\ Return(s)
  /\ UNCHANGED <<owed, raced, changes, calls>>

\* One key is taken: the statement writes nothing and throws.
CreateRefused(s) ==
  /\ In(s, "create")
  /\ ~KeysFree(call[s].payable)
  /\ Return(s)
  /\ UNCHANGED <<rows, owed, batches, told, raced, changes, calls>>

\* The scheduler dies before its next database call, or that call fails.
Die(s) ==
  /\ call[s] # None
  /\ Return(s)
  /\ UNCHANGED <<rows, owed, batches, told, raced, changes, calls>>

Next ==
  \/ \E w \in Windows, figures \in Figures : OwedChanges(w, figures)
  \/ \E s \in Schedulers :
       \/ \E w \in Windows : Accrue(s, w)
       \/ FindNothing(s) \/ FindNothingOwed(s) \/ FindSettled(s)
       \/ FindConflict(s)
       \/ CreateMany(s) \/ CreateRefused(s) \/ Die(s)

Spec == Init /\ [][Next]_vars

(***************************************************************************)
(* Properties.                                                             *)
(***************************************************************************)

\* What the table, the calls and the answers hold (recordAccruals).
Settlement == [window : Windows, payable : SUBSET Row]
Calls == [at : {"find", "create"}, window : Windows, payable : SUBSET Row]
TypeOK ==
  /\ rows \in SUBSET Row
  /\ owed \in [Windows -> Figures]
  /\ call \in [Schedulers -> {None} \cup Calls]
  /\ batches \in Seq(Settlement)
  /\ told \in SUBSET Settlement
  /\ raced \in BOOLEAN
  /\ changes \in 0..MaxChanges /\ calls \in 0..MaxCalls

(***************************************************************************)
(* No instant is paid for twice: two inserts never cover overlapping       *)
(* windows, "even if two schedulers fire at once" (the comment that opens  *)
(* ledger.ts; recordAccruals).                                             *)
(***************************************************************************)
NoInstantPaidTwice ==
  \A i, j \in DOMAIN batches :
    i # j => ~Overlaps(batches[i].window, batches[j].window)

(***************************************************************************)
(* The same unless calls raced: overlapping windows are refused by what is *)
(* on file, and schedulers that settle one window with one set of figures  *)
(* at the same time are kept apart by the unique key (recordAccruals).     *)
(***************************************************************************)
OnlyARacePaysTwice == raced \/ NoInstantPaidTwice

(***************************************************************************)
(* Figures a caller was told are in the ledger are what the ledger says of *)
(* that window from then on, to the row, unless calls raced: nothing is    *)
(* missing and nobody is added (recordAccruals).  A window settled with    *)
(* nothing leaves no row and makes no promise.                             *)
(***************************************************************************)
AcceptedFiguresStand ==
  raced \/ \A t \in told :
    t.payable # {} => {r \in rows : r.window = t.window} = t.payable

=============================================================================
