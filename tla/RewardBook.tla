----------------------------- MODULE RewardBook -----------------------------
(***************************************************************************)
(* What the reward publisher promises, without saying how: a book in which *)
(* every period is settled at most once and never rewritten, and published *)
(* roots each of which is the whole book up to some period and repeats     *)
(* everything an earlier one said.                                         *)
(***************************************************************************)
EXTENDS Naturals

CONSTANTS Addresses, Periods

VARIABLES book, published

Row == [address : Addresses, period : Periods, amount : Nat \ {0}]

RowsOf(p)      == {r \in book : r.period = p}
RowsThrough(p) == {r \in book : r.period <= p}

\* One row for each address that is owed something for period p.
SettlementOf(p, rows) ==
  /\ rows \subseteq Row
  /\ \A r \in rows : r.period = p
  /\ \A r, s \in rows : r.address = s.address => r = s

Init == book = {} /\ published = {}

SettlePeriod ==
  \E p \in Periods :
    /\ RowsOf(p) = {}
    /\ SettlementOf(p, book' \ book)
    /\ book \subseteq book'
    /\ UNCHANGED published

PublishRoot ==
  \E p \in Periods :
    /\ published' = published \cup {RowsThrough(p)}
    /\ \A root \in published : root \subseteq RowsThrough(p)
    /\ UNCHANGED book

Next == SettlePeriod \/ PublishRoot

Spec == Init /\ [][Next]_<<book, published>>

=============================================================================
