------------------------- MODULE PublisherInvariant -------------------------
EXTENDS Publisher

(***************************************************************************)
(* The inductive invariant.  Rows are only written for closed periods, one *)
(* ahead of the cursor at most; a tick's locals agree with the stores it   *)
(* has read; from BuildTree on the target is the whole ledger; and every   *)
(* root sent or published is the ledger up to some period, each extending  *)
(* the ones before it in nonce order.                                      *)
(***************************************************************************)
Publishing == {"publish", "readRoot", "readIndex", "askPaused", "send",
               "wait", "readBack", "numbered", "latest", "remember"}

ClosedRows ==
  /\ now >= 2
  /\ \A r \in ledger : r.period < now
  /\ cursor # None => /\ cursor.last < now
                      /\ \A r \in ledger : r.period <= cursor.last + 1

SettlesTheNext ==
  pc \in InTick \ {"cursor"} =>
    /\ cursor \in Cursors
    /\ cursor.last < now
    /\ tick.next = cursor.last + 1
    /\ tick.upto < now
    /\ \A r \in ledger : r.period <= tick.next /\ r.period <= tick.upto

TickLocals ==
  /\ pc \in {"record", "advance"} => tick.next <= tick.upto
  /\ pc = "advance" => tick.next \in accepted
  /\ pc = "record" =>
       /\ \A r \in tick.owed : r.period = tick.next
       /\ \A r, t \in tick.owed : r.address = t.address => r = t
  /\ pc \in Publishing => tick.next > tick.upto /\ tick.target = ledger

BookUpTo(root) == \E p \in Periods : root = RowsThrough(ledger, p)
RootsExtend ==
  /\ \A q \in OwnRoots : BookUpTo(q)
  /\ \A i \in 1..Len(mempool) : BookUpTo(mempool[i])
  /\ \A q \in OwnRoots, i \in 1..Len(mempool) : q \subseteq mempool[i]
  /\ \A i, j \in 1..Len(mempool) : i <= j => mempool[i] \subseteq mempool[j]

IInv == TypeOK /\ ClosedRows /\ SettlesTheNext /\ TickLocals /\ RootsExtend

(***************************************************************************)
(* What is about to be recorded pays each earner once, like what is on     *)
(* file; earners are only added, and pay nobody until they are recorded.   *)
(***************************************************************************)
EarnersPaidOnce ==
  /\ NothingPaidTwice
  /\ pc = "record" => PaysOnce(tick.owed, earned[tick.next])

(***************************************************************************)
(* Without rehearsals: whatever is served, noted or in hand has been on    *)
(* chain.  The mined receipt a tick waits for is the receipt of the root   *)
(* it sent, because that root is the newest one in nonce order.            *)
(***************************************************************************)
NotedOnChain == (cursor # None /\ cursor.confirmed # None) =>
                  cursor.confirmed.root \in OwnRoots
InHandOnChain ==
  /\ pc \in {"readBack", "numbered", "latest", "remember"} =>
       tick.target \in OwnRoots
  /\ pc \in {"readRoot", "readIndex"} => tick.target # {}
  /\ (pc = "readIndex" /\ tick.seen = tick.target) => tick.target \in OwnRoots
  /\ (pc = "wait" /\ mempool # <<>>) =>
       receipt = "none" /\ mempool[Len(mempool)] = tick.target
  /\ (pc = "wait" /\ mempool = <<>> /\ receipt = "mined") =>
       tick.target \in OwnRoots
KnownOnChain ==
  pretended = None /\ ServedRootWasOnChain /\ NotedOnChain /\ InHandOnChain

(***************************************************************************)
(* Without other publishers as well: each root on chain extends the ones   *)
(* before it, and every number filed, noted or in hand is its root's.      *)
(***************************************************************************)
OnlyOurs == \A i \in DOMAIN history : history[i] # ForeignRoot
PublishedAs(i, root) == i \in DOMAIN history /\ history[i] = root

HistoryExtends ==
  \A i, j \in DOMAIN history : i <= j => history[i] \subseteq history[j]
NumberNoted == (cursor # None /\ cursor.confirmed # None) =>
                 PublishedAs(cursor.confirmed.index, cursor.confirmed.root)
NumberInHand == pc \in {"numbered", "latest", "remember"} =>
                  PublishedAs(tick.index, tick.target)
Numbered == OnlyOurs => /\ HistoryExtends /\ FiledUnderItsRoot
                        /\ NumberNoted /\ NumberInHand

=============================================================================
