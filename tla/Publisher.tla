----------------------------- MODULE Publisher -----------------------------
(***************************************************************************)
(* The reward publisher (apps/publisher): one process that, tick after     *)
(* tick, confirms usage, settles every closed period into the reward       *)
(* ledger, and publishes the cumulative root of that ledger on chain.      *)
(*                                                                         *)
(* Five stores outlive the process: the database (earned, wallet, ledger), *)
(* the cursor file, the proof files, and the chain with its mempool.  One  *)
(* step of the model touches one of them, so a crash can fall between any  *)
(* two.  A tick's own memory is `tick', and it is lost with the process.   *)
(*                                                                         *)
(* Two abstractions.  Time is the index of the open period.  A Merkle root *)
(* is the set of ledger rows it adds up: rows are only ever added and each *)
(* amount is positive, so one ledger read at two moments gives equal       *)
(* totals, hence equal roots, exactly when it gives equal rows.            *)
(*                                                                         *)
(* Definitions called Bug... are variants of the one that follows them, as *)
(* a plausible mistake in the code would make it; nothing here uses them.  *)
(***************************************************************************)
EXTENDS Naturals, FiniteSets, Sequences

CONSTANTS
  Workspaces,   \* what earns: a workspace earns at most one unit per period
  Addresses,    \* wallet addresses, which is what gets paid
  NoWallet,     \* the owner has no wallet connected
  None,         \* an absent file, note or value
  ForeignRoot,  \* a root somebody else published
  Modes,        \* subset of {"live", "dry"}: OFFCUT_PUBLISHER_DRY_RUN
  MaxPeriod,    \* bound: the last period the clock reaches
  Budgets       \* bound: how often each disturbance may happen, in each of
                \* the scenarios considered

Disturbances == {"crash", "fail", "rebind", "foreign", "pause", "loseCursor",
                 "late"}

ASSUME ConstantsAssumption ==
  /\ IsFiniteSet(Workspaces)
  /\ NoWallet \notin Addresses
  /\ Modes \subseteq {"live", "dry"} /\ Modes # {}
  /\ MaxPeriod \in Nat /\ MaxPeriod >= 2
  /\ ForeignRoot \notin SUBSET [address : Addresses, period : 0..MaxPeriod,
                                 amount : Nat \ {0}]
  /\ Budgets \subseteq [Disturbances -> Nat]

VARIABLES
  now,       \* index of the open period (periodIndexAt of the wall clock)
  earned,    \* earned[p]: workspaces with confirmed spend or a credit in p
  wallet,    \* wallet[w]: the owner's wallet when it is read
  ledger,    \* rows of reward_accruals
  cursor,    \* publisher.json: lastCompletedPeriod and the remembered root
  files,     \* files[i]: the root whose proofs are in root-i.json
  latest,    \* latest.json: root and index
  history,   \* history[i]: the root published under rootIndex i
  mempool,   \* roots this publisher sent that are not mined, in nonce order
  receipt,   \* outcome of the newest transaction this publisher sent
  paused,    \* OffcutRewards.paused()
  pc,        \* where the process is
  mode,      \* live, or a dry run
  pretended, \* dryRunClient's idea of the chain's root
  tick,      \* locals of the tick in progress
  accepted,  \* history variable: periods recordAccruals has accepted
  budget     \* disturbances left

vars == <<now, earned, wallet, ledger, cursor, files, latest, history,
          mempool, receipt, paused, pc, mode, pretended, tick, accepted,
          budget>>

Periods == 0..MaxPeriod
Row     == [address : Addresses, period : Periods, amount : Nat \ {0}]
Roots   == (SUBSET Row) \cup {ForeignRoot}

RowsOf(rows, p)      == {r \in rows : r.period = p}
RowsThrough(rows, p) == {r \in rows : r.period <= p}
LastClosed           == now - 1

(***************************************************************************)
(* accrueWindow, priced at one base unit per unit earned and below every   *)
(* ceiling: each address is owed what the workspaces naming it earned, and *)
(* an address owed nothing has no row.  A workspace without a wallet earns *)
(* nothing for this period.                                                *)
(***************************************************************************)
EarnersOf(a, p) == {w \in earned[p] : wallet[w] = a}
Owed(p) ==
  {[address |-> a, period |-> p, amount |-> Cardinality(EarnersOf(a, p))] :
     a \in {b \in Addresses : EarnersOf(b, p) # {}}}

NoTick == [next |-> 0, upto |-> 0, owed |-> {}, target |-> {},
           seen |-> {}, index |-> 0, sent |-> FALSE]

\* The process between BeginTick and the end of runOnce.
InTick == {"cursor", "settle", "record", "advance", "publish", "readRoot",
           "readIndex", "askPaused", "send", "wait", "readBack",
           "numbered", "latest", "remember"}

\* currentRoot().root and .index: the chain's, unless a dry run pretends.
\* Before the first publication merkleRoot() is zero, the root of no tree, as
\* {} is.
RootSeen  == IF pretended # None THEN pretended.root
             ELSE IF history = <<>> THEN {} ELSE history[Len(history)]
IndexSeen == IF pretended # None THEN pretended.index ELSE Len(history)

Init ==
  /\ now = 2
  /\ earned = [p \in Periods |-> {}]
  /\ wallet \in [Workspaces -> Addresses \cup {NoWallet}]
  /\ ledger = {}
  /\ cursor = None
  /\ files = <<>>
  /\ latest = None
  /\ history = <<>>
  /\ mempool = <<>>
  /\ receipt = "none"
  /\ paused = FALSE
  /\ pc = "down"
  /\ mode \in Modes
  /\ pretended = None
  /\ tick = NoTick
  /\ accepted = {}
  /\ budget \in Budgets

Spend(d) ==
  /\ budget[d] > 0
  /\ budget' = [budget EXCEPT ![d] = @ - 1]

(***************************************************************************)
(* The world around the process.                                           *)
(***************************************************************************)

\* A period boundary passes.
ClockAdvances ==
  /\ now < MaxPeriod
  /\ now' = now + 1
  /\ UNCHANGED <<earned, wallet, ledger, cursor, files, latest, history,
                 mempool, receipt, paused, pc, mode, pretended, tick,
                 accepted, budget>>

\* An agent is handed another agent's record: a credit in the open period.
CreditRetrieval(w) ==
  /\ now < MaxPeriod
  /\ w \notin earned[now]
  /\ earned' = [earned EXCEPT ![now] = @ \cup {w}]
  /\ UNCHANGED <<now, wallet, ledger, cursor, files, latest, history,
                 mempool, receipt, paused, pc, mode, pretended, tick,
                 accepted, budget>>

\* The same, stamped before a boundary and committed after it: the lag of
\* msUntilNextTick is there to make this rare.
LateCredit(w) ==
  /\ w \notin earned[LastClosed]
  /\ Spend("late")
  /\ earned' = [earned EXCEPT ![LastClosed] = @ \cup {w}]
  /\ UNCHANGED <<now, wallet, ledger, cursor, files, latest, history,
                 mempool, receipt, paused, pc, mode, pretended, tick,
                 accepted>>

\* An owner connects, replaces or disconnects a wallet.
ConnectWallet(w, a) ==
  /\ wallet[w] # a
  /\ Spend("rebind")
  /\ wallet' = [wallet EXCEPT ![w] = a]
  /\ UNCHANGED <<now, earned, ledger, cursor, files, latest, history,
                 mempool, receipt, paused, pc, mode, pretended, tick,
                 accepted>>

\* The oldest pending transaction is mined.  publishRoot is whenNotPaused,
\* so while the contract is paused the transaction reverts.
Mine ==
  /\ mempool # <<>>
  /\ mempool' = Tail(mempool)
  /\ history' = IF paused THEN history ELSE Append(history, Head(mempool))
  /\ receipt' = IF Len(mempool) > 1 THEN receipt
                ELSE IF paused THEN "reverted" ELSE "mined"
  /\ UNCHANGED <<now, earned, wallet, ledger, cursor, files, latest, paused,
                 pc, mode, pretended, tick, accepted, budget>>

\* Another publisher key, or a manual publication.
ForeignPublish ==
  /\ ~paused
  /\ Spend("foreign")
  /\ history' = Append(history, ForeignRoot)
  /\ UNCHANGED <<now, earned, wallet, ledger, cursor, files, latest, mempool,
                 receipt, paused, pc, mode, pretended, tick, accepted>>

Pause ==
  /\ ~paused
  /\ Spend("pause")
  /\ paused' = TRUE
  /\ UNCHANGED <<now, earned, wallet, ledger, cursor, files, latest, history,
                 mempool, receipt, pc, mode, pretended, tick, accepted>>

Unpause ==
  /\ paused
  /\ paused' = FALSE
  /\ UNCHANGED <<now, earned, wallet, ledger, cursor, files, latest, history,
                 mempool, receipt, pc, mode, pretended, tick, accepted,
                 budget>>

\* RECHECK_CHAIN_MS passes since the remembered root was seen.
RememberedGrowsStale ==
  /\ cursor # None /\ cursor.confirmed # None /\ cursor.confirmed.fresh
  /\ cursor' = [cursor EXCEPT !.confirmed.fresh = FALSE]
  /\ UNCHANGED <<now, earned, wallet, ledger, files, latest, history,
                 mempool, receipt, paused, pc, mode, pretended, tick,
                 accepted, budget>>

(***************************************************************************)
(* The process itself.                                                     *)
(***************************************************************************)

Start(m) ==
  /\ pc = "down"
  /\ pc' = "idle"
  /\ mode' = m
  /\ pretended' = None
  /\ UNCHANGED <<now, earned, wallet, ledger, cursor, files, latest, history,
                 mempool, receipt, paused, tick, accepted, budget>>

\* The process dies, or is stopped between ticks.
Crash ==
  /\ pc # "down"
  /\ Spend("crash")
  /\ pc' = "down"
  /\ pretended' = None
  /\ tick' = NoTick
  /\ UNCHANGED <<now, earned, wallet, ledger, cursor, files, latest, history,
                 mempool, receipt, paused, mode, accepted>>

\* publisher.json is deleted while the service is down.
LoseCursor ==
  /\ pc = "down" /\ cursor # None
  /\ Spend("loseCursor")
  /\ cursor' = None
  /\ UNCHANGED <<now, earned, wallet, ledger, files, latest, history,
                 mempool, receipt, paused, pc, mode, pretended, tick,
                 accepted>>

\* A tick ends and the next is scheduled.
EndTick == pc' = "idle" /\ tick' = NoTick

\* A database, RPC or file call throws: tick() logs it and the loop goes on.
\* For "wait" this is also the confirmation window running out, which leaves
\* the transaction in the mempool.
TickFails ==
  /\ pc \in InTick
  /\ Spend("fail")
  /\ EndTick
  /\ UNCHANGED <<now, earned, wallet, ledger, cursor, files, latest, history,
                 mempool, receipt, paused, mode, pretended, accepted>>

\* verifyUsage: reports the provider confirms are stamped with the present
\* instant.  Its own failures are swallowed, which is confirmed = {}.
BeginTick ==
  /\ pc = "idle"
  /\ \E confirmed \in SUBSET Workspaces :
       /\ now = MaxPeriod => confirmed = {}
       /\ earned' = [earned EXCEPT ![now] = @ \cup confirmed]
  /\ pc' = "cursor"
  /\ UNCHANGED <<now, wallet, ledger, cursor, files, latest, history,
                 mempool, receipt, paused, mode, pretended, tick, accepted,
                 budget>>

\* Read the cursor, or write a cold start at once, and list what is due.
BugColdStart == [last |-> LastClosed - 2, confirmed |-> None]
ColdStart == [last |-> LastClosed - 1, confirmed |-> None]
ReadCursor ==
  /\ pc = "cursor"
  /\ cursor' = IF cursor = None THEN ColdStart ELSE cursor
  /\ tick' = [tick EXCEPT !.next = cursor'.last + 1, !.upto = LastClosed]
  /\ pc' = "settle"
  /\ UNCHANGED <<now, earned, wallet, ledger, files, latest, history,
                 mempool, receipt, paused, mode, pretended, accepted, budget>>

\* accrueWindow for the next due period: a snapshot of what is owed.
BugSettle ==
  /\ pc = "settle"
  /\ tick.next <= tick.upto
  /\ cursor' = [cursor EXCEPT !.last = tick.next]
  /\ tick' = [tick EXCEPT !.owed = Owed(tick.next)]
  /\ pc' = "record"
  /\ UNCHANGED <<now, earned, wallet, ledger, files, latest, history,
                 mempool, receipt, paused, mode, pretended, accepted, budget>>
Settle ==
  /\ pc = "settle"
  /\ tick.next <= tick.upto
  /\ tick' = [tick EXCEPT !.owed = Owed(tick.next)]
  /\ pc' = "record"
  /\ UNCHANGED <<now, earned, wallet, ledger, cursor, files, latest, history,
                 mempool, receipt, paused, mode, pretended, accepted, budget>>

\* recordAccruals: one statement writes a period nobody wrote, or the rows
\* on file are exactly the ones owed.
BugAgreesWithLedger ==
  \A r \in RowsOf(ledger, tick.next), s \in tick.owed :
    r.address = s.address => r = s
AgreesWithLedger == RowsOf(ledger, tick.next) \in {{}, tick.owed}

Record ==
  /\ pc = "record"
  /\ AgreesWithLedger
  /\ ledger' = ledger \cup tick.owed
  /\ accepted' = accepted \cup {tick.next}
  /\ pc' = "advance"
  /\ UNCHANGED <<now, earned, wallet, cursor, files, latest, history,
                 mempool, receipt, paused, mode, pretended, tick, budget>>

\* recordAccruals throws: the period is on file with other figures.
RecordRefused ==
  /\ pc = "record"
  /\ ~AgreesWithLedger
  /\ EndTick
  /\ UNCHANGED <<now, earned, wallet, ledger, cursor, files, latest, history,
                 mempool, receipt, paused, mode, pretended, accepted, budget>>

\* Only now the cursor, keeping the remembered root.
AdvanceCursor ==
  /\ pc = "advance"
  /\ cursor' = [cursor EXCEPT !.last = tick.next]
  /\ tick' = [tick EXCEPT !.next = @ + 1, !.owed = {}]
  /\ pc' = "settle"
  /\ UNCHANGED <<now, earned, wallet, ledger, files, latest, history,
                 mempool, receipt, paused, mode, pretended, accepted, budget>>

\* Everything due is settled: the tree is built over the ledger through the
\* last settled period.
BugCumulativeTotals == RowsOf(ledger, tick.next - 1)
CumulativeTotals == RowsThrough(ledger, tick.next - 1)

BuildTree ==
  /\ pc = "settle"
  /\ tick.next > tick.upto
  /\ tick' = [tick EXCEPT !.target = CumulativeTotals]
  /\ pc' = "publish"
  /\ UNCHANGED <<now, earned, wallet, ledger, cursor, files, latest, history,
                 mempool, receipt, paused, mode, pretended, accepted, budget>>

Remembered ==
  /\ cursor.confirmed # None
  /\ cursor.confirmed.fresh
  /\ cursor.confirmed.root = tick.target

ProofsCurrent == latest # None /\ latest.root = tick.target

\* Nothing earned, or the remembered root says the chain already has it.
SkipPublish ==
  /\ pc = "publish"
  /\ \/ tick.target = {} /\ EndTick
     \/ tick.target # {} /\ Remembered /\ ProofsCurrent /\ EndTick
     \/ /\ tick.target # {} /\ Remembered /\ ~ProofsCurrent
        /\ tick' = [tick EXCEPT !.index = cursor.confirmed.index]
        /\ pc' = "numbered"
  /\ UNCHANGED <<now, earned, wallet, ledger, cursor, files, latest, history,
                 mempool, receipt, paused, mode, pretended, accepted, budget>>

AskChain ==
  /\ pc = "publish"
  /\ tick.target # {} /\ ~Remembered
  /\ pc' = "readRoot"
  /\ UNCHANGED <<now, earned, wallet, ledger, cursor, files, latest, history,
                 mempool, receipt, paused, mode, pretended, tick, accepted,
                 budget>>

\* readRoot is two RPC calls, one after the other.
ReadRoot ==
  /\ pc = "readRoot"
  /\ tick' = [tick EXCEPT !.seen = RootSeen]
  /\ pc' = "readIndex"
  /\ UNCHANGED <<now, earned, wallet, ledger, cursor, files, latest, history,
                 mempool, receipt, paused, mode, pretended, accepted, budget>>

ReadIndex ==
  /\ pc = "readIndex"
  /\ tick' = [tick EXCEPT !.index = IndexSeen]
  /\ pc' = IF tick.seen = tick.target THEN "remember" ELSE "askPaused"
  /\ UNCHANGED <<now, earned, wallet, ledger, cursor, files, latest, history,
                 mempool, receipt, paused, mode, pretended, accepted, budget>>

AskPaused ==
  /\ pc = "askPaused"
  /\ \/ paused /\ EndTick
     \/ ~paused /\ pc' = "send" /\ tick' = tick
  /\ UNCHANGED <<now, earned, wallet, ledger, cursor, files, latest, history,
                 mempool, receipt, paused, mode, pretended, accepted, budget>>

\* The transaction leaves.  If the owner paused in between, gas estimation
\* reverts and publish() reports a failure.
SendRoot ==
  /\ pc = "send" /\ mode = "live"
  /\ \/ /\ paused /\ EndTick
        /\ UNCHANGED <<mempool, receipt>>
     \/ /\ ~paused
        /\ mempool' = Append(mempool, tick.target)
        /\ receipt' = "none"
        /\ tick' = [tick EXCEPT !.sent = TRUE]
        /\ pc' = "wait"
  /\ UNCHANGED <<now, earned, wallet, ledger, cursor, files, latest, history,
                 paused, mode, pretended, accepted, budget>>

\* dryRunClient.publishRoot: remembered instead of sent.
PretendToSend ==
  /\ pc = "send" /\ mode = "dry"
  /\ pretended' = [root |-> tick.target, index |-> IndexSeen + 1]
  /\ tick' = [tick EXCEPT !.sent = TRUE, !.index = IndexSeen + 1]
  /\ pc' = "numbered"
  /\ UNCHANGED <<now, earned, wallet, ledger, cursor, files, latest, history,
                 mempool, receipt, paused, mode, accepted, budget>>

BugReceiveReceipt ==
  /\ pc = "wait"
  /\ pc' = "readBack" /\ tick' = tick
  /\ UNCHANGED <<now, earned, wallet, ledger, cursor, files, latest, history,
                 mempool, receipt, paused, mode, pretended, accepted, budget>>
ReceiveReceipt ==
  /\ pc = "wait"
  /\ \/ receipt = "mined" /\ pc' = "readBack" /\ tick' = tick
     \/ receipt = "reverted" /\ EndTick
  /\ UNCHANGED <<now, earned, wallet, ledger, cursor, files, latest, history,
                 mempool, receipt, paused, mode, pretended, accepted, budget>>

\* The index is read back; the root read with it is not looked at.
BugReadBack ==
  /\ pc = "readBack"
  /\ tick' = [tick EXCEPT !.index = @ + 1]
  /\ pc' = "numbered"
  /\ UNCHANGED <<now, earned, wallet, ledger, cursor, files, latest, history,
                 mempool, receipt, paused, mode, pretended, accepted, budget>>
ReadBack ==
  /\ pc = "readBack"
  /\ tick' = [tick EXCEPT !.index = Len(history)]
  /\ pc' = "numbered"
  /\ UNCHANGED <<now, earned, wallet, ledger, cursor, files, latest, history,
                 mempool, receipt, paused, mode, pretended, accepted, budget>>

\* proofs.write: the numbered file first, then the pointer.
WriteNumbered ==
  /\ pc = "numbered"
  /\ files' = [i \in DOMAIN files \cup {tick.index} |->
                 IF i = tick.index THEN tick.target ELSE files[i]]
  /\ pc' = "latest"
  /\ UNCHANGED <<now, earned, wallet, ledger, cursor, latest, history,
                 mempool, receipt, paused, mode, pretended, tick, accepted,
                 budget>>

WriteLatest ==
  /\ pc = "latest"
  /\ latest' = [root |-> tick.target, index |-> tick.index]
  /\ IF tick.sent THEN pc' = "remember" /\ tick' = tick ELSE EndTick
  /\ UNCHANGED <<now, earned, wallet, ledger, cursor, files, history,
                 mempool, receipt, paused, mode, pretended, accepted, budget>>

\* remember(): after the proofs when a root was sent, before them when the
\* chain already had it.
BugRemember ==
  /\ pc = "remember"
  /\ cursor' = [cursor EXCEPT !.confirmed =
                  [root |-> tick.target, index |-> tick.index, fresh |-> TRUE]]
  /\ EndTick
  /\ UNCHANGED <<now, earned, wallet, ledger, files, latest, history,
                 mempool, receipt, paused, mode, pretended, accepted, budget>>
Remember ==
  /\ pc = "remember"
  /\ cursor' = [cursor EXCEPT !.confirmed =
                  [root |-> tick.target, index |-> tick.index, fresh |-> TRUE]]
  /\ IF tick.sent \/ ProofsCurrent THEN EndTick
                                   ELSE pc' = "numbered" /\ tick' = tick
  /\ UNCHANGED <<now, earned, wallet, ledger, files, latest, history,
                 mempool, receipt, paused, mode, pretended, accepted, budget>>

Work ==
  \/ BeginTick \/ ReadCursor \/ Settle \/ Record \/ RecordRefused
  \/ AdvanceCursor \/ BuildTree \/ SkipPublish \/ AskChain \/ ReadRoot
  \/ ReadIndex \/ AskPaused \/ SendRoot \/ PretendToSend \/ ReceiveReceipt
  \/ ReadBack \/ WriteNumbered \/ WriteLatest \/ Remember

World ==
  \/ ClockAdvances
  \/ \E w \in Workspaces : CreditRetrieval(w) \/ LateCredit(w)
  \/ \E w \in Workspaces, a \in Addresses \cup {NoWallet} : ConnectWallet(w, a)
  \/ Mine \/ ForeignPublish \/ Pause \/ Unpause \/ RememberedGrowsStale

Next ==
  \/ World
  \/ \E m \in Modes : Start(m)
  \/ Crash \/ LoseCursor \/ TickFails
  \/ Work

Spec == Init /\ [][Next]_vars

(***************************************************************************)
(* Fairness: pm2 restarts the process, its loop always schedules the next  *)
(* tick and every await returns or throws (throws are counted by `budget');  *)
(* time passes; the chain mines what is pending.  Nothing is assumed of    *)
(* owners, agents, crashes or other publishers.                            *)
(***************************************************************************)
FairSpec ==
  /\ Spec
  /\ WF_vars(\E m \in Modes : Start(m))
  /\ WF_vars(Work)
  /\ WF_vars(Mine)
  /\ WF_vars(ClockAdvances)
  /\ WF_vars(RememberedGrowsStale)

(***************************************************************************)
(* Properties.                                                             *)
(***************************************************************************)

\* Every store and the process hold values the code could have put there.
Notes   == [root : SUBSET Row, index : Nat, fresh : BOOLEAN]
Cursors == [last : Periods, confirmed : {None} \cup Notes]
Indexed == [root : SUBSET Row, index : Nat]
Ticks   == [next : Nat, upto : Nat, owed : SUBSET Row, target : SUBSET Row,
            seen : Roots, index : Nat, sent : BOOLEAN]

\* An absent file is not a file.
ASSUME AbsentAssumption == None \notin Cursors

TypeOK ==
  /\ now \in Periods
  /\ earned \in [Periods -> SUBSET Workspaces]
  /\ wallet \in [Workspaces -> Addresses \cup {NoWallet}]
  /\ ledger \in SUBSET Row
  /\ cursor \in {None} \cup Cursors
  /\ DOMAIN files \subseteq Nat
  /\ \A i \in DOMAIN files : files[i] \in SUBSET Row
  /\ latest \in {None} \cup Indexed
  /\ history \in Seq(Roots)
  /\ mempool \in Seq(SUBSET Row)
  /\ receipt \in {"none", "mined", "reverted"}
  /\ paused \in BOOLEAN
  /\ pc \in {"down", "idle"} \cup InTick
  /\ mode \in Modes
  /\ pretended \in {None} \cup Indexed
  /\ tick \in Ticks
  /\ accepted \in SUBSET Periods
  /\ budget \in [Disturbances -> Nat]

OwnRoots == {history[i] : i \in DOMAIN history} \ {ForeignRoot}

(***************************************************************************)
(* The publisher keeps the promise of RewardBook: the ledger never pays a  *)
(* period twice and each published root extends every earlier one, across  *)
(* crashes, lost cursors, timed-out transactions that land later, wallets  *)
(* that change between a settlement and its replay, and other publishers   *)
(* (recordAccruals, runOnce, publish).                                     *)
(***************************************************************************)
Book == INSTANCE RewardBook WITH book <- ledger, published <- OwnRoots
KeepsTheBook == Book!Spec

(***************************************************************************)
(* The cursor moves one period at a time and only onto a period the ledger *)
(* has accepted: ahead of it would be a period silently never paid         *)
(* (settle in service.ts).  Writing a cold start is the one jump.          *)
(***************************************************************************)
CursorFollowsLedger ==
  [][(cursor # None /\ cursor' # None /\ cursor'.last # cursor.last) =>
       /\ cursor'.last = cursor.last + 1
       /\ cursor'.last \in accepted]_vars

(***************************************************************************)
(* What a workspace earned in a period is paid to one address at most,     *)
(* whichever wallets the owners connect between a settlement and a replay  *)
(* of it: the rows of a period count each earner once (recordAccruals).    *)
(***************************************************************************)
PaysOnce(rows, earners) ==
  \E payee \in [earners -> Addresses \cup {NoWallet}] :
    \A r \in rows :
      r.amount = Cardinality({w \in earners : payee[w] = r.address})
NothingPaidTwice == \A p \in Periods : PaysOnce(RowsOf(ledger, p), earned[p])

(***************************************************************************)
(* A numbered proof file holds proofs for the root the chain published     *)
(* under that number (publish and writeProofs; chain.ts reads the index    *)
(* back for exactly this).                                                 *)
(***************************************************************************)
FiledUnderItsRoot ==
  \A i \in DOMAIN files : i \in DOMAIN history /\ history[i] = files[i]

(***************************************************************************)
(* The same where no other key publishes: through timeouts, transactions   *)
(* mined after they were given up, crashes and repeated sends, the number  *)
(* that is read back is the number of the root that was sent.              *)
(***************************************************************************)
FiledUnderItsOwnRoot ==
  (\A i \in DOMAIN history : history[i] # ForeignRoot) => FiledUnderItsRoot

(***************************************************************************)
(* Proofs are only served for a root that has been on chain: a file        *)
(* written before the receipt would describe a root that may never exist   *)
(* (publish in service.ts).                                                *)
(***************************************************************************)
ServedRootWasOnChain == latest # None => latest.root \in OwnRoots

(***************************************************************************)
(* A live service takes a root as already published, and asks the chain    *)
(* nothing, only if the chain did hold it: the note in publisher.json is   *)
(* "the last root this service saw on chain" (state.ts, publish).          *)
(***************************************************************************)
SkipsOnlyWhatIsOnChain ==
  (mode = "live" /\ pc = "publish" /\ Remembered) => tick.target \in OwnRoots

(***************************************************************************)
(* What the service takes for published is on the chain: the proofs it     *)
(* serves and the root it does not publish again, through crashes, lost    *)
(* answers and a node that forgets (publish, writePublication, chain.ts).  *)
(***************************************************************************)
PublishedMeansOnChain == ServedRootWasOnChain /\ SkipsOnlyWhatIsOnChain

(***************************************************************************)
(* Once disturbances end, every closed period is settled and the chain and *)
(* the served proofs both say the whole ledger - unless a period waits for *)
(* a person because it is on file with figures that no longer reproduce,   *)
(* or the contract stays paused, or the service is a rehearsal (runOnce,   *)
(* publish).                                                               *)
(***************************************************************************)
CaughtUp ==
  /\ cursor # None /\ cursor.last = LastClosed
  /\ ledger # {} => /\ history # <<>> /\ history[Len(history)] = ledger
                     /\ latest # None /\ latest.root = ledger
WaitsForAPerson ==
  /\ cursor # None
  /\ \E p \in Periods : p > cursor.last /\ p <= LastClosed
                       /\ RowsOf(ledger, p) \notin {{}, Owed(p)}
EventuallyCaughtUp ==
  <>[](~paused /\ mode = "live") => <>[](CaughtUp \/ WaitsForAPerson)

=============================================================================
