# Offcut: TLA+ models and proofs

Offcut is a shared memory for agents. Agents of a workspace write records,
recall what others wrote, and resolve what contradicts. Spend that a model
provider confirms, and records that other agents use, earn their owner a
reward: a publisher process settles each closed period into a ledger, and puts
a cumulative Merkle root of that ledger on chain, where anybody can claim
against it.

This directory holds TLA+ modules for the parts of that system in which order,
failure or concurrency matters, the TLC configurations that check them on small
instances, and proofs that TLAPS checks for every value of the constants.

    tlc -workers 2 -config MCPublisher_faults.cfg MCPublisher.tla   # a run
    tlapm PublisherProofs.tla                                       # a proof

`PROJECT.json` lists the components, the runs, the mutants, the source lines
each definition stands for, the hazards and the theorems.


## 1. The system

| part | state it keeps | operations | talks to |
|---|---|---|---|
| publisher (`apps/publisher`) | `publisher.json` (cursor, remembered root), `root-<i>.json`, `latest.json`; in memory: one tick | `runOnce`: verify usage, settle every closed period, build the tree, publish, write proofs, remember | database, chain, proof files, provider |
| distributor contract (`OffcutRewards.sol`) | root and index, claimed per account, token, roles, pause | `publishRoot`, `claim`, `withdraw`, `setToken`, `setPublisher`, pause, two-step ownership | the ERC-20 |
| reward ledger (`rewards/ledger.ts`) | `reward_accruals` | `recordAccruals`, `cumulativeTotals` | database |
| accrual (`rewards/accrual.ts`) | none | `accrueWindow`: spend and credits of a window into amounts per address | usage, credits, wallets |
| Merkle tree (`rewards/merkle.ts`) | none | `buildTree` with its proofs | |
| usage (`core/usage.ts`, `usage-credentials.ts`) | `model_usage`; the workspace's `usageKeyCipher` | `reportUsage`, `verifyPendingUsage`, `setUsageCredential`, `clearUsageCredential` | provider |
| credits (`core/credits.ts`) | `reward_credits` | `creditRetrieval` | recall |
| memory store (`core/memory.ts`, `store.ts`) | `memory_records` (versions), `record_links`, `search_docs`, `idempotency_entries`, `audit_events` | add, import, recall, forget, correct | cache, conflicts, summaries |
| conflicts (`core/merge.ts`) | `conflicts`, `conflict_sides` | `detectConflicts`, `merge`, `resolve` | memory store |
| context cache (`core/context.ts`) | `recall_cache_entries` | `recall`, `invalidateCache` | memory store |
| summaries (`core/summaries.ts`) | `merged_blocks`, `merged_block_sources` | `summarize` | model provider, memory store |
| backup (`core/backup.ts`, `core/ledger.ts`) | dump files, `deletion_ledger` and the file beside it | `createBackup`, `restoreBackup`, `appendDeletions` | database |
| accounts (`core/admin.ts`, `siwe-nonces.ts`, `access.ts`) | `users`, `workspaces`, `agents`, `spent_siwe_nonces` | sign in by email or wallet, link a wallet, create a workspace, mint, rotate or revoke an agent's key, `authorize` | HTTP API |
| rate limiter (`apps/api/common`) | one table of counters in memory | `hit`, sweep, eviction | HTTP API |
| live feed (`core/memory.ts`, `memory.controller.ts`) | `audit_events`; per stream a cursor | `eventsCursor`, `eventsSince`, resuming a stream | console |
| reward pages (`rewards.controller.ts`) | none | `summary`, `standing`: several queries each | usage, credits |
| bootstrap (`core/bootstrap.ts`, `db.ts`) | the store's version stamp, its columns and tables | `ensureSchema` before the first query of a process | SQLite |
| HTTP API, MCP server, SDK | a connection's principal | translate requests into calls of the core | core |

How they interact. Agents reach the core through the API or the MCP server.
Every call of the core is one or more database calls. `add`, `import`, `merge`,
`resolve` and `forget` each run in one interactive transaction; `reportUsage`,
`verifyPendingUsage`, `setUsageCredential`, `recordAccruals` and
`creditRetrieval` do not, so what one of them read may have changed when it
writes. The publisher is a second process on the same database, its cursor and
proof files are plain files, and the chain is a third party that answers late,
or not at all.

What is hard, part by part, and what makes each correct:

* **Publisher.** Five stores are written one after another and a crash may fall
  between any two; a transaction may be mined after its wait ran out; other keys
  may publish. Correct: no period is paid twice or skipped, every root extends
  those before it, proofs are served only for a root that was on chain and under
  that root's number, and after disturbances stop the service catches up.
* **Contract.** The token is somebody else's code: it may take a cut and may
  call back. Correct: what is on the books is what was delivered, nobody gets
  more than a root promised, a skipped root loses nothing.
* **Ledger.** Read, decide, insert, with several schedulers. Correct: no instant
  is paid for twice, and an answer given stays true.
* **Usage.** Two workspaces may claim one request; the key that settles it may
  be linked, replaced or revoked between any two calls. Correct: only the
  payer is paid, once; a report is not lost; what can be confirmed is.
* **Credits.** Recalls overlap. Correct: a record earns once; in the end it does.
* **Memory store.** A repeated request, two corrections at once, a deletion
  against everything derived from the record. Correct: one version is current,
  a request runs once, and a deleted text is nowhere.
* **Conflicts.** Sides come and go after a resolution. Correct: a resolution
  does not outlive what it chose between.
* **Summaries, backup.** A network call, or a table-by-table dump, between a
  read and a write. Correct: neither brings back what was deleted.
* **Accounts, agents.** Two tabs, one nonce; a wallet that signs in while it is
  being typed in as somebody's payout address; a key revoked under an open
  connection. Correct: one attempt a nonce, one account an address, nobody shut
  out, and no operation asked for after its agent was revoked gets through.
* **Rate limiter.** Two counters stand for a sliding window, and callers are
  forgotten to save memory. Correct: no window holds more than the limit allows
  it, what is swept no longer counted, and the wait told is the wait.
* **Feed, pages.** A stream is cut off anywhere; a page is several queries.
  Correct: no entry twice and none left out; the figures of a page add up.
* **Bootstrap.** Several processes bring one older file up to date, with one
  connection each, and die halfway. Correct: no query meets half a schema.
* **Pricing, tree, recall.** Functions, but of many inputs: pools, caps and
  rounding; odd nodes; a limit too small for what contradicts.


## 2. The modules

| module | stands for | kind |
|---|---|---|
| `RewardBook` | what the publisher promises: a book of settled periods and of roots | abstract specification |
| `Publisher` | the service loop, its cursor, proof files and chain client, over the ledger and the chain | behaviour |
| `PublisherInvariant`, `PublisherProofs` | its inductive invariant; type correctness, cursor, refinement of `RewardBook` | proof |
| `OffcutRewards`, `OffcutRewardsProofs` | the contract and its callers | behaviour, proof |
| `AccrualLedger` | `recordAccruals` under several schedulers | behaviour |
| `AccrualPricing` | `accrueWindow`, the configuration, the queries of what was earned | functions |
| `Merkle` | `buildTree`, its proofs and the contract's check | functions |
| `Accruals`, `AccrualLedgerProofs` | the three together; what is proved of each | composition, proof |
| `UsageReports`, `UsageReportsProofs` | reports, linked keys, verification runs | behaviour, proof |
| `RetrievalCredits` | credits for used memory | behaviour |
| `TaskContext` | what a recall answers | functions |
| `Recalls`, `RetrievalCreditsProofs` | the two together; what is proved of each | composition, proof |
| `MemoryStore`, `MemoryStoreProofs` | records, versions, the index, derived blocks, the conflict over a fact | behaviour, proof |
| `Deletions` | what a deletion leaves behind: blocks, stored answers, the line in the ledger file | behaviour |
| `Summaries` (extends `Deletions`) | `summarize` around the model's answer | behaviour |
| `Backups` (extends `Summaries`) | the dump, the restore, the replay | behaviour |
| `Retention` (extends `Backups`), `RetentionProofs` | the three over one store | composition, proof |
| `ApiProcess` | the clock and the bounds of the API process | shared variables |
| `RateLimit` | the limiter | behaviour |
| `Accounts` | the doors to an account, nonces, payout wallets | behaviour |
| `Access` | workspaces, agents, keys, and the gate of an operation | behaviour |
| `Feed` | the audit trail as a stream | behaviour |
| `Bootstrap` | opening a store from several processes | behaviour |
| `RewardsPage` | the console's reward pages, query by query | behaviour |
| `Service`, `ServiceProofs` | the six parts over `ApiProcess`, which die together | composition, proof |
| `MC...` | instances of the above for TLC | instances |

`Publisher` composes the ledger, the chain and the files as one publisher sees
them; `AccrualLedger` opens up its step `Record` (two database calls, several
schedulers, windows of any length), `AccrualPricing` its step `Settle` (what a
period owes), `Merkle` its step `BuildTree`, and `OffcutRewards` its step `Mine`
(what a published root then means to those who claim). `UsageReports` and
`RetrievalCredits` are where `Publisher`'s `earned` comes from. `Retention`
opens up the deletion of `MemoryStore`: what the transaction does is there, what
happens around it here. `Service` is what one API process has in its memory,
and the file it opens; the parts share the clock and the death of the process,
and nothing else, as in the code.

Plan. The publisher, the contract, the ledger, usage, credits and the memory
store came first, since what they get wrong is paid or lost for good; then what
runs beside the store (summaries, dumps), then the API process, then the
functions. What is left, in this order:

1. The idempotency table for every operation that takes a key (`Deletions` has
   it for `forget`), and links as rows of their own.
2. The body of a deterministic block, which quotes a whole conflict.
3. An abstract specification of the memory store that `MemoryStore` implements.


## 3. How the models correspond to the code

**Publisher.** One action touches one store. `BeginTick` to `ReadCursor` is the
head of `runOnce`; `Settle`, `Record`, `AdvanceCursor` the loop of `settle`
(accrue, `recordAccruals`, write the cursor); `BuildTree` reads
`cumulativeTotals`; `SkipPublish` to `Remember` is `publish`, with the two RPC
calls of `readRoot` apart, the receipt apart from the sending, the read-back of
the index, and `proofs.write` as two files. `TickFails` is any of these calls
throwing. `Crash` may come after each. `Mine`, `ForeignPublish`, `Pause` are the
chain; `ConnectWallet`, `CreditRetrieval`, `LateCredit` the users. Time is the
index of the open period. A Merkle root is the set of ledger rows it adds up:
rows are only added and amounts are positive, so equal totals are equal sets.
Each workspace earns at most one unit a period, below every ceiling. A row is an
address's and a period's, and the window itself is in `AccrualLedger`.

**Contract.** A root is the tree it commits to, a function from accounts to
amounts; `Verifies` says that a proof exists. `frames` is the call stack of one
transaction: `BeginClaim` is `claim` up to the transfer, `MoveTokens` the
token's work, and `FinishClaim` or `RevertClaim` what follows; between them the
token may begin another claim. A reverted claim restores what it had written.
`received` is what the accounts really have, which the contract cannot see.

**Ledger.** `Accrue` is `accrueWindow` and the start of `recordAccruals`, the
four `Find...` actions its read and the branches after it, `CreateMany` and
`CreateRefused` the insert under the unique key, `Die` a crash or a failed call.
`told` is what callers were answered, `raced` that two calls in progress asked
for overlapping windows with different figures.

**Usage.** `Report` and `ReadKeys` are the two reads of `reportUsage`, `Write`
its transaction (deletes by row id, then the insert), `Collide` the rollback on
a unique violation, `WriteOne` the ids one at a time. `LinkKey` and
`ResetRejected` are the two writes of `setUsageCredential`. `BeginRun` lists a
batch, `ResolveKey` reads a workspace's key once per run, and `Settle`,
`SettleMissing`, `Defer` are the provider's answer written by row id, that write
finding no row, and no answer. The oldest rows go first: `older` keeps the order
of `reportedAt` without clocks. An owner makes one link call at a time.

**Credits.** `Recall` picks a result, `ReadExisting` reads which credits are
there, `CreateMany` inserts the rest in one statement, whose unique violation
is swallowed.

**Memory store.** One step is one transaction: the default database has one
connection, and each of `add`, `import`, `merge`, `resolve` and `forget` runs in
an interactive transaction. `Add` and `Correct` are the two halves of
`MemoryService.add`, `Import` any number of valid entries, `Merge` a call of
`runMerge` for a topic, some records or everything, `ForgetRecord` and
`ForgetTopic` the two ways to call `forget`. Each ends as the code does: `Detect`
looks at the facts in the caller's view, `Stale` marks the blocks that cite what
changed, `Without` and `Retire` remove the blocks and conflicts a deletion leaves
without ground. Facts do not meet, so one stands for all, and each audience has
a conflict of its own over it. A row is a version; a deleted one is an id in
`gone`, which every query leaves out. Links only move a record to another topic
for a merge (`Filings` takes any) and name further records whose blocks grow
stale. `judged` is a history variable: whether the last look at an audience's
fact had all its records in view and nothing changed since.

Values of a fact are compared in two ways. A look (`detectConflicts`) folds
compatibility forms, case and outer spaces (`normalizeFactValue`), a deletion only
case and outer spaces (`memory.ts:871`). A model value is what a deletion tells
apart; `Sense` maps it to what a look takes it for, so `Judge` and `Uncovered`
compare senses (`Disagree`) and `Retire` compares values (`Differ`). `Resolve` takes
the chosen side's version or one the caller names (`Named`, `chosenVersion`), which
the code does not check; `was` keeps the version the side had, as history.

**Pricing, tree, recall.** These have no state: an operator gives the answer for
one input, and a property says what holds for all inputs of the bounds; the run
of the module they belong to looks at it once, in one of its first states.
`AccrualPricing` follows `accrueWindow` layer by layer (`PriceLayer`): the pool a
period has, units per address, the rate or the pool shared out, the cap, floor
division. `Merkle` keeps a hash as what was hashed, so equal hashes are equal
contents; the levels and the way up are recursive functions over the depth, and
an entry's place is the number of accounts before it. In `TaskContext` the score
of a row is given; what is modelled is who may read it, what is taken, what is
collapsed into one item, which conflicts come first, and where the limit cuts. An
item's place is the number of items with a better row ahead of it.

**Retention.** In `Deletions` a text is a record and a number; `Write` and `Forget`
are transactions of `MemoryStore` seen from outside, `Mirror` and `MirrorFails` the
line after the commit, `Repeat` a repeated request answered from the idempotency
table. `Summaries` takes `summarize` apart at each await: gather, ask, check
again, find the block, store it, clear its sources, write them. `Backups` dumps a
table a step, restores in the order of `Tables`, replays the lines of the file
that are newer than the snapshot, and a restore runs with the service stopped.

**Accounts.** One action is one statement: `SpendNonce` writes the row that makes a
nonce spent, `SweepAndVerify` is the sweep and the signature, and `FindProven` to
`OpenByWallet` are the reads and writes of `findOrCreateUserByWallet`, three times
at most when a unique key refuses. `reached` is a history variable of which
address was let into which account, `opened` of the address an account was opened
with, `late` of nonces whose request wrote its row after its cookie had run out.
Unique keys (nonce, email, proven address) are the refusals of these writes.

**Access.** A connection keeps a principal; `FindWorkspace`, `CheckAgent` and
`Act` are the two reads of `authorize` and the write after it; the owner's tabs
count agents in one statement and mint in another. `cut` is a history variable:
the agent was revoked when this operation was asked for.

**Rate limiter.** `Hit` is the whole of `hit`, which has no await: sweep or evict
when due, roll the window, decide, count. Time goes in whole seconds, as
`Retry-After` does.

**Feed.** `Stamp` and `IsFiled` are apart: an entry gets its time before it is on
file. `Poll` reads a page after the cursor, `Receive` is the client's end, `Drop`
and `Resume` a lost connection and the cursor sent back, with or without its id. A
page is stated as what the query says of it, the first entries past the cursor in
order, rather than computed.

**Bootstrap.** `opening[p]` walks through `ensureSchema`: the stamp, the columns
that are missing, one `ALTER` each, one transaction for the rest, retries on
`SQLITE_BUSY`; `holds[p]` is the one connection of a process.

**Pages.** `Query` is one query of a page: what it counts or adds up is the set of
rows it saw. `summary` asks in the order of the code, `standing` in any order. The
time a window goes by is taken when a statement is made, its row is seen when it
has run: `Earn` and `Confirm` are the one (`createdAt`, `verifiedAt`), `IsEarned` and
`IsConfirmed` the other, `dated` what lies between, and `behind` the credits whose
statement was made before the page began and ran since.

Definitions named `Bug...` stand before the definition they vary and are used by
nothing: each is a plausible slip in that piece of code, and the run named with
it in `PROJECT.json` finds it.


## 4. The runs

Each takes at most a few minutes with two workers.

| run | instance | checks |
|---|---|---|
| `publisher_faults` | 1 workspace, 2 addresses, 5 periods; three scenarios (our failures; the chain's; a lost cursor with late credits) | `NothingPaidTwice`; files under their root's number; what is served or taken as published was on chain; refinement of `RewardBook`; the cursor |
| `publisher_live` | 4 periods, one of each disturbance, live or rehearsal | `EventuallyCaughtUp` |
| `rewards_books` | 2 accounts, 2 keys, amounts to 2, 3 roots, 2 nested claims | books against deliveries, promises, everybody paid |
| `ledger_books` | 2 schedulers, 2 addresses, overlapping windows, 3 calls; pricing of 3 workspaces and 2 addresses; trees of 5 entries | what is paid twice or rewritten, and when; pools, caps and rates; proofs |
| `usage_races` | 2 workspaces, 2 requests both claimed, key changes | payer, no lost report, confirmed rows stand |
| `usage_live` | contested or separate requests, batch of 1, one link each, outage, revocation | `ConfirmedWhileKeysWork` |
| `credits_once` | 3 agents, 3 records, one failure; recalls over stores of 4 rows | `EarnsOnce`, `EventuallyCredited`, `RecallTellsTheTruth` |
| `memory_books` | the owner and an agent, 3 versions, 2 topics; in the workspace 3 values, one of them in two spellings, and 1 in private | search, fresh blocks, reach of a deletion, conflicts and decisions |
| `memory_vanishes` | the same | finding: `OpenConflictsStand` |
| `retention_stands` | 2 records, 3 texts, 2 summaries, 2 snapshots; seven scenarios | `DeletionStands`, `SummariesTellTheTruth`, `WholeSnapshotsLoad` |
| `retention_comesback` | a snapshot and a deletion whose process dies | finding: `NothingAcknowledgedComesBack` |
| `service_doors` | 3 callers, 2 addresses, 3 nonces; 2 workspaces, 2 connections, 3 agents; 3 callers of a limiter that tracks 2; 3 entries in pages of 2; 2 processes, 2 columns; 2 reports; sixteen scenarios | doors, gate, limiter, feed, opening, pages |

**Why the bounds are enough.** The publisher's state between ticks is a cursor
and a set of rows; each tick handles a period at a time, so three closed periods
(one settled, one being replayed, one new) give every relation between cursor,
ledger and chain, and two addresses are needed for a wallet that moves. One
disturbance of each kind per scenario, in the combinations that act on one
another, covers each pair of a failure and its retry. Two transactions can be
pending together, which is what a timed-out wait needs. For the contract two
nested claims by two accounts give self and cross nesting; three roots give a
root that was skipped between two claimed ones. For the ledger and usage two
actors meet on one row, and no code path looks at a third; `usage_live` has a
batch of one row with two rows waiting, the smallest case in which a row can be
kept out. Each workspace links one key there, so no rejection is ever taken back;
with `MaxLinks = 2` and `MaxFailures = 0` TLC found the same property to hold over
270,178 states, and with a failure beside the second link the instance is too large
for a run. Bounds on failures (`MaxFailures`, `Budgets`, `MaxLinks`, `MaxChanges`)
are guards of the disturbing actions only, never of the code's; in `UsageReports`
one budget covers outages, dead processes and keys cleared or revoked. For the
memory store three versions are two sides of a conflict and the evidence that
comes after the decision, or a record, its correction and another record beside
it; three values are what it takes for a value no decision covered, and a second
spelling of one for what a look and a deletion tell apart differently; two topics
make a look at part of the records. Private records have one value in the run:
who sees, corrects, merges and deletes them is checked, and so is a record that
changes its audience, but a private conflict is left to the theorems, which hold
for every set of contents; it opens and closes by the operators the workspace's
does. `MaxRows` and `MaxImport` bound what is written, never how often it is
merged, decided or deleted.

Pricing needs three workspaces, two of which may share a payee beside a third
that competes with them; ceilings, rates and caps are chosen so that a pool is
contested and not, a cap bites and not, and a division leaves a rest; a day of
four minutes divides by two and not by three. Five entries are the first tree
with an odd node on two levels. A recall over four rows, three of them considered,
leaves one out; the limits cut between items, inside the conflicts, and nowhere.

`Retention` and `Service` share `Budgets`: a scenario says how often each thing may
happen, so that the parts that meet are explored together and those that do not
share any state are not multiplied with one another. What the parts of `Service`
have in common is the process, and the scenarios with `crash` are those where its
death can matter. Two records are one that is deleted and one that is not; three
texts a record, its correction and one more; two snapshots an older and a newer,
of which one may be dropped. Three tabs are two that race and one that takes over
the address; two nonces one that is replayed and one that is swept. Three callers
of a limiter with room for two is one eviction; seven hits within nine seconds
fill windows of four seconds twice. Three entries and pages of two are a full and a
short page.

`ledger_books`, `retention_*` and `service_doors` do not check deadlock: when the
calls and budgets are used up nothing more happens. Symmetry is used only in runs
without liveness properties, over values the specification treats alike.

**Fairness.** `Publisher`: pm2 restarts the process, the loop always arms the next
tick and every await returns or throws, the chain mines, time passes, and the
remembered root grows old; nothing is assumed of owners, agents, other keys or
crashes. A failed call is counted, not fair. `OffcutRewards`: somebody keeps
claiming and a transaction runs to its end. `UsageReports`: the publisher's runs go
on and calls return; strong fairness for the report of an id the agent was not told
is counted, since a caller told `duplicate` "never sends the id again"
(`usage.ts:52-56`) and one that got no answer has nothing else to go by; strong
because a call in progress disables the next one. `RetrievalCredits`: recalls return, and records go on being
recalled by agents that did not write them. The other modules have no liveness
property: nothing there waits for anything but its own next statement.


## 5. What disagrees with the code's own words

Two runs end in a counterexample; `PROJECT.json` quotes the words.

* `memory_vanishes`: a merge limited to one topic, or an agent's merge of its
  private records, looks for conflicts in that part alone; if the part agrees,
  the open conflict is deleted although the records still disagree. The comment
  there, the schema and the test of invariant 5 allow only a correction, a
  decision or a deletion to end one. It comes back with the next look at the
  whole. What holds is that wherever the last look was at the whole, the
  conflict on file is right (`ConflictsTellTheTruth`, a theorem).
* `retention_comesback`: `forget` commits, answers a repeated request from the
  idempotency table, and appends to the ledger file last. A process that dies in
  between leaves an acknowledged deletion without a line; restoring an older
  snapshot brings the text back, which the backup command says cannot happen. What
  the file has a line for stays deleted (`DeletionStands`, a theorem).

Stated in the modules, refuted when given to TLC, and checked by no run of the
project (each has a property beside it that a run does check and that says what
holds instead):

* `FiledUnderItsRoot` (`Publisher`): `publishRoot` reads the index back and does not
  look at the root beside it, so another key's publication in between files these
  proofs under that root's number (`chain.ts:162-165`). With no other key
  publishing the numbering is right (`FiledUnderItsOwnRoot`).
* `NoInstantPaidTwice` (`AccrualLedger`): two schedulers and a wallet change between
  their accruals: the rows name different addresses, so the unique key admits
  both, where `ledger.ts:14-15` says re-running is safe. It is while figures do
  not change and windows are whole periods (`SettledFiguresArePaidOnce`).
* `EventuallyConfirmed` (`UsageReports`): rows under a revoked key are deferred by
  each run and stay the oldest, so a full batch of them keeps everybody else out
  (`usage.ts:419`; `service.ts:196-197` promises a later tick). Without revoked
  keys on file what an agent goes on reporting is confirmed (`ConfirmedWhileKeysWork`).
* `RowsWithoutMoneyOwnNothing` (`UsageReports`): the payer's agent reports while
  another workspace with a key has a pending row for the id, is told `duplicate`,
  and that key then refuses the request; or the two reports collide, and the other
  workspace has no key. `usage.ts:190` says such a row does not own the id, and only
  a new report takes it back, which the agent was told not to make. The same words
  are broken by a rejection that nobody takes back (`LeftRejected`).
  `ConfirmedWhileKeysWork` leaves both out by name.
* `OpenMeansDisagreement` (`MemoryStore`): one record says 1, one a fullwidth 1,
  and a third value makes a conflict. Deleting the third leaves two spellings,
  which `memory.ts:871` counts as two values and keeps as an open conflict, and which
  no look would call one (`util.ts:133` folds NFKC). What holds is that its sides
  are the records that state the fact, and that they differ (`ConflictsTellTheTruth`);
  the next look retires it.
* `NoSummaryReopensADeletion` (`Retention`): a deletion between the second look at a
  summary's sources and the write of its block (`summaries.ts:531`, `:583`) misses the
  block, and `summaries.ts:541` says a deletion stays done. What changed before that
  look is caught (`SummariesTellTheTruth`, which leaves `slipped` out by name).
* `EarnsOnceEver` (`Retention`): a restore replaces the workspace's row and takes the
  credits that hang on it along, so a record may be credited a second time
  (`schema.prisma:594` says once, ever; seen with two credits in a scenario, one more
  than `retention_stands` has).
* `SafeFromManyProcesses` (`Bootstrap`): two processes that bring one older store up
  to date both find a column missing; the second `ALTER` fails with "duplicate
  column", which is not retried (`bootstrap.ts:181` says it is safe from any
  number of processes). That process says why, and opens when asked again.
* `FiguresAgree` (`RewardsPage`): "the two figures below cannot be taken a millisecond
  apart and disagree" (`rewards.controller.ts:74-76`, `:231-234`). The month's spend
  has no end, so a report verified between two queries is in it and not in the
  spend ever. And a credit is stamped before its insert has run (`schema.prisma:624`,
  `credits.ts:92`): one that was stamped before the page began and is written between
  two queries is among the month's credits and not among the credits ever. What
  holds is that no credit given since the page began does that (`PagesAddUp`).
* `EveryMatchIsFound` (`TaskContext`): records past the newest 500 are dropped
  without the answer saying that it is incomplete.
* `DeletionStands` without its exemption for `half` (`Retention`): a dump can be taken
  of a store that a killed restore left half done (`backup.ts:122`, which the
  command reaches without looking), with rows the replay has not taken out again;
  restoring that dump later brings an acknowledged deletion back.
* `CappedMeansWithheld` (`AccrualPricing`): an address is listed as capped when one
  layer was, while the other layer may have paid it in full. The cap also bites a
  lone earner as soon as the ceiling is reached, so a little more activity pays
  it less than before.

Seen while reading, without a property: `proofs.ts:17-19` says an older
proof still pays after a new root, while `claim` verifies against the newest
root only (`OffcutRewards.sol:196`); `OffcutRewards.sol:67` and `:257` differ on
whether the token can be named while amounts are owed; a rehearsal's pretended
root is remembered in the same file a live service reads (`state.ts:37`,
`service.ts:324`), which is why `PublishedMeansOnChain` is checked in live mode;
a key linked between a report's look and its delete does not save the
pending row (`usage.ts:216-217`, `:290`); a verification run that resolved the
old key rejects a row after the new key took rejections back
(`usage-credentials.ts:184`); a decision may name a version the chosen side never had
(`chosenVersion`, `memory.ts:722`); of two recalls that share one record, the later
one's whole insert fails, so its other records go uncredited until they are
recalled again (`credits.ts:45`, `:92`); a block's body quotes all sides of a
conflict, and deleting a side filed under another topic leaves that quote
(`merge.ts:492`, `memory.ts:852`); forgetting the topic of a current version
leaves the older ones undeleted with none of them current (`schema.prisma` calls
`isCurrent` "the newest non-deleted version"); a repeated request is answered
with the stored result, deleted texts included (`store.ts:67-72`); and a
correction of the chosen record itself does not reopen a decided conflict
(`merge.ts:237-248`), which is why `RulingsCoverWhatIsThere` speaks of the version
that was chosen.

And in the API process: an agent minted under the name "Console" is taken for the
owner's own writer and can be revoked or rotated as such (`store.ts:146-147`);
`rotateAgentKey` clears a revocation without counting seats, and connections opened
with the old key go on (`admin.ts:764`); an operation that passed the gate before its
agent was revoked still writes (`access.ts:177`; `RevokedGetNowhere` is about what is
asked for afterwards); two addresses pinned to one account at
once, and the later pin takes the earlier one's place (`reachWalletAccount`), which
`OneAddressOneAccount` leaves out by name; a cookie verified in time and a row swept
after it ran out let one nonce be presented twice, which `OneNonceOneAttempt` leaves
out by name; `siwe.ts:95` says nothing was spent on an answer for which the nonce
was; an audit entry stamped before a page was read and filed after it is behind
the cursor and never shown (`missable` in `Feed`); at exactly the cap a hit by a
tracked caller evicts another (`rate-limit.store.ts:150`); a refused try rolls the
window of an entry that has nothing left to count, so sweeping that entry changes
the phase of the caller's next window, and with it when the caller is let through,
by less than a window (the limit holds either way); and the recall cache
writes the ids of lineages and counts them against ids of rows, so a hit is never
recognised and `fromCache` is always false (`memory.ts:510-521`).


## 6. What is proved

For all values of the constants, under the assumptions named in each module
(finite sets, distinct special values, natural bounds).

* **Publisher** (`PublisherProofs`): `TypeCorrect`; `CursorNeverLeads`: the cursor
  moves by one and only onto a period the ledger accepted; `Refinement`: the
  publisher implements `RewardBook`. The safety of the book is not inductive by
  itself: that a new root extends the old ones rests on what is still in the
  mempool, and that a replayed period is not paid again rests on the tick's own
  locals. `IInv` (in `PublisherInvariant`) adds: rows are of closed periods and at
  most one past the cursor (`ClosedRows`); a tick's next period follows the cursor
  (`SettlesTheNext`); its locals agree with the stores (`TickLocals`); and published
  and pending roots are a chain of whole prefixes of the ledger (`RootsExtend`).

  On top of `IInv` stand three more. `EarnersArePaidOnce` (`NothingPaidTwice`): what a
  workspace earned in a period is in one row of that period, that of the address it
  had when the period was settled. `PublishedWasOnChain` (`PublishedMeansOnChain`)
  from `KnownOnChain`: what is remembered, what is in hand after the receipt, and
  what a retry still waits for is on chain or ours in the mempool. And
  `FilesCarryTheirNumber` (`FiledUnderItsOwnRoot`) from `Numbered`: while nobody else
  publishes, each root on chain extends those before it, so the newest one that is
  the whole ledger is ours and the index read back is its own. Both of these assume
  that no rehearsal shares the files (`"dry" \notin Modes`): a dry run remembers a
  root it only pretended to send (`chain.ts:194`), and with one they are false.
* **Contract** (`OffcutRewardsProofs`): `RewardsTypeCorrect`, `BooksAlwaysMatch`.
  While claims are nested the books run ahead of deliveries by exactly what the
  open frames still have to deliver, and each frame's undo record is the state
  in which the frames below it were consistent: the invariant states both for
  every depth of the stack. `NeverPastPromise` and `NothingIsLost` rest on
  `PromiseInv`: neither the books nor any undo record is past what was ever
  promised, and the current root is part of that promise.
* **Ledger** (`AccrualLedgerProofs`): `LedgerTypeCorrect`; `PaidOnceWithoutARace`
  (an instant is paid twice only if calls raced); its two corollaries,
  `OneSchedulerPaysOnce` and `SettledFiguresArePaidOnce`; and `AcceptedStands`. The
  invariant: what was inserted is on file, calls that found nothing want what no
  other call and no row contradicts, or calls raced; with what callers were told
  (`FiguresInv`).
* **Pricing** (there too): `PoolHolds`, `OthersStand` and `QuietPays`, for any
  workspaces, payees, units and accepted configurations. A sum over a finite set
  is one for which every subset without a least counterexample holds
  (`EverySubset`): what a set has when each of its subsets with one element less
  has it, every set has. From that: sums are natural, follow their terms, add up
  over parts and over groups; a floor of a share is at most the share, so shares
  add up to at most the pool. `AnyQuietPeriodsPay` is the statement for any finite
  sets of reports and credits, of which `QuietPays` is the instance that a run
  enumerates.
* **Tree** (there too): `RootsProveThem`, `RootsProveNothingElse` and
  `SameBooksSameRoot`, for any number of entries. Each entry has a place of its own
  and every place is taken (`Placed`: a one-to-one map between sets of one size is
  onto). A level is shorter than the one below until one node is left (`LevelsAre`).
  On its way up a proof stands on one node of each level, and hashes no other
  leaf to it (`OnTheWay`). Every node is the leaf of an entry or a pair of nodes
  (`NodesAre`), so of all that a proof hashes, from a node down, all are nodes, and
  what it began with is an entry's leaf. What this assumes of hashing is that equal
  hashes are of equal contents and that a leaf is not a pair.
* **Usage** (`UsageReportsProofs`): `UsageTypeCorrect`, `AnsweredStaysOnFile`,
  `ThePayerIsPaid`, `VerifiedIsForGood`. `UsageInv`: what a report found on file stays
  there in one hand or another (`FoundStays`), keys are used by those who linked
  them (`OwnKeys`), and a run's rows are those on file, unpaid, or have been replaced
  under another id that its update by id cannot touch (`RunIsCurrent`).
* **Credits** (`RetrievalCreditsProofs`): `CreditTypeCorrect`, `ARecordEarnsOnce`,
  `OthersPay`. The batch of a recall is of others' records, from its read to its
  insert (`OthersOnly`); the unique key does the rest.
* **Recall** (there too): `RecallIsTrue`, for stores, limits and costs of any size and
  any number of rows considered. Who is ahead of whom is a strict order of the rows
  (`BetterIsOrder`) and, by the best row of each, of the groups (`GroupsOrdered`); a
  finite set so ordered is put in its one sequence (`InOrderIs`), so what is cut off is
  worse than what is kept. The store without what the caller may not read is a copy
  of the rest, place by place (`RestMirrors`), and a copy has the same groups in the
  same order (`GroupsMirror`, `SameOrder`), hence the same answer (`NotFelt`).
* **Memory store** (`MemoryStoreProofs`): `MemoryTypeCorrect`,
  `SearchHoldsWhatIsCurrent`, `FreshMeansCurrent` and `DeletionReachesBlocks`. The
  four hold together (`BookInv`): a correction is newer than every version of its
  record, deleted ones included, so it can be neither on file nor deleted yet; a
  fresh block's sources are current, so what a correction supersedes is cited only
  by blocks it marks. What add, a correction and an import share is proved once
  (`Writes`).
* **Conflicts** (there too): `ConflictsAreTrue` and `RulingsCover`. The
  truth of conflicts is not inductive for open ones alone: deleting a record must
  leave a decided conflict with the sides of the records that still differ, so
  `Truth` states for every conflict what the property states for the open ones:
  two values, which may be two spellings of one sense once a deletion took the
  others (`OpenMeansDisagreement`, above).
  What a decision covers is not inductive for the records alone: a look compares
  them with the sides the last look wrote, so `RulingInv` adds that the sides are
  themselves covered, name versions that were written and state what these state.
  It needs what `Onward` says of every step: a version once written is never
  written again, keeps its value and never becomes current again.
* **Retention** (`RetentionProofs`): `RetentionTypeCorrect`, `DeletionsStand`,
  `SummariesAreRight`, `BlocksCiteWhatTheyQuote`, `WholeSnapshotsRestore`.
  `RetentionInv`: a text has a number of its own (`Numbered`); a line is of a text
  that was written, and in the file (`LinesAreFiled`); a snapshot holds rows that
  refer to what it holds, and none that had a line when it was begun, unless it was
  taken of a store half restored (`FilesAreKept`), which a dump in progress has for
  the tables it has read (`DumpIsTrue`) and a restore for those it has loaded
  (`RestoreIsTrue`); a block that a summary is storing is its own
  (`WritersAreAlone`); and what a block quotes is what it cites, and on file
  (`SummariesAreTrue`).
* **Accounts** (`ServiceProofs`, from `AccountsAssumption`): `NonceBuysOneAttempt`,
  `AddressReachesOneAccount`, `DoorsAreKept`. A nonce
  that bought an attempt is on file as long as its cookie runs, so a second row means
  a cookie that ran out in between (`NoncesCount`). An address that was let in is the proven
  address of that account, or was displaced, and an account without an email has
  the address it was opened with (`DoorsStand`); a sign-in in progress holds an
  account that exists and that fits its address (`CallsPoint`).
* **Access** (there too, from `AccessAssumption`): `TheRevokedGetNowhere`,
  `AuthorsAreKept`. The agent of an operation asked for after a revocation is
  still revoked, and the operation not through the gate, until the agent is given a key
  again, which ends the claim (`ConnsHang`); a record's author is an agent on file in
  the record's workspace, and what is on file hangs on a workspace that is
  (`RowsHang`).
* **Bootstrap** (there too, from `BootstrapAssumption`):
  `StoreOpensWholeOrSaysWhy`. A stamp is as good as what it says
  (`StoreStands`): a store at the current version has all columns and tables. How
  far a process has come says what the store has by then, which no other process
  takes away (`FitsFile`), and only the holder of the write lock is in the
  transaction (`Writes`).
* **Reward pages** (there too): `ThePagesAddUp`. A summary has asked the first few of
  its queries (`SummaryInOrder`); while nothing moved, every answer is what the
  store says now (`QuietAnswersHold`); and whatever was written, confirmed money stays
  confirmed, and what was earned before the page began stays what it was but for
  the credits of `behind` (`AnswersStand`).
* **Limiter** (there too, from `LimiterAssumption`): `TheWaitIsTrue`, `LimitsStand`,
  `TheMapStaysCapped`, for any window, limit and callers. `Remembered`: any stretch
  of what was let through is within the limit and the share of it that the stretch
  is of a window (`Bounded`), and the two counters stand for what was let through
  since their windows began (`Fits`), or all of it is past (`Past`); an entry dies no
  sooner than what it counts (`Deadline`), so a sweep forgets only what is past.
* **Feed** (there too): `TheFeedIsOne`, for trails and pages of any length. What the
  client has, what is on the wire and the cursor follow one another (`InOrder`), and
  what lies before the client's place, and is not `missable`, it has (`Complete`).

**Only model-checked.** Liveness (`EventuallyCaughtUp`, `EverybodyIsPaid`,
`ConfirmedWhileKeysWork`, `EventuallyCredited`): temporal reasoning under fairness
and `ENABLED` are outside the prover's reach. Every other property of a passing run
is stated by a theorem.


## 7. What is not modelled

Reading and formatting (the HTTP handlers beyond who may do what, the MCP server,
the SDK beyond its connection: each is one call of the core), configuration and
start-up checks of the publisher, logging, encryption of a stored key, passwords,
paths and demo data, scripts. Amounts in the ledger are one number: their split
into spend and memory is left out there. Gas, fees and reorganisations of the
chain are outside; a transaction that left is mined or reverts. Upgrading the
contract's implementation replaces the code, not the state. Of the memory store the
model leaves out the text of a block and the grouping of near-duplicates in it,
links as rows of their own, inspect and export, the idempotency table of
operations other than `forget`, the recall cache, and PostgreSQL, where two
transactions of one workspace could overlap. Of summaries the prompt and the
parsing of the answer, of backups the rotation of files, of recall the arithmetic
of a score. Names, slugs and listings of accounts are left out.
