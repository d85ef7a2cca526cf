# A verification development for the zswap offer-file kernel

TLA+ modules, TLC configurations and TLAPS proofs about the code under `src/`.
Paths below are relative to `src/packages/` unless they say otherwise; `executor`
stands for `solver/src/swap-job-executor.ts`.

## 1. The system

Makers publish *offers* (half-signed Midnight transactions that give some coins
and want others) as blobs on Celestia. A rollup node reads Celestia and Midnight
as one sequence of L2 blocks, keeps an order book of the offers that can still be
settled, and reports afterwards what became of each. A solver mirrors that book,
quotes prices from it to a relay and fills the jobs the relay sends. A poster keeps
offers of its own coins in the book.

### Components, their state and operations

| component | state | operations | modelled in |
|---|---|---|---|
| **Offer index**: `node/state-machine.ts`, `database/sql/*`, `database/migrations/000-init.sql` | `offer_file` and its child tables (live book), `offer_file_history` (archive and verdict), `nullifiers`, `commitments`, `unshielded_spends`, `unshielded_creates` (permanent), `created_unshielded` (live set), `known_roots` (window), scheduled inputs | one transition per input: blob, nullifier, commitment, unshielded spend, unshielded create, root, scheduled cleanup | `OfferIndex` |
| **Adjudication**: `node/api.ts` listener and sweep, `adjudicateOfferFill` | `offer_file_history.settled` | on a released event; on a timer for what is owed | `OfferIndex` |
| **Block boundary and event gate**: `node/app-input-savepoint.ts`, `node/event-bus.ts`, `gatePoll` in `node/api.ts` | the open transaction; `pending`, `committedHeight` in memory | run an input, commit, roll back and retry; emit, poll, release | `EventGate` (implements `CommittedFeed`) |
| **Updates stream and book mirror**: `node/offer-updates-stream.ts`, `solver-core/api-client.ts`, `solver/src/book-sync.ts` | a numbered subscription; generation, buffer, serial queue, mirror, currentness | subscribe, deliver, cut; snapshot by pages, apply, resynchronise, probe health, sweep, stop | `BookSync` |
| **Ladder**: `solver-core/ladder-derivation.ts`, `whole-offer-balance.ts`, `resolveSwapJobRoute` | none (pure) | derive staircases from a book; quote; resolve the makers of a job | `Ladder` |
| **Relay client**: `solver/src/relay-client.ts`, `ladder-source.ts` | one socket, a push in flight, timers, routed jobs, verdict chains | connect, push, answer, withdraw, stop | `RelayClient` |
| **Swap job executor**: `executor`, `solver/src/stock.ts` | jobs building, awaiting, confirming, quarantined; claims; journal rows | admit, build a half, time out, relay frames, HTTP reconciliation, revert, retry, sweep, start-up | `SwapJobs` |
| **Operation journal**: `solver/src/operation-journal.ts` | SQLite tables of operations, receipts, DUST reservations | create, compare-and-set transition, record a receipt, reserve, spend and release DUST, prune | `OperationJournal` |
| **Offer poster**: `src/deploy/scripts/lib/poster-*.ts`, `pinned-wallet.ts` | coin journal on disk; wallet reservations in memory | tick, reconcile (in the tick and on a timer), post with retries, restart | `Poster` |
| Validator, ingestion checks | none | validate, liveness, marker dedup | their effect, in `OfferIndex` |
| API reads, sponsorship, batcher, price feed, token registry, status server, front ends, deployment, tests | caches, status rows | reads, one-shot imports, wiring | not modelled (section 6) |

`PROJECT.json` lists every part with what is left out of it.

### How they interact

Celestia and Midnight primitives report inputs; the runtime puts those of one L2
block into one database transaction and calls the transitions in the order the
primitives are declared (`node/config.dev.ts`). A transition writes tables and
*emits* application events, which the gate holds in process memory until a
**separate connection** sees the block committed. Listeners (adjudication, the
updates stream) then act on connections of their own. The solver reads the book by
HTTP and follows the stream; every change of its mirror asks for a push, which derives
a ladder and sends it in two frames. A job that comes back is resolved against the same
derivation, claims its makers' offers, and becomes rows of the journal before each wallet
call. Its end is learned from relay frames, from an HTTP receipt, from the ledger evidence
the node serves, or from the clock.

### What is hard here

* *Order.* Two chains meet in one block; blobs run before spends, spends before
  creates, the root last. An offer and the spend of its coin come in any order.
* *Evidence at a distance.* Fill or cancel is not observed. It is inferred from
  which transaction spent each input and which outputs exist, by a predicate that is
  read again and again and once written down.
* *Deadlines.* An offer's expiry is a floor under several ledger limits, one of them
  a root whose clock the index sees only when the root changes.
* *Granularity.* An L2 block of ten minutes (`BLOCK_TIME_MS` of `config.preview.ts`) covers
  about a hundred Midnight blocks: it reports several roots at one height, and coins that
  are created and spent in it.
* *Atomicity.* A transaction rolls back, the memory of the process does not.
* *Awaits.* Whatever the solver awaits, a page, a send, a wallet call, the rest goes on:
  sockets drop, the book changes, a deadline passes, the answer comes late.
* *Restarts.* The executor and the poster stop between any two writes and decide from
  what was written alone.
* *Money.* A DUST window that counts reservations, spends and what was pruned; coins that
  must carry one offer; wallet contributions that must be given back once or not at all.
* *Exactness.* A quote binds: every amount that the relay can interpolate must be payable
  from offers that cannot be divided.

### What makes each component correct

* Index: the book never offers a coin known to be spent (but for one that a single L2 block
  created and spent, see section 4), never the same intent twice, never an archived offer again; an offer leaves by its advertised expiry; an archived
  offer reads as filled exactly when one ledger transaction executed it.
* Adjudication: each spent offer gets a verdict, and the verdict equals what a reader
  computes.
* Gate: consumers receive events of committed blocks, in order, once.
* Mirror: while current and undisturbed it lags the node by events on their way alone.
* Ladder: each quote can be carried out and is the best the book allows.
* Relay client: the relay holds one derivation, not staler than the book; after a
  withdrawal none; a job is answered once, where it came from.
* Executor: claims are exclusive and cover what the wallet gave; nothing that can land is
  reverted; the verdict of a job is true; every job is decided.
* Journal: terminal states and evidence are final; the DUST budget is never exceeded and
  never forgotten.
* Poster: what the kernel holds spends the journaled coin alone, one offer per coin.

## 2. The modules

### OfferIndex

`OfferIndex.tla` is `state-machine.ts` over its tables. An offer is named by its content
hash; what its bytes declare is a constant function of the hash (`OfferNulls`,
`OfferComms`, `OfferSpends`, `OfferOuts`, `OfferRoots`, `IntentTtls`), so a child table is
the restriction of such a function to the rows present. Table to variable:
`offer_file` → `offerFile`, `metadata_expires_at` → `expiresAt`, `offer_file_history` →
`history`, its `settled` column → `verdict`, `nullifiers` → `nullTx` and `matched`,
`commitments` → `commTx`, `unshielded_spends` → `spendTx`, `unshielded_creates` →
`creates`, `created_unshielded` → `liveUtxos`, `known_roots` → `knownRoots`, the scheduled
cleanups → `cleanups`. The inputs of the block being processed are `inbox`; empty, the
block has committed.

| action | code |
|---|---|
| `IndexBlob`, `RejectBlob` | `celestia-zswap`: dedup, liveness, crypto, marker dedup, expiry, insert, early reconciliation, schedule |
| `NullifierEvent`, `CommitmentEvent` | `midnight-zswap-event` |
| `SpendEvent`, `CreateEvent` | `midnight-unshielded-spend`, `-create` |
| `RootEvent` | `midnight-zswap-root`: upsert and prune |
| `TtlCleanup` | `archiveOfferAtExpiry` |
| `AdjudicateOnEvent`, `LoseNotice`, `RepairSweep` | `onAppEvent`, its failure, `fillSweep` |
| `BeginBlock`, `Take` | the runtime: due cleanups and reported inputs, in primitive order |
| `Settlement`, `OtherSpend`, `RootAdvances`, `PostBlob` | the two chains (external): a taker settles some offers in one transaction, owners spend elsewhere, the tree advances, blobs and replays are posted |

The ledger side keeps what the index cannot see: `chain` and `mined` (what really happened,
the reference of `FillExact`, and in which L2 block), `lastCurrent` (until when a root is
valid) and `appeared` (the L2 block that reports it), the references of `FloorWithinOneBlock`.
Between two L2 blocks the ledger may take any number of transactions, each of which may spend
what an earlier one created, and the tree may advance any number of times: the roots of a
block are handled in their order and get one height. Two promises are therefore weaker than
the comments of the code, and section 4 shows why: `LiveInputsUnspent` excepts coins that were
created and spent within one L2 block (`BornSpent`), and `FloorWithinOneBlock` counts from the
last of the roots that were reported together. Cleanups are unordered with respect to the primitives of a block,
because nothing in the code relates them.

Not kept: token legs and prices (hence offers are never basket offers), DUST deadlines
(one more limit in the same minimum), and the rejection counters. Height and timestamp of
a block are one number. The blob's checks read nothing that another step could change in
between, because the block's transaction is the only writer, so the gate is one action.

The blobs-first order is load-bearing: with blobs taken in any order among the Midnight
inputs of a block, TLC finds `OneTradePerCoin` violated, since a settlement and its wrapper
can then meet in one block with the first offer archived and no longer a claimant.

### EventGate and CommittedFeed

`EventGate.tla` has the block transaction (`Begin`, `Run`, `Commit`, `Rollback`), the
process (`Crash`) and the gate (`Emit` inside the transitions, `PollGate`). A block that
rolled back is processed again with the same inputs and other row ids, because SERIAL does
not roll back. It keeps only as much of the book as decides which events a transition emits.
`CommittedFeed.tla` is what consumers are promised; `Feed == INSTANCE CommittedFeed WITH ...`
drops the row id of each event, and `ImplementsFeed` is checked as a property and proved
(section 5). Both pick events out of sequences with `PickSeq` of `Subsequences.tla`, because the
standard `SelectSeq` has no definition that a proof could use.

### OperationJournal

One action per public call that writes. Since callers act on copies they read before an
await, a call may come with any expected state and any receipt. A call that throws is no
step. The ghost `spends` records every DUST spend for good, so that `DustBudget` speaks of
what was spent and not only of the rows that remain.

### SwapJobs

The executor over its journal rows. A handler changes memory at once and queues its writes
in `plan`; `Write` makes them one at a time, and while some are left nothing but `Crash` can
come in between, as the code between two awaits is synchronous. `db` is a row per wallet operation of a job (`residual`,
`dust`, their finalized successors, the settlement, the recovery reverts), with its DUST
reservation; everything in `memory` is lost by a restart.

| action | code |
|---|---|
| `OnSwap`, `ReadFiles`, `GetAddress`, `WalletReturns`, `WalletThrows`, `Complete`, `FailBuild`, `Timeout` | `executeSwap`, `readAndReconstruct`, `buildHalf`, the deadline and the late completion |
| `CleanupCall`, `CleanupReturns`, `CleanupDone` | the catch block of `buildHalf` |
| `quarantineGroup`, `RevertRow`, `markReverted`, `markFailed`, `markSettled`, `markRelaySubmitted`, `markAwaitingRelay` | the functions that write rows, as sequences of writes |
| `onTxSubmitted`, `onSubmitFailed`, `EvidenceDone`, `EvidenceFail`, `RevertReturns` | the relay's frames, `enqueueTerminal` and what it runs: `reconcileFromHttp`, `reconcileDurableEvidence`, `revertWallet` |
| `sweep`, `Take`, `SweepSkips`, `SweepRetries`, `SweepReconciles`, `RecoveryReturns` | `runSweep`, `retryQuarantine` |
| `Crash`, `Booting` | the process stops; `reconcileStartup`, one settlement row at a time |
| `RelayGivesUp`, `RelaySubmits`, `RivalTakes`, `IndexConsumption` | relay, ledger and indexer (external) |

The states a row may pass through are those of `OperationJournal` (`Journal == INSTANCE`), and
`JournalAccepts` says that no handler ever writes what the journal would refuse.

Simplifications: a job id is dispatched once and has one generation; route arithmetic only
decides whether a job is refused (`Ladder` has it); artifacts restore as they were stored,
rows are not pruned, the relay does not contradict itself, the sweep that
`notifyConsumed` may start during start-up is left out, and the process ends by a restart.
Frames can arrive during start-up, since the relay client connects before it ends.

### RelayClient

A ladder is the set of offers it quotes. `connect`, `OnOpen`, `OnClose` are the socket;
`Pushing` goes through the awaits of `push` (the derivation, the capabilities frame, the
levels frame) and re-reads the socket's generation after each, as the code does; `Answer`
and `Handled` are the jobs and their verdict chains; `Ending` is the withdrawal and `stop`.
A frame that `send` has taken is on the wire although its promise settles later. A requested
push begins with a step of its own, which allows more interleavings than the code. The empty
capabilities that a withdrawal may send after its deadline are left out.

### BookSync

Node, stream and mirror in one module, because the hazard lies between them: the node
commits (`node`), its gate releases later (`outbox`), the subscription numbers and delivers
or is cut (`wire`, `server`, `client`), the solver reads pages while events arrive (`task`,
`queue`, `boot`). Pages hold one offer. Simplifications: the rewind floor of a subscription
(a node whose height grows never meets it), the byte ceiling beside the event ceiling, what
the node does after `stop`.

### Poster

Tick, background reconciliation and process over the journal file. Every journal write is a
step, with ends of the process in between; the wallet's reservations do not survive one. A
build may spend whatever the wallet selects, the wrong coin included, since the assertion in
`offerCoin` exists for that case; an accepted post may lose its answer; a request may fail.
Offers are numbered by build. A pass asks in any order, one timer pass at a time; another
owner of the wallet spends matching coins only; prices, sizes and counters are left out.

### Ladder

`Scan` is the source scan, the shared-coin policy and the discovery graph (weak components,
Kahn's removal, `universeFor`); `Examine` takes the candidate pairs in order: refusals, the
search, the frontier, the encoding. `interpolateQuote` is the relay's reading of a push,
`Route` and `Demands` the executor's answer (`resolveSwapJobRoute`). Tokens and hashes are
numbers. The search of a pair is one step; that a cap, a work budget or the caller's
cancellation ends it anywhere is a choice (`Stops`, `PairCaps`), for the books in
`Interrupted`. Merge orders are searched as the code does it (the sorted order, else over
sets of merged makers); the properties say what is possible by all permutations instead.

## 3. Runs

`CHECK_DEADLOCK FALSE` is set where a behaviour ends: at the last block of the index and the
gate, when all jobs are decided, when a client or mirror has stopped and the bounded changes
are used up, when a derivation is done. In the journal some call is always possible, and
deadlock is checked.

| run | shows |
|---|---|
| `IndexShielded` | `NoResurrection`, `BookNotStale`, `FloorWithinOneBlock`, `FillExact`, `OneTradePerCoin`, `VerdictMatchesEvidence` over three shielded offers: `a` and `b` share a coin, `b` has two roots, `c` wraps `a`'s intent, and a block may report up to two new roots |
| `IndexMixed` | a shielded offer with `d`, `e` unshielded, where `e` spends what `d` pays out, in the same L2 block or later, and TTLs bound the lifetime: `LiveInputsUnspent`, `FillExact`, and under fairness offers leave the book and verdicts arrive although notifications are lost |
| `Gate` | the gate implements the feed of committed events and releases what it holds, over rollbacks, lagging polls and a restart |
| `Journal` | the DUST budget and its reservations with spends that age and are pruned, the row ceiling, final terminal states and evidence |
| `Jobs` | two jobs that want one offer, a rival, time-outs, unreadable evidence, a restart: `NothingLeaks`, `RevertOnlyWhenDead`, `ExclusiveClaims`, `JournalAccepts` |
| `JobLife` | one job under every fault of wallet, clock and socket and a restart between any two writes: `TerminalLast`, `VerdictTrue`, `FeeKept`, `RevertedOnce`, and under fairness `EveryJobDecided` |
| `Relay` | pushes are whole, withdrawal and stop are final, a job is answered once and where it came from, no push quotes offers that were gone when its levels were checked, and the relay converges to the book |
| `Book` | `QuietMirrorTrue`, `CurrentWhenDrained` and, under fairness, `MirrorConverges`, over lost frames, cut subscriptions, overflowing buffers and failing requests |
| `Poster` | `HeldOffersAreExact`, `OneOfferPerCoin`, and under fairness `OutcomesLearned` |
| `Ladder` | `EveryQuoteHonoured`, `QuotesAreBest` over 5,512 books, each derived whole or cut short |
| `BookRevives`, `PosterDenied` | violations: section 4 |

**Bounds.** *Index*: five L2 blocks, a root window of two and a lifetime of three let a root be
superseded, age out and be pruned, and an offer be indexed, expire and be replayed. Three
posts suffice for an offer, its wrapper and a replay; two Midnight transactions for a split
spend, a cancel followed by another spend, or two settlements. Two inputs and two roots are
the least that separate "some" from "all"; three roots in the tree let one block report two, of
which the first is superseded at once. *Gate*: three heights with two rollbacks and a
restart let one block fail twice and a lagging poll release two blocks at once. *Journal*: two
keys fill the window twice over or meet the ceiling of three rows; keys and observed values are
symmetric and no property names them. *Jobs*: two jobs are the least that compete; one offer is shared
and one is not; one restart lies between any two writes. All five faults at once belong to
`JobLife`, with one job. *Relay*: two offers and a resource limit of one, so that a book can be
refused; three changes and two faults let a push be overtaken, cut and repeated. *Book*: two
offers on pages of one, a buffer of one event and a backlog of one frame, so that both overflow;
changes and faults together are at most three. *Poster*: two builds, two posts each; the second
coin exists to be built with by mistake. One restart, at every write. *Ladder*: amounts up to
eleven in place of 2^127 − 1, three makers per combination, four wire points, three pairs. At
these sizes merges that only the searched order allows, cycles that serve another component, a
shared coin, truncation by the wire cap, a staircase that cannot be encoded and the pair cap
all occur. A set that is balanced but has no safe order at all needs more makers and does not.

**Fairness.** *Index*: weak fairness of blocks and of handling their inputs (the runtime does both
unasked) and of the sweep (`setInterval`, 15 s); none of the listener, whose write may always be
lost, and none of the chains. *Gate*: of processing and of a poll that reads the current height
(`setInterval`, 1 s; "transient; the next tick retries"). Rollbacks are bounded: with a
permanently failing input the node halts by design (`failStopAppInput`) and nothing is promised.
*JobLife*: the sweep's interval, wallet calls and requests that end in some way, the relay that
gives up or submits, the indexer. *Relay*: sockets and sends end in some way (`ws` errors or
closes), timers fire, handlers end. *Book*: the gate polls, sockets deliver or close, the connect
timeout and the timers fire, requests end (each has a time limit). *Poster*: the timer fires and
passes go on; strong fairness of the kernel's answer about one offer, that is, a kernel asked
again and again answers at some time. Nowhere is a fault fair: none has to happen.

## 4. Disagreements between the code and what it says

Two are runs.

* `BookRevives` (`StaleOnlyInFlight`). `node/offer-updates-mirror.test.ts:17` says that the
  resynchronisation after a dropped subscription "must repair a mutation that happened while
  the mirror was blind". An `offer_indexed` event of the old subscription may wait behind the
  snapshot; applied after it, `addByHash` fetches the detail of an offer that was consumed in
  the gap, which the API serves with a status the mirror ignores, and the book called current
  holds it until the next snapshot.
* `PosterDenied` (`RejectedNeverListed`). `poster-journal.ts:58` says a `rejected` post was refused
  "with a 4xx" and "never became an offer". `offerCoin` records every answer that is neither a
  success nor retryable so. Two of them belong to offers the kernel holds: a 500 after the batcher has
  published the blob (`api.ts:1004`; the trace), and the 409 to a retry when the answer to an
  accepted post is lost and the offer is indexed in between, although `poster-tick.ts:361` knows
  what that means. The coin is freed and offered a second time.

The following were found by runs that the project no longer keeps. Their properties are still
defined in the modules: take the named configuration, replace its properties by the one given, and
make the changes listed.

| property | from | changes | statement and what the code does |
|---|---|---|---|
| `SpentNeverListed` | `IndexMixed` | | `state-machine.ts:427`: after a spend "a later Celestia offer will see no row and be rejected"; a UTXO created and spent in one L2 block is deleted, then inserted, stays in the live set, and an offer of it is listed until its deadline |
| `HighestRootCurrent` | `IndexShielded` | `MaxPosts = 1`, `MaxTxs = 1` | `queries.app.ts:1753`: counting the highest root as current is "semantic parity with the ledger"; all roots that one L2 block reports share the highest height, and on a quiet chain those superseded within it count as current long after the ledger has dropped them |
| `RootGateParity` | `IndexShielded` | `MaxTime = 6`, `LastPost = 3`, `MaxPosts = 1`, `MaxTxs = 1` | `queries.app.ts:1753`, the other half: a root ages from its first block, the ledger counts from its last |
| `FloorNeverOverPromises` | `IndexShielded` | `LastPost = 3`, `MaxPosts = 1`, `MaxTxs = 1` | `state-machine.ts:739`: the floor never over-promises; a blob in the block that changes the root gets one block too much, and one with a superseded root of the highest height any number |
| `NeverReclassifies` | `IndexShielded` | `MaxRoot = 2`, `HashlessEvents = TRUE` | `000-init.sql:422`: an archived offer can never reclassify; an event without a transaction hash makes a cancelled offer read as consumed later |
| `RejectionsKeptApart` | `Gate` | `Blocks <- JunkBlocks`, `MaxHeight = 1`, `MaxRollbacks = 0` | `event-bus.ts:108`: hashless events are kept apart; two unparsable blobs of a block announce one rejection |
| `ListenerSeesArchive` | `Gate` | | `api.ts:208`: the listener is guaranteed to see the archive; after a retry the released event has a row id that never committed, and the sweep repairs it |
| `RevertNeverReplayed` | `JobLife` | | the tests say a primary revert is not replayed; a call that may have been made before a stop is made again after it |
| `TerminalForgotten` | `JobLife` | | a terminal job delivered twice changes nothing; a late evidence read puts a job that is over back to awaiting |
| `FeeReturned` | `JobLife` | `Faults = {"wallet"}` | `swap-job-executor.test.ts:1142`: a restart "releases it only after proved revert"; a stop between the clean-up and the release makes start-up fail the job (executor:2310) without touching the DUST reservation, which counts for ever |

One more is settled by proof. `state-machine.ts:343` says of a nullifier that arrives before its
offer that `celestia-zswap` "will flip it when the offer arrives". The liveness check rejects an
offer with any recorded nullifier first, so the reconciliation after the insert never finds one:
theorem `NothingEarly`.

Observed while modelling, and left as they are in the models:

* Executor. A stop between the REVERTED of a finalized row and that of its source makes start-up
  revert the raw artifact as well. A failed `revertWallet` leaves `reverting` true, so the job is
  retried only after a restart. `docs/protocol-scope.md` promises a "durable committed or reverted
  terminal state" for every retained wallet operation; when a rival has consumed the offers that
  state may never come, and `EveryJobDecided` counts a job held for it as decided.
* Book. The rewind check compares the health height with the anchor of the subscription, so a
  rewind that stays above the anchor goes unnoticed. A detail request that fails leaves a live
  offer out until the next resynchronisation.
* Poster. The live poll writes `consumed` without marking the coin spent. A late background answer
  can leave a consumed offer `live` on a coin that is closed, counted by `/health` for ever. An
  accepted offer that is never indexed stays `unknown` and holds its coin. The candidates are tried
  oldest first, and one that keeps failing blocks the others and the inventory. An unreachable
  kernel on the last attempt makes the wallet revert a build that the kernel may hold.

## 5. Proofs

Eight modules hold proofs, checked by TLAPS for every value of the constants that satisfies the
assumptions in the modules: `OfferIndexProofs` (the index), `PosterProofs`, `OperationJournalProofs`
(with the sums over finite sets it needs), `RelayClientProofs`, `BookSyncProofs` (the mirror),
`EventGateProofs` (the event gate), and `SwapJobsProofs` and `SwapClaimsProofs`, one on top of the
other (the executor). The assumptions: declared offers are typed, the offers of the mirror are
finitely many, a blob of a block carries one offer, a valid offer has inputs and outputs on one
layer (`validate.ts`), bounds are natural numbers, and the markers `Nobody` and `Free` are names of
no job and no offer. A theorem that needs more says so in its statement.

| theorem | from |
|---|---|
| `TypeCorrect` | `TypeOK`, which no run repeats, is inductive. That the expiry of an accepted offer is a natural number needs `ExpiryAhead`: accepted roots are live and TTLs lie ahead |
| `NeverResurrected`, `MarkersStayExclusive` | `BookInv`: rows of the book are distinct, absent from the history, with unspent nullifiers. The last conjunct makes the early reconciliation a no-op (`NothingEarly`) |
| `CleanupStaysPending`, `BookNeverStale` | `DeadlineInv`: every scheduled or due cleanup carries the offer's persisted expiry, none scheduled is overdue, and a due one belongs to an offer already indexed |
| `LiveInputsStayUnspent` | `CoinInv`, which relates tables, unhandled inputs and the ledger with its blocks: every recorded spend has landed in a block begun by now, a reported input has landed in the block it is reported for (`Reports`), no coin is spent in a block before the one that creates it, and of the recorded spends only coins born spent are in the live set or the book |
| `FloorStaysWithinOneBlock` | `RootInv`: for some root `p`, the last the index has handled (`Lag`), roots up to `p` are reported and the later ones wait in their order (`Pending`), blocks report roots in that order (`Dated`), no root is known later than it was reported (`Knows`), and `p` was current in this block or the last one (`Current`); so every highest root was reported in the block of `p` |
| `FillStaysExact`, `VerdictStaysTrue`, `OneTradeHolds` | `EvidenceInv`, `VerdictInv`, `TradeInv`: what the tables record of the ledger, what the ledger made of each archived offer, and which offers cannot have met in one transaction; see below |
| `TerminalStaysFinal`, `EvidenceStaysKept`, `DustStaysBacked`, `ReservationStaysKept` | `ColumnsInv`: the columns are typed and a receipt exists only with its row |
| `HeldOffersExact`, `OneOfferEach` | `PosterInv`, for any number of coins, builds, retries and restarts |
| `JournalTyped`, `DustStaysInBudget` | `JournalInv`: the types, the row ceiling, and every spend of the window still backed by its row, with its amount and time (`SpendsHeld`), so that pruning cannot make the ledger forget one. The sums need induction over finite sets, stated in first-order form: `SubsetInduction` and `NatSetInduction` speak of a set that is closed, never of an operator |
| `RelayInvariant`, `PushesAreWhole`, `WithdrawnIsHonoured`, `AnsweredOnce`, `StoppedForGood`, `QuotesAreFresh` | `RelayInv`: what is on the wire at every await of a push (`PushKept`) and of a withdrawal (`WithdrawalKept`), that a socket no push has reached was sent nothing (`SocketKept`), what `stop()` has taken down once it drains (`StopKept`); for any offers, jobs and number of faults |
| `SwapInvariant`, `ClaimsAreExclusive`, `RevertsOnlyTheDead`, `SettlementEndsLast`, `FeesAreKept`, `WritesAreAccepted` | `IInv` of `SwapJobsProofs`, for any jobs, offers, retries, crashes and recoveries; see below |
| `WalletIsAccounted`, `VerdictsAreTrue` | `WalletInv` of `SwapClaimsProofs` on top of `IInv`: where each contribution of the wallet is accounted for |
| `ClaimsAreHeld` | `StockInv` of `SwapClaimsProofs` on top of both: which claims memory holds, and that nobody frees those of another job |
| `MirrorHolds`, `QuietMirrorHolds`, `CurrentOnlyDrained` | `MirrorInv` of `BookSyncProofs`, for any offers, coins, buffers and backlogs; see below |
| `GateInvariant`, `GateTypes`, `GateImplementsFeed` | `GateInv` of `EventGateProofs`: the refinement `ImplementsFeed`, for any offers, bounds and blocks of `DistinctInputs`; see below |
| `RevertsAreNotRepeated` | `TriesInv` of `SwapClaimsProofs` on top of `IInv`: what the journal keeps of a revert call that may have been made |

The invariants were checked by TLC first. None of the properties is inductive on its own.
`OneOfferPerCoin`, for one, speaks of statuses in the journal, and an answer read before an await may
be applied after the coin has been offered again. `PosterInv` therefore says what each answer on its
way may still claim (`Truthful`, `AsksRecorded`), that of the offers of a coin only the last can be
held by the kernel (`OnlyLastHeld`), what the tick's locals mean at each of its steps (`CoinInHand`,
`OfferInHand`), and that the kernel's offers are exact (`HeldOffersAreExact`), because an offer that
spent a second coin could be ended by that coin's fate.

Fill-vs-cancel relates evidence that arrives over several blocks to one transaction of the ledger.
`EvidenceInv` says that each recorded coin is recorded under the one transaction that has it, and that
of each transaction every event is recorded or still waits (`Records`); that between blocks a
transaction is recorded whole or not at all, and that blobs are handled before anything of their block
is (`Unrecorded`); and that a consumed offer has a recorded coin (`Rows`). The last one makes the verdict
stable: no later transaction can settle an offer whose coin is gone. For shielded offers the predicate is
then exact, as it compares the hash of every output. For unshielded ones it only asks whether the outputs
exist, which is exact under `Sealed`: an output belongs to an intent that spends a coin of the offer, as
`marker-dedup.ts` assumes of ledger intents, and does not exist from the start. `OneTradeHolds` needs the
same of shielded intents and that every intent declares an output (`Paid`). Two offers that share a coin
and both read as consumed were executed by one transaction; then their markers overlap, and `TradeInv`
excludes it: no transaction settles both (`Apart`). While one was live the other was kept out of the book,
and let in later it has coins that no transaction recorded before it had spent. Coins born spent are the
exception, which the live set does not show: an offer all of whose coins were spent when it came in
(`Gone`) has no event left that would archive it as consumed, as `AwaitInv` says that a spend still to be
handled is the first of its coin. All three assume `~HashlessEvents`. `MCOfferIndex` has TLC check that both books satisfy the
hypotheses on intents.

A handler of the executor decides on all its writes at once and makes them one at a time, and the
process may stop between any two. `IInv` therefore speaks of the rows that the pending writes lead to
(`Ahead`) and of all they pass through (`Via`): the journal accepts each of them (`Accepting`), and
`Truth` says of each what it may claim, given what the relay of the job did. The rest says what is known
while something is awaited: a build (`BuildOK`, `BuildRows`), an operation of `terminalChains`
(`ChainOK`), a local recovery (`LocalOK`, `RetryOK`); that only the start-up meets a revert row that is
`PREPARED` or `REVERTED` (`RevertOK`); that a job which is not over has a record in memory or the
start-up has yet to come to it (`KeptOK`); and that two jobs that are not over share no offer
(`AliveApart`), across a restart too, when all claims of memory are gone. The lemma `Handler` reduces a
step of one job to what it does to that job; each action has its lemma, and the first part of `SwapJobsProofs` proves what
the loops of `markReverted`, `quarantineGroup` and their like write, row by row.

What the wallet gave is a second matter. `WalletInv` says of every row the pending writes pass through
that a contribution the wallet has not got back has a live row, its own or that of its final form
(`Accounted`), that a `REVERTED` row has given back what it covers (`Returned`), and that a live row
without an artifact, which is what a crash during the wallet call leaves, is the last one written, with
none `APPLIED` beside it once it is quarantined (`BareOK`). The last part is what makes the other two
inductive: local recovery treats a quarantined row without an artifact as one that gave nothing.
`VerdictTrue` follows, since a settlement row is terminal only when no other row is live
(`TerminalLast`).

`StockInv` ties the claims of memory to the journal. `#releaseOffers` deletes by offer hash, not by
owner, so a late release could free the offers of another job. It never does: whoever is about to
release is still an owner in the journal (`AliveApart` applies), or its job is over in memory and in the
stock (`DoneApart`), and only one place releases it.

`TriesInv` relates the ghost count of revert calls to the journal. Once a call was made for an artifact,
its own row, or that of a recovery which covers it, has left the states in which such a call is begun
(`Beyond`), and no accepted write brings it back. A call under way is therefore the first for its
artifacts (`FlightOK`). For local recovery this needs that its targets are disjoint and do not depend on
the recovery rows themselves (`TargetsApart`, `TargetsAlike`): a recovery that starts has no ambiguous
row, hence no artifact with a call behind it (`StartsFresh`). The call of `revertWallet` alone may be a
second one, of a job whose receipt says that the relay refused it.

The two properties of the mirror speak of moments when nothing is on its way; what makes them true
happens earlier, while a snapshot is read page by page and events arrive. `MirrorInv` follows the removal
of an offer instead. `Control` says which tasks may be in the queue together, where the running one may
wait, and what the solver knows of its link. On top of it, `StreamInv` says that the node announces an
offer before its end and that nothing overtakes on an unbroken wire (`Ordered`). `BootInv` says that the
startup's snapshot lacks no removal that is neither buffered, nor in the batch being drained, nor on its
way. `SyncInv` says the same of a mirror that is `Settled`, current with no resynchronisation running or
with an install of this generation in the queue, and of the tasks behind a snapshot: an `indexed` event
there that brings an offer back is followed by its removal. A resynchronisation that is `due` again promises
nothing, which is why the code repeats it. `DrainInv` ties the ghost `overdue` to the events that will be
applied before the mirror is called current. That an interrupted or overflowed snapshot promises nothing
either is what lets one invariant cover every failure: the conditions of each part (`Live`, `Bootable`,
`Settled`) are those under which the code goes on.

The refinement of the gate turns on what a retry says. `Says` gives, from the inputs of a block and the
rows committed before it alone, which event each input announces; `RowInv` shows that the rows a
transaction sees are those its inputs so far have made, so every attempt says the same, under other row
ids. `AttemptInv` then has the buffer hold what the first `m` inputs of the open block announce, for some
`m` no less than what the current attempt has run: an attempt repeats what an earlier one left, and
`emitAppEvent` drops it, or is ahead of all of them, and it is kept. A restart sets `m` back to none. At the
commit both the log and the buffer have the whole block, which is `HeldInv`: what the buffer has of a
committed block is what the log has of it, all or, after a restart, nothing, and for each offer in the same
order. A poll therefore releases whole blocks, each later than all published (`OrderInv`), and
`StepImplements` maps `Commit` to the feed's `Commit`, a poll to its `Deliver` and every other step to a
stutter. `DistinctInputs` says that a block carries an offer once and at most one blob that does not parse.
Without it the theorem is false, because the second announcement is dropped as a repetition
(`RejectionsKeptApart` in section 4); `MCEventGate` has TLC check that its blocks satisfy it. TLC checked
`GateInv` before it was proved.

Only model-checked:

* `EveryQuoteHonoured` and `QuotesAreBest` of the ladder: what a recursive function over sets of offers
  computes for every input.
* Every liveness property, which is out of the prover's reach with `ENABLED`.

## 6. Not modelled, and what could come next

* Sponsorship and validation at `POST /v1/offers`: one answer around the ledger library and the
  batcher. The transition of `OfferIndex` repeats every check that decides about an offer.
* Price feed, price lookup, prices and market data, sync health, status server: shown beside the
  exchange; nothing modelled acts on them. The partial failure of a feed cycle is the one listed hazard
  of theirs (`price-feed/src/cycle.ts:129`).
* NIGHT bootstrap and batcher adapters: one-time funding and a third-party library.
* Fee sizing and amount parsing beside the ladder: numbers of the ledger library.
* Front ends, documentation site, deployment and end-to-end scripts, generated queries of the read API.

The last two groups hold most of the repository's lines. Candidates for more: the composition of
`RelayClient` with `SwapJobs` (the frames of a socket that drops while a job is reverted).
