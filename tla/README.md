# Zoltar and Statoblast in TLA+

Specifications of this repository: the contracts of the forkable oracle
(*Zoltar*) and of the prediction market built on it (*Augur Statoblast*), and
the two long-running programs beside them whose failures cost money or truth:
the liquidator bot and the indexer *augurScan* with its live feed. The modules
are translated from the source, Solidity under `src/solidity/contracts` and
TypeScript under `src/bots/liquidator` and `src/augurScan`; operators keep the
names of the functions they model. TLC checks small instances, TLAPS proves all
but a few of the safety properties for every value of the constants. `PROJECT.json` maps
each definition to the lines it stands for and lists the hazards the properties
are aimed at.

Run a check with `tlc -config X.cfg MCx.tla`, a proof with `tlapm XProofs.tla`.

## 1. Inventory

The system has two layers on chain, and programs around them.

| Component | State | Operations | Hard behaviour | Correct when |
|---|---|---|---|---|
| **Zoltar** (`Zoltar.sol`, `ReputationToken.sol`, `ZoltarQuestionData.sol`) | universes (token, fork time and question), theoretical supplies and their snapshots, migration balances per account and universe, what each child has minted per account; per token: balances, supply, ceiling | `createQuestion`, `transfer`, `forkUniverse`, `burnRep`, `deployChild`, `addRepToMigrationBalance`, `splitMigrationRep` | repeated splits into one child, a child deployed late or by a split, burns on two kinds of token, a fork in a child of a fork | no child mints more than was burned for it, no legal split is refused, forks are final, registry and tokens agree |
| **Escalation game** (`EscalationGame*.sol`) | per outcome: balance, deposits; open principal per outcome and vault; REP escrow; start and activation; non-decision | deposit (preview, transfer, record), resolution by a cost curve, withdrawal with bonus and burn, residual sweep, own fork, export to children, carried proofs and nullifiers in children | two copies of the rules, two roundings of one curve, a fork before settlement, who takes the REP first | the escrow covers what is owed, a deposit is settled once, a result is final and is reached |
| **Attrition curve** (`EscalationGameCalculations.sol`, `EscalationGameProofVerifier.sol`) | none | logarithm, exponential, cost of a time, time of a cost | fixed-point series with range reduction | monotone, within bond and threshold, an inverse that is never early |
| **Truth auction** (`UniformPriceDualCapBatchAuction*.sol`) | a book of bids in ticks (an AVL tree with aggregates, cumulative sums and a Fenwick tree of refunds), the terms, the outcome, deferred refunds | `startAuction`, `submitBid`, `refundLosingBids`, `finalize`, `withdrawBids`, `withdrawPendingEthRefund` | two caps, rounding per bid, refunds before clearing, pushes that fail | both caps hold, price-time priority, ETH held = ETH owed, no dust |
| **Security pool** (`SecurityPool.sol`, `SecurityPoolUtils.sol`, `SecurityPoolLiquidationDelegate.sol`) | collateral, fee index and remainders, accrued fees, share supply; per vault: REP backing units, capacity, fees, bad debt | accrual, deposits, withdrawals, complete sets, redemptions, fees, liquidation, fork mode | lazily checkpointed fees, integer rates, oracle prices that go stale, liquidation shortfalls | ETH held = collateral + fees, nobody is diluted by another's call, nobody is locked in |
| **Security pool forker** (`SecurityPoolForker*.sol`) | per parent pool: REP and collateral at the fork, buckets of an own fork, children, auctions, what each child was sent | initiate a fork (foreign or own), claim, export and migrate vaults, child pools, start and settle the auction | many calls by many actors within a migration window, rounding shared by all of them | children together get what the parent had, in any order of calls |
| **Price coordinator** (`OpenOraclePriceCoordinator.sol`, liquidation approval registry) | the pending report and its sponsor, staged operations (at most four per report), approvals reserved and consumed | request a price, stage, settle by callback, recover, reject | a callback that fails, a snapshot stale when executed, reservations of operations that die | each staged operation ends exactly once; no approval is spent twice |
| **Share tokens** (`ShareToken.sol`) | balances per universe and outcome, amounts migrated, locks | mint, burn, transfer, migrate to a child | migration of part of a balance, to several children | no child mints more of a share than its holder has in the parent |
| **Trading pair and router** | reserves, liquidity | swap, add and remove liquidity, flash complete sets | rounding, callback | the product never falls |
| **Open Oracle** (vendored) | reports, disputes | report, dispute, settle with callback | out of this repository's hands | as the coordinator uses it |
| **Liquidator bot** (`bots/liquidator`) | a journal of signed transactions and of staged operations, in memory and in a state file; the mode, the pause | a cycle: recover, expire, read the head, decide, sign, persist, check, submit, wait; the operator's pause and reconciliation | a crash between persisting, sending and seeing; a reorganisation; a private transaction that is silent until it is mined; a replacement from outside | whatever may still happen on chain is in the file, nothing overlaps, no priced transaction goes out twice, evidence ends a block |
| **Open-oracle arbitrager** (`bots/open-oracle-arbitrager`) | a journal of bundles and positions | as the liquidator's, with positions to unwind | as the liquidator's | as the liquidator's |
| **augurScan indexer** (`augurScan/src`) | blocks, logs, contracts, snapshots, cursors, checkpoint and lease in PostgreSQL | lease, seed, find the common ancestor, rewind, fetch logs and headers of a segment, commit blocks, refresh snapshots | a reorganisation between any two requests; a lease lost with its session; a crash in the middle of a segment; two replicas with different manifests; pruned logs | the rows are one chain with every log of a known contract, final blocks stay, the index catches up |
| **augurScan live events** (`live.ts`, `database.ts`, `browser`) | a table of events with sequence ids and its lower bound; cursors of connected pages, buffers | append, prune, poll by cohorts, stream, reconnect with a last id, reset | ids become visible out of order, a failed poll whose queries go on, pages that come back after pruning | each page gets every event once and in order or is told to start over, and none starves |
| **User interfaces, simulation, docs, scripts** | none of the protocol's | presentation, build | — | — |

How they interact: a pool asks the coordinator for a price and deploys one
escalation game, which holds REP of the pool's vaults and reads the fork state
of Zoltar. When a universe forks, the forker freezes its pools, splits their
REP through Zoltar's migration balances, creates child pools, moves vaults and
collateral, and sells REP of a child in a truth auction to replace collateral
that did not follow. Share tokens are minted by a pool and migrated by their
holders. On chain a transaction is atomic, so an action of the contract modules is one
whole external call; interleaving is the order in which accounts call, and what
the clock and the fork do in between. The programs off chain see the contracts
through a node: between any two of their requests the chain may grow or
reorganise. The indexer writes the events that the live feed passes on to the
pages; the bot reads the chain by itself.

## 2. Plan

1. *Zoltar and its proofs* — the root of all REP. **Done.**
2. *Attrition curve, escalation game, first proofs about it.* **Done.**
3. *Truth auction*, over the trees of its storage library. **Done.**
4. *Security pool*, up to and including the way out of a forked parent. **Done.**
5. *Price coordinator*, with the approval registry and the Open Oracle as the
   coordinator uses it. **Done.**
6. *Indexer*: the database under reorganisations, crashes and lost leases. **Done.**
7. *Live events*, refining the abstract feed `LiveFeed`. **Done.**
8. *Liquidator* with its proofs: the journal under crashes. **Done.**
9. `PoolFork`, composing parent, children, the forker and the auction's outcome:
   what the children get together is what the parent had. **Done**, up to the
   claims on the auction.
10. `ShareToken`: shares that migrate, composed with the children of `PoolFork`.
    **Done.**
11. `EscalationContinuation`: a child's game that carries the deposits of its
    parent's, with proofs as ideal membership tests, nullifiers, and the haircut
    after an auction.
12. `TradingPair`; the arbitrager's bundles over the liquidator's journal.
13. Proofs about the registry's sums, the escalation game's ledgers and claims, the
    coordinator, the indexer, the live feed's refinement. **Done** (section 5).
14. Proofs about the security pool. **Done** (section 5).
15. Proofs about `PoolFork` and its shares. **Done** (section 5).

## 3. Modules

`MC*` modules give the constants values that a `.cfg` cannot express. An
operator `MutX` stands beside `X` and is `X` with a plausible mistake; no
specification uses one. They exist to see each property fail.

### Zoltar

Universes are paths (`<<u, o>>` is the child of `u` for outcome `o`), where the
code hashes. `universes`, `universeSupply`, `childSupplySnapshot`,
`migrationBalance` and `childMigrated` are the registry's mappings;
`tokenSupply`, `tokenMax` and `balance` are the `ReputationToken`s. `_burnRep`
keeps the code's two branches: genesis REP moves to a burn address, a child's
REP is destroyed and lowers supply and ceiling. A split deploys missing
children, checks and adds credit per occurrence of an outcome in the list
(`copies`) and mints against the child's ceiling. Questions carry what a fork
asks of them: their existence, whether they ended, and which outcomes are well
formed. Allowances are left out: an account acts for itself.

### AttritionCurve

The two series, the range reductions and all divisions of the verifier as
recursive functions, with `SCALE`, the iteration limits and the length of the
curve as constants. `MCEscalationGame` instantiates it at a scale of its own.
`computeLnRatioScaled`, `computeIterativeAttritionCost` and
`computeTimeSinceStartFromAttritionCost` are used by the escalation game as they
are.

### EscalationGame

One game of one pool, from its deployment by the first deposit.
`depositToEscalationGame` is the whole call: the preview's clipping, the tie
rule, the move of REP, the record with *its* copy of the rules, non-decision.
`withdrawFromEscalationGame` covers winners (with bonus and burn, or the haircut
that the fork paid) and losers; `sweepResidualRepToSecurityPool`,
`forkZoltarWithOwnEscalationGame` and `initiateSecurityPoolFork`,
`claimForkedEscalationDeposits` and `migrateVaultWithUnresolvedEscalation` are
the other exits. The pool appears as the REP of its vaults, Zoltar as its fork time
and threshold, which other accounts move (`UniverseForks`, `UniverseBurns`).
Games that continue a parent's game are left to `EscalationContinuation`, and so
is `exportUnresolvedDeposit`, which no contract calls.

### AuctionStorage and Auction

`AuctionStorage` is the storage library. A node of the AVL tree is a record that
holds its children; node ids are left out. `insert`, `_decrease` and `_delete`
rebalance and refresh the totals of subtrees (`_update`) as the code does, and
`_compute` is the descent that clears, with `TakeTick` for one tick and its four
exits. Per tick, a sequence is the Fenwick tree of refunds. The operators are
recursive, so the module is for TLC only.

`Auction` is the contract over it. The book is a queue of bids per tick with the
cumulative sums the contract stores, `root`, `activeTickCount` and
`refundedBidPrefixTree` are its trees. Claims are computed by cumulative position
(`BidUsed`, `RepFilled`, `CapacityShare`), read from the trees, which finalization
leaves as they are. A push of ETH may fail whenever it likes
(`_payOrDeferRefund`). `WalkedClearing` is the reference: every tick from the
best price down to the reserve, none skipped.

### SecurityPool

The pool's storage is a record; accrual, checkpoint, conversion and
capacity changes are functions on it, composed by the handlers in the order the
code calls them. `AccrualIsPaid` is the checked subtraction at the start of every
handler that accrues. Liquidation follows `SecurityPoolLiquidationDelegate`: the
quote, the debt the receiver takes (`DebtTaken`), the award, the write-off
(`WrittenOff`), storage afterwards (`Liquidated`) and the conditions on both sides
(`BothSidesStand`). The oracle is a price that is fresh or stale and changes
at any time; the game is the REP it holds. `initiateSecurityPoolFork` and `migrateVault` are the parent's half of
the forker: REP by units, the last vault takes the rest, collateral by the
rounded-up cumulative quota.

### ShareToken

`token` holds the balances of the forked pool (`source`) and of its children, per
outcome and account, what was materialized in each child (`migrated`) and the
locks. A migration to several children mints in one after the other, and each
mint calls the holder back: `call` is a migration that waits in its callback.
Meanwhile the holder or whoever he calls may transfer, redeem and migrate; the
call then goes on with the balance it read at its start (`resumeMigration`). One
such call waits at a time, and calls made from within one have one target.

A forked pool may itself be the child of an earlier fork, whose holders materialize
their shares in it when they like, even after its own fork. Those shares are `late`
until then: they change hands (`transferLate`) and arrive in the source
(`migrateIntoSource`) at any time, in the middle of a migration out of it too. All
earlier generations are one such stock, as deep as they go; that a holder who has
materialized part of his shares can send none of the rest is left out, which allows
more.

### PoolFork

It extends `ShareToken`: shares of the parent become claims on its children.

A frozen `parent`, what the forker recorded of it (`forkData`), and `children`,
each one record for its pool, the REP of its game, its entry in the forker's
mappings and its auction. `migrateVault`, `startTruthAuction`,
`finalizeTruthAuction` and `claimAuctionProceeds` are the whole calls, with the
REP splits, sweeps, transfers and fee checkpoints they make on the way. The
abstractions: of the auction only the outcome is kept, ETH raised and REP sold
with two winners who share them (`Outcomes`, `FirstRep`; the bids are those of
`Auction`); of the fee index only which vaults are behind it (`stale`); of time
only whether the migration window is open; of the oracle the price that it
reports at any time. `ClaimInParent` is what another pool's auction still owes
a vault of this parent, and arrives after the fork. An own fork differs in its
REP bucket and in `claimForkedEscalationDeposits`, which takes from the child's
game while the window is open. A child's `shareSupply`, which divides what a share
is paid, is copied from the parent, not counted in the child's token; `migrate`
may create the child, `redeemShares` and `redeemCompleteSet` burn and pay.
`sameQuestion` says that the fork decides the pool's own question, so that the
outcome of each child is its own; `decided` is the outcome an earlier fork has
fixed, which children inherit if this fork is on another question
(`getQuestionOutcome`). That an open child resolves its question by a game of its
own is left out here: it is `EscalationGame`, and redemption after it is
`SecurityPool`.

### PriceCoordinator

What one operation does to the indexes, the registry and the vaults is a
function on the record `book`, because the callback runs a whole batch of them
in one step; `executeStagedOperation`, `openOracleCallback`, rejection, recovery
and expiry compose `Executed` and `Failed` in the order of the code. The pool is
two numbers per vault; whether a call into it reverts, and how much debt moves, is
free (`Fate`). The oracle settles a report at any time after its settlement time,
as a price, a rejection, or a callback that reverts and leaves the report to
`recoverSettledPendingReport`. `live` is both `isActiveStagedOperation` and a
non-zero operator. Deposits stand for what an owner may do to a vault between
staging and execution.

### Indexer

One chain, named by its blocks; a block determines everything before it, and its
logs are part of it. `chain` is the node's current branch: it is extended
and reorganised at any moment (`Extend`, `Reorganise`). A reorganisation replaces, drops or
only adds blocks, up to the greatest height so far (`top`), and what it puts in may begin with
blocks that an earlier one abandoned: the chain may flip to a branch and back.
A request for a block the node no longer has ends the poll. A replica is a program counter
with the local variables of `poll`, and **one request to the node or one
database transaction is one step**: taking the lease, seeding and replaying a
manifest that gained a contract, `#reconcileReorg` with its search floor and the
rewind, `getLogs` (which may find the logs pruned), the headers of a segment in
parallel, the commit of each block with its checks, the cursors with the last
block, and the snapshots read at the head. Leases are advisory locks: they
vanish with the session (`SessionDies`), after which a transaction of the old
holder fails but its requests do not. `Crash` forgets the local variables,
`RequestFails` ends a poll. Three history variables record what happens outside the
program's reach and properties must exclude: `torn`, headers of two
branches in one segment (section 6); `deep`, a reorganisation below the depth the
operator configured as final; and `back`, where the replicas were when abandoned
blocks returned. `SnapshotsOfTheirBlock` excludes a return between the read of state and
its confirmation ("confirm"), `LogsComplete` one between the logs of a range and the hash that
closes it ("close") or in a discovery ("index", whose two hashes and query are one step
here); returns at any other time change nothing (section 6).

### LiveEvents and LiveFeed

`LiveFeed` is what a page is promised: `published` events in order, and per page
either the next one or a restart. `LiveEvents` is the code: writers that take
the row lock of `live_event_state`, insert, and commit or roll back; pruning
with its bound; the bus, which groups the cursors of all subscribers, serves
the newest and a rotating choice of `MAX_CURSOR_COHORTS_PER_POLL`, and leaves
stray jobs behind when one of its queries fails; each stream with its buffer up
to the high-water mark; pages that connect with an initial cursor, disconnect
and return with the last id they saw; a restart of the server. The refinement
maps a page's place in the feed to what its stream has delivered (`through`) and a reset to
`restarted`; polls, buffers, stray jobs and locks are stutters.

### Liquidator

`journal` is the list of intents in memory, `disk` the state file written by
`saveDurableState`. A cycle goes through the steps `idle`, `save`, `recover`,
`nonce`, `heads`, `staged`, `ancestry`, `search`, `history`, `anchor`, `decide`, `sign`,
`check`, `send`, `wait` in the
order of the code, one request or one write per step, because the process may
stop between any two; a restart reads the file and nothing else. The chain (a
nonce per account, receipts, a head that may go back by `MaxDepth`), the public
mempool and the private relay are external: a transaction handed over may be
mined at any later block up to its last valid one, at once, never, or again after a reorganisation. The
operator pauses, resumes, and reconciles an intent with the hash of a
replacement he signed elsewhere. An intent either redeems, which is independent of
prices and so may be handed over again, or liquidates, which is priced and
may leave a staged operation for the coordinator to execute later. Whether it goes to a
relay, with a last block, or to the mempool is the operator's setting, for every intent.

How the outcome of a staged operation is searched for is in the model, because a bot may
miss it. A search reads a head, looks at the last `logLookbackBlocks` before it, notes
what it skipped in `nextHistoricalBlock`, and, where `historicalLogRecovery` is set, goes
back through that gap one window a cycle. What it found it keeps as a candidate until it
is final. Last of all it asks for the hash of the block it searched up to, its
anchor, and the next cycle starts over when that block is no longer on the chain.
The blocks of a number are told apart by `branch`; `stale` is history: the searches during
which blocks were replaced after the head was read and before the anchor's hash was.
`LiquidatorProofs` extends this module.

## 4. Runs

Contracts may come to rest — all input spent, nothing left to claim — so the
configurations turn deadlock checking off. Amounts are chosen indivisible by
the divisors so that every floor loses something.

| Run | What it asks | Bounds, and why they are enough |
|---|---|---|
| `Zoltar` | Can any order of forking, burning, deploying and splitting inflate a child, refuse a legal split or burn (`HoldersNeverRefused`), rewrite a fork or lose credit (`RecordsAreFinal`), or let registry and token drift? | Three generations (genesis, two children, a grandchild), two accounts with uneven REP plus the burn address, one question, repeated outcomes up to twice. Supply 16 over a threshold divisor of 3 and burn divisor of 5 leaves remainders everywhere. 102,867 states. |
| `EscalationGame` | Do four ledgers agree (`EscrowReconciles`), can every winner be paid in any order (`ClaimsFunded`), is principal settled once (`ExportedOnce`), are previews honest (`PreviewMatchesRecord`), is a result final and does a game that paid never fork (`ResultIsTerminal`), and does each game end (`EventuallyClosed`)? Is the curve beside it monotone, within its band, and its inverse never early (`CurveServesTheGame`)? | The curve: four bonds, five thresholds, every median between them, every second of 40, at a scale of 1000; ratios from 1.14 to 30 cover zero to four halvings. The game: two vaults, three deposits (a tie, its break and one more), time past the end of the curve, thresholds of the fork below and above the stakes. 1.1 million states. |
| `Auction` | Are both caps (`CapsRespected`), priority (`PriorityRespected`), ETH and dust (`LiabilitiesReconcile`) accounted for under early refunds and any order of claims, and do the trees answer what the list of bids would (`TreesServeTheBook`)? | Two bidders, three ticks, four bids: enough for a winning, a clearing, a losing tick and two bids at the clearing one, with terms that fill and do not fill the caps. For the trees a third bidder with five equal bids over six prices and refunds between them: single and double rotations on insertion and on removal, a node with two children removed, ticks that come back, five bids on one tick. 550,009 states. |
| `SecurityPool` | Are fees funded and ETH covered over time (`PoolSolvent`, `PoolTotals`), is anyone diluted by another's call (`SetsNeverDiluted`, `VaultsNeverDiluted`), and does each migrant find its collateral (`MigrationNeverRefused`)? | Two vaults, one trader, two children, two ticks of accrual, so that a second accrual meets remainders of the first and a vault that skipped a checkpoint. One price: liquidations are of vaults that accrual or withdrawals left below the ratio; price crashes are not in the instance. |
| `PoolFork` | Do the children get what the parent had (`CollateralConserved`), is each unit of REP, capacity and bad debt held by one position (`PositionsReconcile`), does sold capacity earn fees once (`SoldCapacityEarnsFees`), does the pool hold what was sold and leave migrants something (`BackingHolds`), and is nothing that is due refused but by the price (`OnlyThePriceRefuses`)? Does every child stay able to pay all shares, whoever migrates, trades or redeems them when (`SharesCovered`)? | Six parents: without a game; a foreign fork with a game, bad debt and winnings not yet claimed; an own fork; units that do not match REP (8 over 3), one of them nobody's; one with shares of two outcomes held by two accounts, one of which changes hands, and whose question the fork decides; one in which an earlier fork decided the question, losing shares outnumber the supply, and a share of each outcome is late. Two vaults, two children of which one is followed through its auction (`Auctioned`), every outcome of it and every split between two winners, prices that do and do not support the collateral, a haircut divisor of 3. 1.5 million states. |
| `PriceCoordinator` | Does every operation end once, on the terms it was staged under (`SettledOnceOnTerms`), with indexes exact (`IndexesAreExact`) and quotas returned (`ReservationsReconcile`), however a report ends? | Two vaults; one stages, for itself and by an approval of the other that runs out while a report is late. Three operations over a batch of two, so one overflows; four instants put settlement before, at and after expiry. A quota of 3 reserved by twos, of which less may be spent. 2.8 million states. |
| `Indexer` | Whatever the chain, the node, the lease and the process do: are the rows one chain (also `AuditClean`) with all its logs (`LogsComplete`), do final blocks stay (`FinalizedIsFinal`), are snapshots of the block they are filed under (`SnapshotsOfTheirBlock`), does no guard of the database ever fire (`AuditClean`), and does the index catch up (`EventuallyCaughtUp`)? | Two replicas, the newer with a contract more, a child contract discovered on the way; heights to 2 above genesis, two reorganisations, one fault, one pruned block, of which no more than two together (`MaxTrouble`), segments of two blocks, a confirmation depth of one. 737,421 states; without that bound there are more than 18 million. A reorganisation reaches below, at and above the final block, lowers the head, or brings an abandoned block back while a replica is anywhere in its poll; a segment has a first and a last header; a replay starts below the checkpoint. |
| `LiveEvents` | Does the stream implement the feed (`ImplementsFeed`), and does every page get every event in the end (`EventuallyFed`)? | Two writers (an id drawn and not committed, while another commits), three pages over two cohorts a poll, so that one must wait for the rotation; page size and buffer of one; two events, one pruning, one lost connection, failed query or restart. About a million states. |
| `Liquidator` | Does the state file cover what may still happen on chain (`JournalCoversChain`), does nothing overlap (`OneAtATime`), is no priced transaction handed over twice (`NeverRebroadcast`), and is the bot unblocked by evidence, the outcome of what it queued included, however many searches that takes (`EventuallyUnblocked`)? | Two transactions, one that redeems and one that stages; five blocks, a validity of one, a finality of two, reorganisations of depth one, a recovery that reads one block late, one fault of any kind: a reorganisation, a restart, a failed request, a pause or a replacement by the operator. A transaction expires, is mined in its last block, reorganised out and mined again while its expiry is being judged. A search covers two blocks, so that an outcome falls out of it while the bot is paused or stopped; one setting goes back for it and the other does not. 475,620 states. |
| `SecurityPoolAccrual`, `IndexerRace`, `LiquidatorReceipt` | What a document or comment says and the code does not do; section 6. | Found within the bounds above; `IndexerRace` takes heights to 3 and a single replica without faults. |

The type invariant of a module is a conjunct of its first safety property
(`HoldersNeverRefused`, `ClaimsFunded`, `LiabilitiesReconcile`, `AuditClean`,
`ReservationsReconcile`, ...).

Bounds by name: `MaxDeposits`, `MaxTime`, `MaxBids(_)`, `MaxCollateral`, `MaxOps`,
`MaxUnits` and `MaxCopies` cap counters of the contracts, `MaxHead`, `MaxReorgs`,
`MaxDepth`, `MaxPruned`, `MaxTx`, `MaxId`, `MaxDrops` and `MaxFaults` what chain, network and
processes do; `Auctioned` names the children whose auction is followed; `Operator`, `Depositor` and `CapacityAdded`
restrict who stages and who deposits how; `Settings` and `logLookbackBlocks` are the
liquidator's configuration; the constants `Amount`, `RepAmount`, `EthAmount`,
`ShareAmount`, `HealthFactor`, `Offers(_)`, `Terms`, `Parents` (each with the
`traders` who act on its shares, the outcomes `traded` and the oracle's `prices`) and
`ForkThresholds` are the inputs tried. Symmetry is used for bidders and,
where vaults begin alike, for vaults, always in runs without liveness.

What they show, beyond that nothing fails: with the reserve price rounded up, of
the four ways clearing can end only the ETH cap is ever taken
(`CapsRespected`), which is why a found tick never falls as bids arrive and
early refunds are safe (`PriorityRespected`).

Fairness, and what in the code justifies it:

- `EscalationGame`: weak fairness of `Tick` and nothing else. Block time advances
  whatever the accounts do, and no account can be relied on to call anything;
  `EventuallyClosed` therefore says that time alone ends a game.
- `Indexer`: weak fairness of each replica's next step: `run` polls in a loop
  that catches errors, waits and polls again. The chain need not do anything;
  what it can do is bounded, so `EventuallyCaughtUp` says the index reaches the
  head once the chain is quiet. A chain that rests below what was indexed is the
  exception: every poll asks for a block that is not there and fails, until the chain has
  grown again. The cursors are at the head then unless the chain lost the last block of
  a segment, with which they would have moved.
- `LiveEvents`: weak fairness of a poll (a timer rearmed after every poll,
  failed or not), of the answer to the query for a first cursor, and of each page
  reading its stream and connecting again, as an EventSource does by itself.
  A writer is not obliged to write.
- `Liquidator`: weak fairness of the bot's cycle (a loop with a timer), of the
  chain mining, and of an operator who looks at a paused bot: he resumes it, and
  reconciles an intent when he has evidence. Nothing obliges a relay or a miner
  to include a transaction.

The other modules state no liveness: every step there is a voluntary call.

## 5. Proofs

Each proof module extends the module it is about and proves, for any values of the
constants that satisfy its named `ASSUME`s, an inductive invariant and from it the
properties of the run. TLC checked each invariant on the instance of the run before
it was proved, and evaluates the assumptions in every run.

`SumTheorems` holds what the others need of finite sets and of division: induction over a finite
set, stated about a family of sets instead of a predicate, because the provers
cannot instantiate a theorem that takes an operator; from it that a sum over a
finite set exists, is a natural number, splits at an element, changes by what one
of its terms changes, and bounds its terms; how `Cardinality` and `Min` follow; and
what products and quotients rounded down do to an order.

`ZoltarProofs`:

- `Invariance`: `IInv == TypeOK /\ Lineage /\ Untouched /\ Coherent /\ WithinCredit`
  is inductive. `Lineage`: a deployed child's parent forked. `Untouched`: a
  universe not yet deployed has no REP, supply, fork, or credit, which is what makes
  it harmless that deployment and `forkUniverse` assign instead of adding.
  `Coherent`: registry supply and token ceiling of a child are equal and at most
  the parent's snapshot. `WithinCredit` is the mint bound.
- from it `TypeCorrect`, `MintWithinCreditThm`, `SupplyCoherenceThm`, and the action
  properties `ForkIsFinalThm` and `CreditNeverLostThm`, together `RecordsAreFinalThm`.
- `SumInvariance` adds the sums: balances add up to the minted supply of a child
  (`Counted`), and the credit in a fork together with the REP still held never
  exceeds what the fork froze (`Room`). With it `HoldersNeverRefusedThm`: the
  subtraction a split makes can never be refused, for any finite set of accounts and
  genesis holders who own no more than the genesis supply.

`EscalationGameProofs`:

- `Invariance` (`LedgerTypes`, `ExportsFollowTheFork`, `ExportedHasNoPrincipal`,
  `DepositsArePositive`) gives `ExportedOnceThm`: after its totals leave, no deposit
  of a vault is consumed. A claim subtracts a positive amount from a principal that
  is a natural number, and an exported vault's is zero.
- `Ledgers` says that the escrow, the principals, the vault and the outcome totals are each the sum
  of the deposits not yet consumed; `EscrowReconcilesThm` follows. The types alone give
  `PreviewMatchesRecordThm`: what the preview accepts the record accepts.
- `Chains` says that the cumulative amount of a deposit continues the one before; that no
  two deposits of an outcome share a unit of it follows (`RangesTileThm`).
- `SettledMeansFinalThm`: once something was paid, the result can no longer change,
  because the cost of the curve at the activation time only rises. It is what
  `ResultIsTerminalThm` needs beside the guards.
- `Funds`: the game's REP is what it has not paid, non-decision means two outcomes
  at the threshold, and after a fork the bucket covers the deposits left.
  `ClaimsFundedThm` follows by arithmetic on the floors of the haircut: proportional
  parts of disjoint ranges add up to at most the whole.

Vaults are finite. The curve itself enters only through `CurveRisesAssumption`: costs are natural numbers
that do not fall with time. It is an assumption because the series use `^` and recursive functions,
which no backend expands; TLC evaluates it in the run, where `CurveServesTheGame`
checks the same of the curve at a finer scale.

`PriceCoordinatorProofs`: `CoordinatorInvariance` is `Clocks` (ids, times and
snapshots of the past), `Sound` of the `book` (the doubly linked list is a chain
without gaps through exactly the live operations, the batch is its staged part within
the slot, each quota is what its open reservations and its finished liquidations say)
and `Sponsored` (whose report is pending). Since a callback runs a batch in one
step, the lemmas are about `Executed` and `Failed` as functions on `book`, and a
second induction runs over the batch. From it `IndexesAreExactThm`,
`ReservationsReconcileThm` and the action property `SettledOnceOnTermsThm`.
Assumed are at least one debt amount, finitely many of them, and natural
numbers as terms of an approval.

`SecurityPoolProofs` proves all five properties of the run `SecurityPool`, two of them
about steps, for finite sets of vaults, traders and children. Handlers are
compositions of functions on the pool's storage, and so is the proof: each function
keeps `Sound`, and a handler is a sequence of such functions with the ETH and REP that
move. `EditSound` is the lemma most of them reduce to: an edit of one checkpointed vault
that moves the totals by as much. `IInv` consists of

- `World` and `ClockOf`: types of what is outside of storage, and an accrual that is never
  ahead of the clock or the fork;
- `Sound`, which is `Typed`, `Totals` (the totals beside the vaults are their sums) and
  `Fees`: the reserve times `PRICE_PRECISION`, with the remainder, is the sum of what
  the vaults are owed and have not been assigned. Accrual raises both sides by the same
  amount, a checkpoint lowers both, and capacity changes only on a vault that is at the
  index. After a fork the reserve may also be empty, with less than one wei owed to each
  vault;
- `EthSolvent` and `SharesCounted`: ETH is accounted for once, and the supply of
  complete sets is what the traders hold;
- `Forked`: the units of the parent are with a vault or a child; each child's REP times
  all units is at most its units times the parent's REP. Summed over the
  children, the REP allocated is within the parent's, and the collateral sent is within
  the rounded-up quota of that REP. `MigrationNeverRefusedThm` needs all of it.

The action properties follow from the same lemmas. A vault's claim is the floor of its
units' part of the REP (`PartFacts`), and no handler's rounding goes against the vaults
it does not touch. The loop of the power function is a recursive function: `PowerExists`
shows it well-founded, `PowerScaled` that its values stay within
`0..PRICE_PRECISION`, which is all the accounts need of it.

`PoolForkProofs` proves all six properties of the run `PoolFork`, for any finite sets of
vaults and children, any parents that satisfy `ForkAssumption` and any oracle prices.
`Invariance` is inductive and has four parts, because a step touches the storage of
one child, its place among the children, and the token, and each is about one of them:

- `Sound(p, ch)`, about one child as a record, with the parent `p` as a parameter. In each
  of the child's states it says what storage must be: nothing before it exists
  (`Unborn`); until it opens, vaults that hold exactly what migrated and REP that is what
  was split (`Closed`); in the auction a cap that keeps something back for the game and
  for the vaults that migrated (`CapSound`); afterwards `Open`. That is `Positioned`
  (vaults and unassigned position add up to the totals, and what winners may claim is
  within it), `FeesSound` (eligible and unassigned capacity, before and after an
  accrual) and `Worth`: REP times the rate of the auction covers all units, and a
  vault's units what it bought and what it migrated. Units and REP are rounded in
  different directions at every split, so `Worth` is stated as a product, and a redemption
  keeps it because it rounds the REP it pays down (`WorthLeft`). `Migrating` is the
  rounded product for the migration: summed over vaults it bounds the REP allocated.
- `Ledger`: parent, winners who have not claimed in it and children hold each unit,
  capacity and bad debt once, and the collateral sent is the cumulative quota rounded up.
- `TokenSound`: nothing is materialized beyond the source or before the lock, and a
  migration that waits in its callback has a locked source of at least the balance it
  read. It is why `resumeMigration` may go on with a balance read before the callback.
- `SharesDue`: for each child and outcome, shares in the child plus sources not yet
  materialized there, be they in the parent or still late, are the supply that the
  child divides by, and for outcomes that pay nothing at least that (`Owed`). Late
  shares that arrive raise the source above what a waiting migration read;
  `TokenSound` survives because it asks of that reading only that it is not above the
  source.

A handler is a composition of functions on a child, and each has its lemma
(`CheckpointFacts`, `RedeemSound`, `PayoutSound`, ...); `EditOne` and the lemmas on sums
carry a change of one child to the children together. That nothing due is refused
(`RefusesForThePriceOnly`) is then that the guards hold of every sound child, and the
auction's outcome is any that its caps allow. The assumption on `Parents` says only what a
pool is: types, totals that are the sums of what vaults hold, what winners of
an earlier auction have not claimed and what that auction left to nobody
(`abandoned`); as many shares of every outcome as its supply, those counted that are
late, except of outcomes an earlier fork has decided against, of which there may be
more, since only winning shares were redeemed; no collateral without shares. So a
parent may be of any generation: what the theorem proves of a child, `Claims(c, o)` at
least its supply and equal to it for what is owed, is what it assumes of a parent. TLC
evaluates the assumption on the parents of the run, one of which has abandoned
units and one late shares.

`AugurScanProofs` is about both halves of augurScan, one after the other.

The live events: `ImplementsFeedThm` is the refinement of `LiveFeed`: the initial
state maps to the initial state and each of the actions to a step of the feed or to a
stutter. Its invariant `LiveInv` says that ids are committed in the order they were drawn
(`Serialised`, the row lock), that what the bus knows as latest was published
(`Known`), that what a page has been delivered, its queue and its cursor are one
chain of the published events without a gap (`Fed`), and that a query's answer is what follows a
cursor that its clients had (`Asked`). `Fed` is the heart: a gap could come from a stray
job, a buffer that was full, pruning between query and answer, or an id that commits late.

The indexer: `IndexerInvariance` gives all four safety properties of the run,
`AuditCleanThm`, `LogsCompleteThm`, `FinalizedIsFinalThm` and
`SnapshotsOfTheirBlockThm`. It rests on one fact about the chain: a block that was seen
is on it or gone (`Gone`), and stays gone until a reorganisation brings it back, which
`back` remembers. So when two requests agree on a hash, and no such reorganisation fell
between them, it was the chain's all the while, whatever else happened. The chain may
lose and regain blocks everywhere else: `AuditCleanThm` and `FinalizedIsFinalThm` hold
however often it does. The invariant says

- `Linked`: the canonical rows are the ancestors of the checkpoint, down to the
  start, and no cursor is outside of them;
- `Settled`: finalized rows are deeper than any reorganisation that is not `deep`,
  and a snapshot is of its block unless blocks came back while one was confirmed
  (`Restored`);
- `Logged`: a discovery lies in the rows, a contract has no logs in the rows before it,
  every log row is of a canonical block whose creations are tracked since then, and,
  unless logs may be of two branches (`Mixed`: `torn`, or blocks came back before the hash that
  closes a range), no log of a tracked contract is missing;
- `InHand` and `Collected`: what the holder of the lease has read fits these rows, or its
  anchor is `Gone`, which it finds out before it commits. They ask nothing of a replica
  without the lease: it never commits and gives up what it has.

`Mixed` excuses the last part of `Logged` only: the rows stay linked even then.

`LiquidatorProofs` proves the three safety properties of the run
(`JournalIsComplete`, `RecoveryBlocksExecution`, `PricedIntentsGoOutOnce`), which need
each other, and more, in one inductive invariant `IInv`:

- `ChainInv`: the head is within `MaxDepth` of its peak, a private transaction is
  mined by its last block, no nonce is spent by both bot and operator.
- `ReadInv`: the block at which a recovery found no receipt is at most `Drift`
  blocks old, and if the transaction was mined since, then in a block that could
  still be replaced at that time. This makes an expiry safe although it is
  judged some steps after the search.
- `JournalInv`: memory and file agree except between a change and its save, and
  both cover what is outstanding.
- `CurrentInv`: the transaction in hand is in the journal, unless the operator
  has replaced it, and was not handed over before its one submission.
- `SingleInv` and `NeverRebroadcast`: the journal has at most one entry, and none
  when the bot decides or signs.
- `SearchInv`: an outcome that a search holds is the operation's own, or of a block that
  was replaced since, or the operation has yet to be settled there again; and which
  operation a search is about.

The proof uses `MaxDepth + Drift <= PRIVATE_INTENT_FINALITY_BLOCKS`, a named
assumption of `Liquidator`. It is tight: with a drift one larger TLC finds an
intent expired that is then mined.

Attempts that failed corrected the models and the properties.
The sums of `SecurityPool`, `PoolFork` and `ShareToken` were folds over operators, which no
prover takes, and are now over functions; the power loop takes a tuple; vaults, traders and
children are assumed finite, as storage is. The totals of a `PoolFork` parent were
not tied to its vaults; they now are, which takes the position that an auction of the
parent itself may have left to nobody (`abandoned`).
`SettledOnceOnTerms` first compared a result with the vault before the callback and was not
inductive: earlier operations of the same batch may have changed that vault, as the code
allows, and it now says so. A `CASE` of the coordinator's `Executed` had two
overlapping arms, and `LiveEvents` once read a queue outside its domain; both are
mended. The rewind and the store of the indexer were given operators for what they do to
one cursor (`Recalled`, `Advanced`), and its headers for one more of them
(`WithHeader`). Sorted pages are described by what they are (`InOrder`) instead of by a sorting operator, which
the provers cannot expand.

Model-checked only:

- liveness (`EventuallyClosed`, `EventuallyCaughtUp`, `EventuallyFed`,
  `EventuallyUnblocked`): `ENABLED` and fairness are beyond the provers;
- everything about the recursive operators: the curve (`CurveServesTheGame`) and
  the auction with its trees (`CapsRespected`, `LiabilitiesReconcile`,
  `PriorityRespected`, `TreesServeTheBook`);
- how far the retention of the power loop is from an exact power: what a recursive
  definition computes for every input is an induction the provers cannot do.

That accrual is always paid is not among the theorems, since it does not hold
(`SecurityPoolAccrual` below): those about the pool speak of the handlers that go through.

## 6. Where code and documents disagree

Each is a run whose property is what the text says, and which TLC refutes.

- `SecurityPoolAccrual`: redemptions can take collateral that fee remainders
  count on (`SecurityPool.sol:306` and `208`), after which accrual reverts. Needs a
  collateral of few wei.
- `IndexerRace`: a reorganisation between two header requests of one segment
  (`augurScan/src/indexer.ts:1023`) lets a block be committed without its logs,
  which no later poll fetches; `augurScan/README.md:92` and `:104` say every log
  of a known contract is indexed. `LogsComplete` of the run `Indexer` excludes
  these segments (`torn`) and, as described below, a flip to another branch and back.
- `LiquidatorReceipt`: a receipt that is final and a success but lacks the
  expected log throws before the intent leaves the journal
  (`recovery.ts:152`), at every cycle, and reconciliation refuses the original
  hash; `bots/liquidator/README.md:376` says that the original receipt ends the
  block. `EventuallyUnblocked` covers the other ends of a transaction, with the two
  exceptions below.

Two ways in which the bot never finds an outcome that is final on chain are
excluded by `EventuallyUnblocked`, which shows that there is no third. With
`historicalLogRecovery` off, the default (`settings.ts:316`), blocks that fell out of
the window while the bot was stopped or paused are noted as a gap
(`recovery.ts:297-303`) and never searched, and the bot stays blocked until the operator
turns it on (`Unreachable`). And the anchor's hash is read after the search
(`recovery.ts:306`): when a reorganisation falls between, the hash vouches for blocks
that were not searched, and an outcome in them is found by no later search (`stale`).

The indexer, too, trusts a hash that is the same before and after: `commitCanonicalRead`
(`indexer-runtime.ts:430`) and `queryCanonicalLogRange` (`362-372`). If the chain flips to
another branch before state or logs are read by number and back to the first before the
hash is confirmed, balances of the other branch are filed under the block, or, where that branch
had no logs at that height, the block is stored without its own (a log of another block is noticed,
a missing one is not), and no later poll repairs it. Without the exclusions of `back`, TLC
finds both within the bounds of the run `Indexer`. No document claims otherwise, so there is no
run for it.

Five more were met in modelling and are noted without a run. An auction may clear
at a price at which the whole raise buys less than the smallest unit of REP; it
then takes the ETH and sells capacity without REP, which
`SecurityPoolForkerVaultMigrationDelegate.sol:62` leaves out of fee
eligibility. Once fees accrue, the winner's claim subtracts it from a total it never
entered (`SecurityPool.sol:785`) and reverts.
`docs/explanation/truth-auctions.html:88` leaves such capacity out "because no
bidder has an economic fee entitlement"; here a bidder paid for it.
`SoldCapacityEarnsFees` and `OnlyThePriceRefuses` exclude this outcome and no
other. After the end
date a strict leader may for seconds still not resolve the question
(`docs/explanation/statoblast.html:148`), because end date and cost are two
roundings of one curve; deposits are taken meanwhile. `start` accepts any
threshold above the bond (`docs/reference/contracts.html:577`), but within two
parts in a million of it the logarithm is zero and the deadline divides by it.
And a withdrawal is checked on an estimate one unit above what the vault keeps
(`docs/reference/invariants.html:737`). Last, a universe may fork again on the question
that made it (`Zoltar.sol:94-97`), and `initiateSecurityPoolFork` then takes a pool
whose outcome is fixed through a fork on its own question. A child that decides it
otherwise pays holders of shares that lost before and were never redeemed, of which there
may be more than its supply, so that the last of them are refused;
`docs/reference/invariants.html:936` says that every source claim keeps its collateral.
`SharesCovered` promises nothing to these holders (`Owed`).

## 7. Not modelled

On chain, for now: Merkle mountain ranges (a proof will be an ideal membership
test) and continuation games, the trading pair: see the plan. Of the share
token: approvals, metadata, the encoding of ids, the authorization of pools. Of a child pool, what `PoolFork` leaves out: the
entitlements of vaults with unresolved stakes, the game that resumes in it, and
ordinary deposits and complete sets after it opens, which are those of
`SecurityPool`. Also the sizing of oracle reports and the profitability of
disputes.

Of the liquidator: scanning and the choice of a candidate, market evidence
beyond whether it allows a transaction, a save that
fails, changes of signer, profile or mode while running. That a relay honours the last block
of a private transaction is an assumption about the relay. Of the indexer: several
providers and their failover, receipts and decoding, the search for a
contract's first block, Uniswap filters, projections and the API. The arbitrager
keeps a journal of the same shape as the liquidator's, over bundles and
positions; it is in the plan.

Left out for good: factories (their arithmetic appears as
constants and assumptions), the vendored oracle's internals, interfaces,
documentation and build scripts, labels and encodings of questions, token
allowances, gas, and 256-bit overflow, which Solidity 0.8 turns into a revert
far above any amount that exists.
