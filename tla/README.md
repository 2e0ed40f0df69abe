# TLA+ models of the kinetic risk ontology

The services of this repository, modelled in TLA+, checked with TLC on small
instances and proved about with TLAPS for every instance. The models are
translated from the code under `src/`; `PROJECT.json` names, for every definition,
the lines it stands for.

Abbreviations for source files: **KR** `services/kinetic-risk/src/kro_kinetic_risk/__init__.py`,
**CC** `…/kro_chain_collector/…`, **PC** `…/kro_positions_collector/…`,
**MC** `…/kro_market_collector/__init__.py`, **CUR** `…/kro_market_collector/curation.py`,
**ER** `…/kro_entity_resolution/…`, **OL** `…/kro_ontology_loader/…`,
**HL** `apps/honesty-layer/src/kro_honesty/__init__.py`,
**DB** and **BUS** `libs/kro_common/src/kro_common/db.py` and `bus.py`.

Contents: [1 Inventory](#1-inventory) · [2 The modules](#2-the-modules) ·
[3 The runs](#3-the-runs) · [4 Fairness](#4-fairness) · [5 The proofs](#5-the-proofs) ·
[6 Where code and documents disagree](#6-where-code-and-documents-disagree) ·
[7 Not modelled](#7-not-modelled) · [8 Plan](#8-plan) · [9 Running](#9-running)

## 1 Inventory

Seven asyncio processes share a TimescaleDB; three of them also share a Redpanda bus.
Nobody calls anybody: a process writes rows and messages that another one reads.

```
 Gamma, CLOB websocket ──> market-collector ──rows──> markets, market_ticks ──┐
                                      └──messages──> market.ticks ──┐         │
 trades feed, data API ──> positions-collector ──> market_fills, wallets ─────┤
                                      └──messages──> market.fills   │         │
 Polygon RPC ──────────> chain-collector ──rows──> chain_transfers ───────────┤
                                      └──messages──> chain.transfers┤         │
                                                                    v         v
                       kinetic_alerts <──────────────────── kinetic-risk   database
 OFAC list ────────────> entity-resolution ──> wallets.cluster_id, entities <─┤
                         honesty-layer ──> markets.curated, fills, wallets  <─┤
                         ontology-loader ──> Neo4j  <─────────────────────────┘
```

| component | state it keeps | operations | what is hard about it | what makes it correct |
|---|---|---|---|---|
| **kinetic-risk** (KR) | in memory: rolling series per market and flow key, market/cluster/address maps, last alert per pair; its place in the topics | `handle_market_tick`, `handle_chain_transfer`, `refresh_market_traders`, `evaluate`, `eval_loop`, `refresh_loop`, signal; `RollingSeries.add`, `rolling_buckets`, `lead_lag_confidence` | three tasks interleave at awaits; a dict is iterated across an await; the cooldown is armed before the alert exists; an exception drops the alerts collected so far; points are pruned in the order they arrive; a consumer without a commit starts at the end | a pair is let through again only a cooldown later, and after its earlier alert; an armed pair has its alert or an exception to blame; the maps agree; every evaluation ends; a series holds its window; every tick after the first commit is handled |
| **chain-collector** (CC) | position in memory and in a state file | `chain_loop`: poll the head, get logs, stamp, insert, send, upsert wallets, advance | crash between any two steps, a fork, a lagging or failing node, a torn state file, a transfer that cannot be serialised | nothing before the position is missing; the file is never ahead; rows are canonical and dated once; it catches up |
| **positions-collector** (PC) | `seen_hashes`, the wallets the refresh has to visit | `ingest_trade_feed`, `select_top_wallets`, `refresh_smart_wallets` | a hash is noted before the writes; a page is finite; several fills share a transaction; a clock stands in for a missing time | what `seen_hashes` suppresses has been handled; one row for a transaction; no announcement twice or without a row |
| **market-collector** (MC, CUR) | the websocket's target, the message in hand, the basket file | `sync_gamma_once`, `curation_loop`, `refresh_curated_for_ws`, `run_ws_loop`, insert and announcement of ticks | the basket is rebuilt in up to 26 transactions while other tasks and another process write and read the same rows; a message is stored at once and announced tick by tick | the basket is part of one selection; it follows the table; the target follows the basket; no tick is announced without its row |
| **honesty-layer** (HL) | none | `detect_wash_trades`, `recompute_smart_money`, `thin_market_gates` | it writes columns that other services write by other rules | thin markets leave the basket; a score means one thing |
| **entity-resolution** (ER) | none (cluster ids in the database) | `run_pipeline`: OFAC upserts, links, graph, gold set and F1, clustering, `persist_clusters` | ids are positions in a list, so each run gives them new meanings; the tables move between its statements; a loop that may not end | the clusters are the components of similarity whatever the order of the rows; the ids of one round agree; a row comes before its name; a round ends |
| **ontology-loader** (OL) | none (the graph) | `full_load` and its upserts | it reads a table at a time while others write; it pages by offset through a moving window; each `MATCH` drops rows from the rest of a statement | nothing in the graph stays without its properties; paging skips nothing that stays; an alert gets its links once they exist |
| **shared library** (DB, BUS) | pool, producer, consumer | upserts, inserts, `send`, `consume` | locks on rows in the order of a Python set; conflict clauses that keep or replace a column | an upsert never wipes another writer's column |
| configuration, logging, types, schema, dashboards, scripts | none | — | — | — |

The hazards of each, with the line where each one bites and the properties that would
catch it, are the list "hazards" of `PROJECT.json`. Those without a property say why
in a note: mostly because the code does what the hazard says, no text of the repository
denies it, and the property next to it makes it an exception that it names.

## 2 The modules

One module per component; one action per await of its loop. In every one of these
services a step that does not await cannot be interrupted by another task of the same
process, and everything that happens in the database between two awaits is one
transaction. So the grain of the actions is the await: what an await asked for, its
answer, and the code up to the next await are one action, and each may fail.
A failing call **may have had its effect** (the commit that loses its answer): every
`…Fails` action chooses between the state before and after.

| module | models | EXTENDS / instantiates |
|---|---|---|
| `KineticEngine` | KR: the three tasks, the maps, the cooldown, the alerts | – |
| `RollingSeries` | KR: one series and the comparison of two, as functions on sequences | – |
| `TickFeed` | one market's ticks: websocket (MC), table, bus, consumer and series (BUS, KR) | extends `RollingSeries` |
| `ChainCollector` | CC `chain_loop` | instantiates `TransferFeed` (`Feed!Spec` is the property `FeedSpec`) |
| `TransferFeed` | the abstract promise of the chain collector: at-least-once, stored before announced | – |
| `PositionsCollector` | PC | – |
| `MarketCuration` | MC and CUR without ticks, HL `thin_market_gates` as environment | – |
| `CoActivity` | ER: graph, similarity, union-find clustering, and the reference they are meant to compute | – |
| `EntityResolution` | ER `run_pipeline` | extends `CoActivity`, instantiates `RiskTables` (`Tables!TablesSpec` is the property `TablesSpec`) |
| `RiskTables` | the abstract promise on wallets, clusters and entities, whoever writes them | – |
| `OntologyLoader` | OL `full_load`, composed with every writer of the tables it reads | extends `RiskTables`: its environment is exactly that promise |
| `Iteration` | no code: lemmas about loops and counting that the proofs share | – |
| `MC…` | constants for TLC: ids, feeds, figures | the module of the same name |
| `…_proofs` | TLAPS theorems | the module of the same name |

`RiskTables` is where two components meet: `EntityResolution` is shown to implement it, and
`OntologyLoader` is checked and proved with `TablesNext` as what may happen between two of
its statements. What holds of the loader therefore holds beside every pipeline that
implements `RiskTables`, not only beside the one instance that a run could enumerate.

### KineticEngine

*State.* The variables are the fields of `KineticEngine` under the source's names in
camel case (`marketTraders` is `market_traders`, `addrToCluster` is `_addr_to_cluster`,
`lastAlertAt` is `last_alert_at`), the local state of the three tasks (`evalPC`, the
iterator of line 239 as `iterSize`, `consumed`, `todo`; `refreshPC`), the table
`alerts`, and the clock. A rolling series is the number of its 60 s buckets.

*Actions.* `HandleMarketTick` (KR 181-203) and `HandleChainTransfer` (205-234) fill
series. `StartEvaluation` … `EndClusters` are the loops of `evaluate` (236-317) with
each gate in its order; `EntityRiskReturns` and `EntityRiskFails` are the await of line
285, between arming the cooldown (273) and the composite gate (302). An alert has two times: `armed`
is the evaluation's `now`, which the cooldown compares (237, 269-273), and `at` is its `time` column,
the clock after the await (305); `run` is the process that emitted it. `InsertAlert` and
`InsertFails` are the loop at 391-402. `RefreshMarkets` and `RefreshClusters` are the two
halves of `refresh_market_traders` (149-179): the first clears and refills the dict that a
suspended `evaluate` may be iterating. CPython notices only a changed *size*:
`IterationBroken` is its `RuntimeError`; with an equal size the iterator goes on at its
position in the new table, and which of the new keys lie behind that position is a free
choice, so that a market may be met twice or skipped. `AtAwait` keeps the other tasks
out while `evaluate` runs without awaiting. `described` is a ghost: the market map that the cluster
map was last computed from, which lags behind when the second query of a refresh fails.

*Abstracted.* z-scores and correlation are chosen (also `None`), constrained only by the
number of buckets; entity weights are the four the code knows. The composite is computed
exactly, in integers scaled by 100000.

### ChainCollector and TransferFeed

*State.* The chain has at each height one of several `Variants` of a block; a fork
(`Reorg`) replaces any of the last `Depth` ones, by the constant `SAFE_REORG_DEPTH`. `pc`
is the await that `chain_loop` stands at; `file` is the state file, `None` when it is
missing or torn. Rows keep the block and the kind of time they were stamped with.

*Actions.* `PollHead` (CC 164-173), `FetchLogs` and `FetchNothing` (174-175, a null or
empty answer is falsy at 175), `Stamp` (176-196: the block's time, the wall clock when the
call raises, 1970 when the node answers null), `InsertTransfers`, `Send`, `UpsertWallets`,
`Advance` (223-226, truncates the file first), `CallFails` and `SendOversize` (the except
clause, 227-229), `Restart` (a death between any two actions, or inside the rewriting of
the file).

*Abstract specification.* `TransferFeed` knows the blocks handed on, what is stored and
announced, and when a position may move: only past blocks whose transfers are announced or
that are excused by an empty answer. `FeedSpec` maps `position` to `last`, `stored` to
the keys of `rows`, `content` to the readable logs of the present chain.

### PositionsCollector

*State.* `seen` is `seen_hashes`; `fills` the batch and `toSend` the part not sent;
`rows` is `market_fills` with its primary key (time, trade_id); `pnl`, `score` are wallet
columns; `top` the wallets the refresh has still to visit. The feed is external: `born`
numbers the entries as they are published, a page is the last `Window` of them. The time of a row is
0, the entry's own, or, when it cannot be read (PC 83), that of the process. An entry with neither
hash nor readable time is new in every poll and filed under a new second each time (PC 108): its
`KeyOf` stands for all of these ids, and one row for those that one process files.

*Actions.* `Fetch` (PC 144-166) takes the page and notes its hashes at once;
`InsertFills`, `Send`, `UpsertTakers` are lines 167-177; `IngestFails` is an exception in
any of the three; `SelectTop`, `RefreshValue`, `RefreshPositions` are lines 180-234 with
the conflict clause of DB 213-228 (`Coalesce`); `Restart` empties the memory.

### MarketCuration

*State.* `gamma` is what Gamma lists (external); `rows` the table with the columns the
decisions need, `curated` its column; `fetched`, `read`, `chosen` the locals of two of
the tasks across their awaits; `file` the ids in `curated_markets.json`; `target` the
state the websocket reads; `subscribed` what its connection carries.

*Actions.* `Fetch`/`Upsert`/`UpsertFails` are a Gamma sync with the conflict clause that
keeps `curated` (DB 63-118); `Select` (read, select, write the file), `Reset`, one `Mark`
per market and `CurationFails` are `curation_loop` (MC 403-425); `RefreshTarget` is MC
481-514; `Connect`/`Disconnect` the websocket (318-340); `GateThin` the honesty layer's
statement (HL 65-80). `Selections(t)` is `select_curated_markets` (CUR): the first `Limit`
of the geopolitical, liquid, open markets by (liquidity, 24 h volume), equals in any order.

### RollingSeries and TickFeed

*State.* A point of a series is its timestamp: which points are kept, counted and compared
depends on nothing else. `stored` are the times of rows, `ticks` is the topic; `position`,
`busy` and `committed` are the consumer's (`busy`: the message is handed out and not
committed, as `consume` commits when the next one is asked for); `prob` is the series.

*Actions.* `Receive`, `InsertTicks`, `SendTick` (MC 343-391): a message of one or two ticks of
any time is stored in one transaction and announced one by one; `Disconnect` between any two
of them is the server, the time budget, an exception or a restart. `HandleTick`, `Commit`
(BUS 88-92, KR 181-203); `EngineDies` empties the memory and goes back to the last commit,
or, if the group never committed, on to the end of the topic (`auto_offset_reset` is
"latest").

*Functions.* `Prune` and `Add` are KR 52-61, `SeriesLen` the length of `rolling_buckets`,
`Trim`, `Compare` and `Comparisons` the loop over clusters of KR 249-266 where the market's series
stays cut, `LagsTried` the shifts of `lead_lag_confidence` (KR 105-135).

### CoActivity and EntityResolution

*State.* The tables under their names (`clusterOf` and `entityOf` are columns of wallets,
`listed` is `ofac_sdn`); `window` is the seven days of transfers that the graph is built from;
`pc` the statement `run_pipeline` stands at, `sdn`, `rows`, `tried`, `pool`, `best`, `found` its
locals; `parts` and `everListed` are ghosts.

*Actions.* `FetchOfac` (either half of the list may fail and counts as empty), `UpsertOfac`
(one row per uid, the last address stays), `UpsertEntities`, `LinkWallets` (the cross join of
ER 222: any of the listed uids for a wallet that matches an address), `BuildGraph`, `ReadGold`,
`DrawAndEvaluate` per threshold, `DrawRaises` (`rng.sample` of fewer than two),
`ClusterCandidates`, `PersistClusters` (one transaction), `RoundFails` at any of them.
`NewTransfer`, `Expire`, `NewWallet` are the collectors and time, between any two statements.

*Functions.* `Find` and `Union` are find with path halving and union on the parent map (ER
276-285), `Forest` the two loops around them, over the dict order of an answer of the database in
any order (`Answers`), `Trees` the grouping by roots, `Clustering` the list whose positions become
the ids. `Find` takes as many turns as there are nodes, where the code loops until it stands at a
root: `FindWorks` proves that so many are enough, that a find changes no root, and so that the
finds of the grouping (ER 306-308) may read one forest. `Connected` is the reference: no set closed
under similarity parts the two.
Jaccard is compared in whole percent; names, labels and risk flags are data.

### RiskTables and OntologyLoader

*State.* The tables the loader reads, `nodes` and `edges` of the graph, `filled` the nodes that
carry the properties of a row; `pc` and `offset` of the load; `atStart` a ghost.

*Actions.* One per statement: `LoadMarkets` … `LoadAlerts` (OL 155-361, called by 364-419), each with
what Cypher really does to the rows of an `UNWIND`: a `WHERE` or a `MATCH` without a match
ends the row for the rest of the statement (`Labelled`, `PlacedBy`, `Implicated`).
`LoadTransfers` reads one page: any choice of rows that `ORDER BY time DESC` allows, ties in
any order. `LoadFails` at any statement. `Others` are the writers: the tables by
`TablesNext`, markets, fills, late transfers, alerts, and what falls out of the two windows.

## 3 The runs

| run | module | distinct states | asks | shows |
|---|---|---|---|---|
| KineticShared | MCKineticEngine | 1.7 M | `TypeOK` `CooldownHeld` `ArmedIsAccounted` `MapsCoherent` `ScoredAlwaysAlerts` | With a refresh, a tick or a database failure in the middle of an evaluation, a pair is let through again only a cooldown later and after its earlier alert was dated, an armed pair has its alert unless an exception ended the evaluation, the cluster map is one whole refresh's, and the composite gate discards nothing |
| KineticRestart | MCKineticEngine | 0.5 M | `EvaluationEnds` | No exception and no broken iteration ends `eval_loop`, over a death of the process |
| ChainForks | MCChainCollector | 0.25 M | `TypeOK` `StoredIsCanonical` `StoredOnce` `NoGap` `CheckpointBehind` `FeedSpec` `CatchesUp` | Over forks, a fault, a death, a malformed log and an unserialisable transfer no transfer before the position is missing, the file is never ahead, every behaviour is one of `TransferFeed`, and the position reaches the safe distance behind every head unless a transfer that cannot be sent is in its way |
| TradeFills | MCPositionsCollector | 0.13 M | `TypeOK` `SeenIsHandled` `OneRowPerTx` `NoRepeat` `AnnouncedIsStored` `FeedIsStored` | A suppressed hash was handled, is under way, or was dropped by an exception; rows and announcements do not repeat; what is announced has its row; as long as no call raises, a readable entry is stored or leaves the page |
| MarketBasket | MCMarketCuration | 0.14 M | `TypeOK` `BasketIsOneSelection` `BasketFollows` `TargetFollows` | Whatever fails or dies between two statements of a rebuild, the basket is part of one selection of one read; basket, file and target come back to the table's selection, again and again |
| EntityRounds | MCEntityResolution | 0.13 M | `TypeOK` `LatestRoundAgrees` `ClustersAreComponents` `LinkedWasListed` `TablesSpec` `RoundEnds` | Union-find gives the components of similarity for every order of the rows; ids agree among the wallets of the last round that was written; every step is one of `RiskTables`; a round ends unless it is caught drawing pairs that do not exist |
| OntologyLoads | MCOntologyLoader | 0.34 M | `TypeOK` `NothingHollow` `PagedThrough` `AlertsLinked` `NamesReachGraph` | With the other services writing between any two statements, nothing stays without properties past the statements that fill it, paging skips no transfer that stays, and clusters, labels and alerts reach the graph |
| TickSeries | MCTickFeed | 84 k | `TypeOK` `WindowKept` `FrontIsFresh` `EveryLagTried` `AnnouncedIsHandled` | Late and repeated ticks never cost the series a point of its window, a stale point only survives behind a fresh one, no cut of the series leaves a comparison without a shift, and every tick after the first commit is handled |
| KineticClusterKey | MCKineticEngine | – | `ClusterFlowIsRead` | *violated*: section 6 |
| KineticEmit | MCKineticEngine | – | `CollectedIsStored` | *violated*: section 6 |
| TradeLost | MCPositionsCollector | – | `NewFillsWritten` | *violated*: section 6 |
| MarketClosed | MCMarketCuration | – | `ClosedLeavesBasket` | *violated*: section 6 |

Every property of a passing run has a mutant in `PROJECT.json`: an operator beside the
definition it replaces, changed as a plausible bug would change the code (a hash noted
before its entry is read, the reset of the basket forgotten, a chunk one block too long),
under which the property fails in the same run.

### The bounds, and why they are enough

*KineticEngine.* Two markets, because the hazards need an iteration that has one market
behind it and one ahead; one address and two clusters, one of which has the address's
name, because the join of line 253 tells apart just those; a cooldown of two units
between times 2 and 4, so that a pair can alert, be muted, and alert again, and the clock can move during the
await: two rows of a pair closer than the cooldown are reached, with their stamps a cooldown apart; one bucket
suffices for `MIN_BUCKETS` (1 here), as values are chosen. One failing call: the
properties are about one evaluation, and the second failure meets the state of the first.
`KineticRestart` trades the second market for a second process and a skipped address, and stops the
clock at 3, with refreshes due at every tick and a cooldown of 1.

*ChainCollector.* Heights 1-6 with a head that begins at 3, a distance of 1 and chunks of
2: at least two chunks, one that ends at the safe head and one that does not. Two variants
of blocks: a fork moves `t2` from block 4 to 5, or drops it together with the appearance of
`t3`. `t3` cannot be serialised, `t4` is malformed. One fault and one death meet at
every pair of awaits.

*PositionsCollector.* Two fills and an unreadable entry of one transaction, and one entry with
neither hash, nor readable time, nor taker, which every poll finds new; a page of 3 for 4 entries,
so that one can be pushed out of it; one wallet, one fault, one death. Other mixtures (a hash and no
time, no hash and a time) are left to the proofs, which allow any.

*MarketCuration.* Two candidates for one place and three kinds of figures, one that fails the
collector's gate and one that passes it and is thin for the honesty layer, so that a basket can
hold the remains of two selections. `MaxChanges` 1 lets figures move or a market close
between any two statements. Symmetry is not used: it is not sound for liveness.

*EntityResolution.* Five addresses, one of them the burn address, and a log of five transfers under
a moving window: who is similar to whom changes between rounds, and a cluster loses a member
whose id is then given to others. One uid with two addresses and one with one, so that
"the last address stays" and the cross join show. Two thresholds, of which the second can be the
better one. The number of rounds is not bounded, and any round may fail at any statement.

*OntologyLoader.* Two wallets, one cluster, one entity, one market, one fill; transfers in two blocks at
the start, and three that may come between two pages: in a block between them, in the newer one (a
tie), or in a newer one still. Pages of 1 up to an offset of 5: after two arrivals between its pages a load
can still read on (offset 4 is reached with the antecedent of `PagedThrough` true);
alerts with and without an entity; three writes of other services and one failing
load. An `EVIDENCED_BY` edge takes four writes, one more than the run has: the proofs, which
bound nothing, cover it. The number of loads is not bounded.

*TickFeed.* Four times around one window of 3 and buckets of 2, at most four ticks in two messages,
one death of the engine, websocket failures without bound, and flows of up to three clusters
(`MaxClusters`) of every length. Reached: a stale point behind
a fresh front, a series of three buckets and a fourth that is cut, a tick handled twice after
a death, a tick skipped before the first commit.

No run switches deadlock checking off: each of these programs loops for ever, and so do
the models.

## 4 Fairness

| specification | fairness | why the code justifies it |
|---|---|---|
| `KineticEngine!FairSpec` | `WF(Evaluate)`, `WF(Refresh)` | the event loop resumes a ready task; a query ends with an answer or by `command_timeout`. No fairness for ticks, transfers, the clock, signals or deaths |
| `ChainCollector!FairSpec` | `WF(Loop)` | one task; calls to the node end by `timeout=20`, the database by its timeout. None for the chain or deaths |
| `PositionsCollector!FairSpec` | `WF(Loop)` | one task; every call has a timeout. None for the feed or deaths |
| `MarketCuration!FairSpec` | `WF(Sync)`, `WF(Curate)`, `WF(Connect)`, `WF(Disconnect)`, `SF(RefreshTarget ∧ cpc = "select")` | four tasks that each sleep and run again. The strong fairness stands for the timings: five refreshes of the target (120 s) fall between two rebuilds (600 s), and a rebuild takes moments, so one of the five finds the basket whole. None for `GateThin`, changes or deaths |
| `EntityResolution!FairSpec` | `WF_pc(Moves)` | the one task goes on: it leaves each await by an answer or by an exception, and the drawing loop if there is something to draw (the generator picks every pair in time). Which of the two is not said, so that a round may fail every time. `Moves` is stated on `pc` alone. None for the collectors or the window |
| `OntologyLoader!FairSpec` | `WF(Load)` | one task that sleeps and loads; a statement ends with an answer or an exception. None for the writers or `LoadFails` |
| `TickFeed!FairSpec` | `WF(Consume)` | the consumer's loop asks for the next message as long as there is one. None for the websocket, ticks or deaths |

Faults are bounded (`MaxFaults`, `MaxFailures`, `MaxDeaths`; in `EntityResolution` they are
not, and `RoundEnds` holds all the same), so "under fairness" means: once the faults are over.

## 5 The proofs

Every theorem holds for every value of the constants that satisfies the assumption of its
module (`KineticAssumption`, `ChainAssumption`, `PositionsAssumption`, `CurationAssumption`,
`EntityAssumption`, `TablesAssumption`, `LoaderAssumption`, `SeriesAssumption`, `FeedAssumption`), and so
for any number of markets, wallets, blocks, trades, faults and deaths. The assumptions say no
more than the types of the constants and what the code guarantees of them: the tables of markets
and clusters are finite, a chunk has at least one block, a prefixed cluster key is no address,
an entry without a hash never has the key of one that has a hash, nor one without hash and time
the key of another, a comparison needs at least as
many buckets as the largest shift and the shortest overlap together (12, 6 and 6). TLC evaluates
each of them.

| module | theorem | says |
|---|---|---|
| `KineticEngine_proofs` | `TypeCorrect` | `[]TypeOK` |
| | `CooldownTheorem` | `[]CooldownHeld` |
| | `JoinTheorem` | `[]AlertNeedsSharedKeys`: an alert names a market whose id ticks carry and a cluster whose id is an address of transfers, the only clusters that the join of lines 234 and 253 can score |
| | `PipelineIdsNeverAlert` | with ids as the pipeline writes them, `[](Emitted = {})`: it never alerts |
| | `MapsTheorem` | `[]MapsCoherent` |
| | `ScoredAlwaysAlertsTheorem` | `ScoredAlwaysAlerts` |
| | `AccountTheorem` | `[]ArmedIsAccounted` |
| | `EvaluationShrinksTheorem` | each step of an evaluation leaves it less to do, and no other task gives it anything back |
| `ChainCollector_proofs` | `TypeCorrect` | `[]TypeOK`, with the bounds of a request for logs |
| | `NoGapTheorem`, `CheckpointTheorem` | `[]NoGap`, `[]CheckpointBehind` |
| | `CanonicalTheorem`, `StoredOnceTheorem` | `[]StoredIsCanonical`, `[]StoredOnce` |
| | `Refinement` | `Spec => FeedSpec` |
| `PositionsCollector_proofs` | `TypeCorrect` | `[]TypeOK` |
| | `SeenTheorem` | `[]SeenIsHandled` |
| | `NoRepeatTheorem`, `OneRowTheorem` | `[]NoRepeat`, `[]OneRowPerTx` |
| | `AnnouncedTheorem` | `[]AnnouncedIsStored`, also for fills without a hash |
| | `FeaturesTheorem` | `FeaturesKept`: no refresh and no poll turns a feature back into NULL |
| `MarketCuration_proofs` | `TypeCorrect` | `[]TypeOK` |
| | `BasketTheorem` | `[]BasketIsOneSelection` |
| | `SyncTheorem` | `SyncKeepsBasket`: a Gamma sync writes the same rows and leaves the basket alone |
| | `SelectionTheorem` | a table of finitely many rows has a selection, and each is as long as the limit and the candidates allow |
| `EntityResolution_proofs` | `TypeCorrect` | `[]TypeOK` |
| | `ImplementsTables` | `Spec => TablesSpec` |
| | `LinkedTheorem`, `NamesTheorem` | `[]LinkedWasListed`, `[]NamesHaveRows` |
| | `FindWorks` | find returns the root within as many turns as there are nodes and changes no root |
| | `TreesAreComponents` | the trees of the forest are the connected components of similarity, for every order of the addresses |
| | `OrderDecidesNumbersOnly` | two answers with the same rows give the same clusters, only their numbers may differ |
| | `ComponentsTheorem` | `[]ClustersAreComponents` |
| | `LatestRoundTheorem` | `[]LatestRoundAgrees` |
| `OntologyLoader_proofs` | `TypeCorrect` | `[]TypeOK` |
| | `HollowTheorem` | `[]NothingHollow` |
| | `PagingTheorem` | `[]PagedThrough`: paging by offset, the newest first, skips no transfer that was there at the start, is alone in its block and stays, however many arrive in between, up to `TxMax` |
| | `GraphBehindTheorem`, `NamesTheorem` | no cluster and no entity of the graph without a row; `[]NamesHaveRows` |
| `TickFeed_proofs` | `TypeCorrect` | `[]TypeOK` |
| | `WindowTheorem`, `FrontTheorem` | `[]WindowKept`, `[]FrontIsFresh` |
| | `AnnouncedTheorem` | `[]AnnouncedIsStored`: no tick on the bus without its row |
| | `LagsTheorem` | `[]EveryLagTried`, for every number of clusters, in every order, and every length of their flows |
| | `NothingSkippedTheorem` | from a commit on, every tick up to the consumer's place has been handled, for ever |

### Along which argument

*KineticEngine.* The cooldown compares alerts with each other, the code compares `now`
with one stamp per pair, and dates the alert later than both. `StampInv` closes the gap: no alert of the
running process was let through after its pair's stamp, and none is dated after the running
evaluation began, except those of that evaluation itself. So a pair that passes `CooledDown` is
`Behind` all its earlier alerts (lemma `CooledDownIsBehind`), `RiskInv` carries this through the await, where
the clock moves, and the new alert takes its place after the others, whatever a refresh did to the
iteration. `KeyInv` follows the buckets: a
series under an id no tick carries stays empty, hence no market under such an id is scored
and no alert names it; the same for clusters, whose flow is read under the bare id and
written under a prefixed one. `PipelineIdsNeverAlert` is the corollary for the ids the
services write: Gamma's in ticks, the condition's in fills, `cl_…` for clusters.
`ScoreInv` keeps the values of a pair through the await (past both z gates and the
correlation gate), and `CompositeExceedsGate` is arithmetic: 20 · 20 · 2 · 13 > 5000.
`AccountInv` adds that collected alerts carry the stamp of the running evaluation.
`EvaluationShrinks` is the rank behind `EvaluationEnds`: the places the iteration has left, then
the clusters or alerts in hand, ordered lexicographically. It needs `IterInv`: as long as the dict keeps
its size, what the iteration has produced and what it would still produce add up to that size,
also when a refresh has put other markets in the places ahead.

*ChainCollector.* `NoGap` is not inductive: the step that moves the position needs to know
that the chunk behind it was delivered. `StageInv` says at every await what has been done
for the chunk (at `stamp` its raw logs are there, at `send` its transfers are stored, at
`advance` it is delivered); `PositionInv` ties cursor, position and file together and says
that positions are final, i.e. at least `Depth` below the head, so that `Reorg` cannot
touch what was delivered; `TableInv` says the same of every row. `Refinement` maps each
action to one of the feed's or to a stutter, with `NoGap` for its `Advance`.

*PositionsCollector.* `SeenIsHandled` needs `StageInv` (which of the three debts of a batch
are paid at each await) and `BatchInv` (one fill of a transaction in a batch, all its
hashes noted), which rests on `BornInv`: the feed lists entries one after the other, so a
page has exactly one newest entry of a transaction. `OneRowPerTx` holds over restarts by the
primary key, because `DateInv` says that a row with another time than its own belongs to an
entry that has none. `AnnouncedIsStored` is `BusInv`: what is being sent has its rows. For fills
that share a key without sharing a hash it needs the *newest* of them, which the primary key
keeps; lemma `Newest` finds it as a minimal element of the ages, by well-foundedness of `<`.

*MarketCuration.* `RebuildInv`: between `Reset` and the last `Mark` the marked markets and
those still to mark are part of one selection of the rows that were read. A sync in between
changes `rows` and not the selection; the gate only takes markets away. `SelectionTheorem` builds a
selection of each length by adding, to one that is shorter, the market with the fewest others above
it: so the model never stops at a `Select` for want of an answer.

*EntityResolution.* The refinement maps every action to one of `RiskTables` or to a stutter:
`UpsertEntities` to `AddEntities`, `LinkWallets` to `Relabel`, `PersistClusters` to `Recluster`,
`NewWallet` to `AddWallets`. Each `Relabel` needs that the uids in hand have rows by then
(`ListInv`: at `link` they do), and `Recluster` that the ids are those of the rows written in the
same transaction.

The clustering is proved in four layers. *Find*: a forest is `Rooted` by two witnesses, a map from
nodes to roots and a height that falls along parents; halving keeps both, and a walk ends because
the nodes at or below the height of where it stands become fewer at every turn. *Union*: it joins
two trees (`Joined`) and no others. *Loops*: `PairsAreAll` says that the nested loops visit every pair,
`VisitKeeps` that a visit joins similar addresses only; hence two addresses have one root just
when no set closed under similarity parts them. The loops are recursive functions; their
invariants are carried from turn to turn by a least counterexample (`Iteration!Ladder`), which
replaces the induction that the installed provers cannot instantiate. *Lists*: `SortedBy` lists a
finite set by distinct keys, each element once. The second invariant, `RoundInv`, takes this
through a round: `GraphInv` and `FoundInv` say what `rows`, `best` and `found` hold in their phases, and
`WrittenInv` that the wallets of the last written round have the positions of their clusters.
That the clusters are disjoint (`Apart`) makes the id of a wallet unique, which is what
`LatestRoundAgrees` rests on.

*OntologyLoader.* `NothingHollow` holds because of an order: a load reads the wallets (names) before
the entities and clusters (rows), and `NamesHaveRows` with `GraphBehind` says that what was named
earlier has its row when the rows are read later. `PagedThrough` is a rank argument: `Above(t)` are
the transfers newer than `t`; `Paged` says that once the offset is past their number, `t` is in the
graph. A page reaches `t` if its rank lies in it; a late row only adds to `Above`, an expiring block
takes `t` itself before anything above it. It is exact at the price of `Alone`: rows of one
block may swap places between two pages.

*TickFeed.* `PruneShape` says what pruning from the left gives: all from the first fresh point on, which
is the least of a set of naturals (again by well-foundedness). From it follow `PruneKeeps` and
`AddKeeps`: a point within the window of the *newest* tick is within the window of any tick, so no
arrival order drops it. `LagsTheorem`, for any `MaxClusters`: the cut of the market's series is even (`EvenCuts`), both sides of a
comparison have one length of at least `MinSeries`, and that leaves every shift its overlap.
`NothingSkippedTheorem`: `HandInv` says that the message in hand has been handled, and so has every place from
the last commit to the consumer's; a death goes back to that commit.

### What is only model-checked

The nine properties under fairness: `EvaluationEnds`, `CatchesUp`, `FeedIsStored`, `BasketFollows`,
`TargetFollows`, `RoundEnds`, `AlertsLinked`, `NamesReachGraph`, `AnnouncedIsHandled`. Liveness and
`ENABLED` are beyond the proof system here. For two of them the safety half is proved:
`EvaluationShrinksTheorem` leaves of `EvaluationEnds` only that a step of the evaluation is taken, and
`NothingSkippedTheorem` leaves of `AnnouncedIsHandled` only that the consumer goes on. Every invariant, every
action property and both refinements that the runs check are theorems.

## 6 Where code and documents disagree

Each of these is a run that TLC refutes, on one property that states the document.

| run | document | code |
|---|---|---|
| KineticClusterKey | KR:4-5, "rolling windows for per-market probability and per-cluster stablecoin flow" | the flow of a cluster is written under `cluster:<id>` (KR:234) and read under `<id>` (KR:253): the series that is scored is never fed |
| KineticEmit | README:191-193, "when the composite risk score breaches threshold, it emits a typed alert" | a refresh during the await of KR:285 changes the dict under iteration (KR:239); the `RuntimeError` takes the collected alerts along, and their cooldowns stay armed (KR:273) |
| TradeLost | PC:143, "write new fills" | hashes are noted (PC:161) before the insert (PC:167-168): after one failing insert the page's fills are skipped for the life of the process |
| MarketClosed | `data/curated_markets.json:8`, `"closed_excluded": true` | only open markets are fetched (MC:44-49), so the row of a closed one stays open (MC:408) and keeps its place in the basket |

`SeenIsHandled` and `ArmedIsAccounted` are the positive sides of the second and third: the
exception is the *only* way to lose a fill or mute a pair.

Met while modelling, without a run of their own:

- ticks carry Gamma's market id and fills the condition id, so the series of a traded market is
  found only where the collector fell back to the condition id (KR:242; `JoinTheorem` and
  `PipelineIdsNeverAlert` are about it);
- "Propagate known labels (OFAC SDN) outward from seed nodes" (ER:6, "label propagation" in README:73): labels
  are written by the links alone, no code carries them to other wallets (`LinkedWasListed`);
- the "held-out" gold set of F1 (README:115) is drawn from the clusters that earlier rounds stored (ER:365-411);
- the loop that draws negative pairs (ER:403) does not end when the wallets are few or share a
  cluster (`Crowded`, the exception in `RoundEnds`);
- `MEMBER_OF` edges are merged and never removed, so a wallet that moves is a member of both;
- a sanctioned wallet without a cluster gets no `RESOLVES_TO` in a load where any other wallet has one
  (`Labelled`);
- a wallet whose address leaves the list keeps its label, and a listed uid with several addresses
  keeps one of them (ER:157);
- ticks announced before the consumer group's first commit are skipped after a death (BUS, "latest");
- the docstring of the thin gate says "or" (HL:66), its statement "and" (HL:73-74);
- `curated_markets.json` is written under `services/data/` and documented under `data/` (README:87).

## 7 Not modelled

| part | why |
|---|---|
| z-scores and correlations as numbers (KR 64-135) | chosen, constrained by the number of buckets; `RollingSeries` counts points and buckets. The volume and flow series are counted only |
| how busy a wallet is, the week `select_top_wallets` looks back over | data that decides only who is refreshed |
| parsing of websocket messages (MC 165-315) | decides which ticks a message yields: any one or two, of any time |
| `markets.basket` | written with `curated` and decides nothing |
| `detect_wash_trades`, `recompute_smart_money` (HL) | single idempotent statements over columns that no modelled component decides on; the score has two writers and keeps the last (HL:52) |
| properties of graph nodes other than their keys, `apply_schema` (OL) | data; indexes |
| names, labels, `risk_flags` (ER) | data; the flags grow by one entry a round |
| lock order of `upsert_wallets` (DB:231) | the database breaks a deadlock by aborting one side: a failing call, which every model has |
| `backfill_wallet` (CC) | has no caller |
| memory that only grows (`seen_hashes`, keys of the series, `MAX_CLUSTERS_IN_WINDOW` never read) | visible in the code; a finite model can only cap it |
| configuration, logging, types, SQL views, dashboards, scripts | no state, or read-only |

## 8 Plan

Done, in this order, the most important first: the correlation engine, which everything
else feeds (`KineticEngine`), the collectors whose failures lose data (`ChainCollector` with
`TransferFeed`, `PositionsCollector`), the component whose state two processes write
(`MarketCuration`) and their proofs; then the pipeline that gives wallets their clusters and labels
(`EntityResolution`), the loader that copies the tables (`OntologyLoader`) with the abstract
specification between the two (`RiskTables`), the hot path of a tick (`TickFeed`,
`RollingSeries`), and their proofs.

What is left:

1. `Honesty`: the wash flags and scores, composed with `PositionsCollector`'s features: what the
   last writer leaves, and for which wallets.
2. A consumer for `chain.transfers`: the series of a cluster under `TransferFeed`'s at-least-once,
   where a repeated transfer counts twice in a volume.
3. Rank arguments like `EvaluationShrinks` for the other loops: the chunks of the chain collector up to the
   safe head, the pages and statements of a load, the round of entity resolution up to the draw.

## 9 Running

`tlc -config ChainForks.cfg MCChainCollector` checks a run; every run ends within three minutes
on two workers. `tlapm ChainCollector_proofs.tla` checks the proofs of a module.
