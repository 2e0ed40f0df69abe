---------------------------- MODULE KineticEngine ----------------------------
(***************************************************************************)
(* The correlation engine of services/kinetic-risk: one asyncio process    *)
(* with three tasks that share the memory of a KineticEngine object.       *)
(*                                                                         *)
(*   consumer loop   feeds ticks and transfers into the rolling series     *)
(*   eval_loop       scans market x cluster, awaits the database once per  *)
(*                   scored pair, then stores the alerts one by one        *)
(*   refresh_loop    rebuilds the market/cluster maps from two queries     *)
(*                                                                         *)
(* The event loop runs one task at a time and switches only at an await,   *)
(* so the other tasks move only when AtAwait holds.  A rolling series is   *)
(* the number of 60 s buckets it holds; the z-scores and the correlation   *)
(* computed from its values depend on the data and on the wall clock, and  *)
(* are chosen when they are computed.                                      *)
(***************************************************************************)
EXTENDS Integers, FiniteSets

CONSTANTS
  Conditions,     \* ids that market_fills rows carry (Polymarket conditionId)
  GammaId,        \* condition -> id that the ticks of that market carry
  Addrs,          \* lower-cased wallet addresses
  SkipAddrs,      \* the zero and dead addresses, and the empty string
  Clusters,       \* values of wallets.cluster_id
  NoCluster,      \* a wallet without a cluster
  MinBuckets,     \* MIN_BUCKETS
  MaxBuckets,     \* bound: buckets counted per series
  ZScores,        \* |z| in tenths; 0 also stands for zscore() = None
  Corrs,          \* |cross correlation| in tenths
  Cooldown,       \* ALERT_COOLDOWN_SECONDS, in clock units
  RefreshEvery,   \* the 300 s of refresh_loop
  EvalEvery,      \* the 30 s of eval_loop
  StartTime,      \* wall clock when the first process starts
  MaxTime,        \* bound: clock
  MaxFaults,      \* bound: failing database calls
  MaxRuns         \* bound: process starts

ClusterKey(c) == <<"cluster", c>>          \* f"cluster:{cluster}"
GammaIds      == {GammaId[m] : m \in Conditions}
Markets       == Conditions \union GammaIds
ClusterKeys   == {ClusterKey(c) : c \in Clusters}
FlowKeys      == Addrs \union Clusters \union ClusterKeys
Pairs         == Conditions \X Clusters

ZThreshold    == 20                        \* Z_THRESHOLD = FLOW_Z_THRESHOLD = 2.0
CorrGate      == 3                         \* abs(corr) < 0.3
CompositeGateDoubled == 10800              \* mutant: the gate at 0.108
CompositeGate == 5000                      \* 0.05, on the scale of Composite
Weights       == {2, 3, 4, 6}              \* entity weights 1, 1.5, 2, 3 in halves

\* prob_z/5 * flow_z/5 * weight * (0.5 + corr/2), times 100000
Composite(z, fz, w, corr) == z * fz * w * (10 + corr)

ASSUME KineticAssumption ==
  /\ IsFiniteSet(Conditions) /\ IsFiniteSet(Clusters)
  /\ SkipAddrs \subseteq Addrs
  /\ NoCluster \notin Clusters
  /\ ClusterKeys \intersect (Addrs \union Clusters) = {}
  /\ MinBuckets \in Nat \ {0} /\ MaxBuckets \in Nat /\ MinBuckets <= MaxBuckets
  /\ ZScores \subseteq Nat /\ Corrs \subseteq Nat
  /\ Cooldown \in Nat \ {0} /\ RefreshEvery \in Nat /\ EvalEvery \in Nat
  /\ StartTime \in Nat /\ StartTime >= Cooldown /\ StartTime > RefreshEvery
  /\ MaxTime \in Nat /\ MaxFaults \in Nat /\ MaxRuns \in Nat

VARIABLES
  marketTraders,  \* market_traders: condition -> addresses, {} = key absent
  clusterTraders, \* cluster_market_traders
  addrToCluster,  \* _addr_to_cluster
  prob,           \* market_prob: buckets per market id
  volume,         \* market_volume: ids with at least one sized tick
  flow,           \* cluster_flow: buckets per series key
  lastAlertAt,    \* last_alert_at, 0 = key absent
  evalPC,         \* where eval_loop stands
  evalNow,        \* `now` of the running evaluation
  evalWake,       \* when the 30 s sleep ends
  iterSize,       \* size of market_traders when its iteration began
  consumed,       \* markets that iteration has produced
  todo,           \* markets it would still produce
  curMarket,      \* market and its z-score in the outer loop
  clustersTodo,   \* clusters the inner loop has still to produce
  scored,         \* the pair whose entity risk is awaited
  pending,        \* the list `alerts` of the running evaluation
  refreshPC,      \* refresh_loop: "wait"ing, in the first query ("fetch") or
                  \* in the second ("half"), or "done"
  lastRefresh,    \* last_traders_refresh
  stop,           \* the stop event
  alerts,         \* rows of kinetic_alerts
  now,            \* time.time()
  run,            \* number of the running process (ghost)
  faults,         \* failed database calls so far (bounds them)
  torn,           \* the last refresh died between its two queries (ghost)
  described,      \* the market map the cluster map was built from (ghost)
  abortedAt       \* evaluations that ended in an exception (ghost)

maps    == <<marketTraders, clusterTraders, addrToCluster, described>>
series  == <<prob, volume, flow>>
loop    == <<iterSize, consumed, todo, curMarket, clustersTodo, scored>>
evalv   == <<evalPC, evalNow, evalWake, loop, pending, lastAlertAt>>
refresh == <<refreshPC, lastRefresh, torn>>
env     == <<stop, now, run, faults>>
vars == <<maps, series, evalv, refresh, env, alerts, abortedAt>>

\* `armed` is the stamp that let the pair through the cooldown, `run` the process
\* (both ghosts); `at` is the column `time` of the row.
Alert == [market : Conditions, cluster : Clusters, armed : Nat, at : Nat, run : Nat]
NoMarket == [market |-> "none", z |-> 0]
NoPair   == [cluster |-> "none", fz |-> 0, corr |-> 0]

\* keys of the dict market_traders; a key is made by adding its first trader
Keys == {m \in Conditions : marketTraders[m] # {}}

\* Mutant: the test `if c:` is forgotten.
ClustersOfKeepingNone(traders, clusterOf) ==
  [m \in Conditions |-> {clusterOf[a] : a \in traders[m]}]

\* the loop of lines 170-174
ClustersOf(traders, clusterOf) ==
  [m \in Conditions |-> {clusterOf[a] : a \in traders[m]} \ {NoCluster}]

AtAwait == evalPC \in {"sleep", "risk", "insert", "done"}

-----------------------------------------------------------------------------
(* A process starts: empty series, one refresh before the loops run.       *)

NoBuckets(keys) == [k \in keys |-> 0]

Init ==
  /\ marketTraders  \in [Conditions -> SUBSET Addrs]
  /\ addrToCluster  \in [Addrs -> Clusters \union {NoCluster}]
  /\ clusterTraders = ClustersOf(marketTraders, addrToCluster)
  /\ described = marketTraders
  /\ prob = NoBuckets(Markets) /\ volume = {} /\ flow = NoBuckets(FlowKeys)
  /\ lastAlertAt = [p \in Pairs |-> 0]
  /\ evalPC = "sleep" /\ evalNow = 0 /\ evalWake = 0
  /\ iterSize = 0 /\ consumed = 0 /\ todo = {}
  /\ curMarket = NoMarket /\ clustersTodo = {} /\ scored = NoPair
  /\ pending = {} /\ abortedAt = {}
  /\ refreshPC = "wait" /\ lastRefresh = 0 /\ torn = FALSE
  /\ stop = FALSE
  /\ now = StartTime /\ run = 1 /\ faults = 0 /\ alerts = {}

\* A crash, or docker's kill after SIGTERM; compose starts the next process,
\* again and again until its first refresh succeeds.
Restart ==
  /\ run < MaxRuns
  /\ run' = run + 1
  /\ marketTraders'  \in [Conditions -> SUBSET Addrs]
  /\ addrToCluster'  \in [Addrs -> Clusters \union {NoCluster}]
  /\ clusterTraders' = ClustersOf(marketTraders', addrToCluster')
  /\ described' = marketTraders'
  /\ prob' = NoBuckets(Markets) /\ volume' = {} /\ flow' = NoBuckets(FlowKeys)
  /\ lastAlertAt' = [p \in Pairs |-> 0]
  /\ evalPC' = "sleep" /\ evalNow' = 0 /\ evalWake' = 0
  /\ iterSize' = 0 /\ consumed' = 0 /\ todo' = {}
  /\ curMarket' = NoMarket /\ clustersTodo' = {} /\ scored' = NoPair
  /\ pending' = {} /\ abortedAt' = {}
  /\ refreshPC' = "wait" /\ lastRefresh' = 0 /\ torn' = FALSE
  /\ stop' = FALSE
  /\ UNCHANGED <<now, faults, alerts>>

-----------------------------------------------------------------------------
(* Consumer loop                                                           *)

\* RollingSeries.add: prune, then append one point; several old buckets may
\* go and at most one bucket is new.
Add(n, n2) == n2 \in 1..MaxBuckets /\ n2 <= n + 1

HandleMarketTick(g, sized) ==
  /\ AtAwait
  /\ \E n \in 1..MaxBuckets : Add(prob[g], n) /\ prob' = [prob EXCEPT ![g] = n]
  /\ volume' = IF sized THEN volume \union {g} ELSE volume
  /\ UNCHANGED <<maps, flow, evalv, refresh, env, alerts, abortedAt>>

\* both sides of a transfer, under the address and under its cluster's key
Touched(from, to) ==
  LET sides == {from, to} \ SkipAddrs
  IN  sides \union {ClusterKey(addrToCluster[a]) :
                      a \in {b \in sides : addrToCluster[b] # NoCluster}}

HandleChainTransfer(from, to) ==
  /\ AtAwait
  /\ \E f \in [Touched(from, to) -> 1..MaxBuckets] :
       /\ \A k \in Touched(from, to) : Add(flow[k], f[k])
       /\ flow' = [k \in FlowKeys |-> IF k \in Touched(from, to) THEN f[k] ELSE flow[k]]
  /\ UNCHANGED <<maps, prob, volume, evalv, refresh, env, alerts, abortedAt>>

-----------------------------------------------------------------------------
(* eval_loop: evaluate(), then one insert per alert                        *)

ResetLoop ==
  /\ iterSize' = 0 /\ consumed' = 0 /\ todo' = {}
  /\ curMarket' = NoMarket /\ clustersTodo' = {} /\ scored' = NoPair

Sleep == evalPC' = "sleep" /\ evalWake' = now + EvalEvery

\* Mutant: the try block outside the while loop.
AbortTask ==
  /\ ResetLoop
  /\ evalPC' = "done" /\ pending' = {}
  /\ abortedAt' = abortedAt \union {evalNow}
  /\ UNCHANGED evalWake

\* `except Exception`: the alerts collected so far go with the stack frame
Abort ==
  /\ ResetLoop /\ Sleep
  /\ pending' = {}
  /\ abortedAt' = abortedAt \union {evalNow}

StartEvaluation ==
  /\ evalPC = "sleep" /\ ~stop /\ now >= evalWake
  /\ evalPC' = "market" /\ evalNow' = now
  /\ iterSize' = Cardinality(Keys) /\ consumed' = 0 /\ todo' = Keys
  /\ UNCHANGED <<maps, series, evalWake, curMarket, clustersTodo, scored, pending,
                 lastAlertAt, refresh, env, alerts, abortedAt>>

StopEvaluations ==
  /\ evalPC = "sleep" /\ stop
  /\ evalPC' = "done"
  /\ UNCHANGED <<maps, series, evalNow, evalWake, loop, pending, lastAlertAt, refresh,
                 env, alerts, abortedAt>>

MarketScorable(m) == prob[m] >= MinBuckets /\ m \in volume

NextMarket ==
  /\ evalPC = "market" /\ iterSize = Cardinality(Keys)
  /\ \E m \in todo :
       /\ todo' = todo \ {m}
       /\ consumed' = consumed + 1
       /\ \E z \in IF MarketScorable(m) THEN ZScores ELSE {0} :
            IF z < ZThreshold
              THEN UNCHANGED <<evalPC, curMarket, clustersTodo>>
              ELSE /\ evalPC' = "cluster"
                   /\ curMarket' = [market |-> m, z |-> z]
                   /\ clustersTodo' = clusterTraders[m]
  /\ UNCHANGED <<maps, series, evalNow, evalWake, iterSize, scored, pending, lastAlertAt,
                 refresh, env, alerts, abortedAt>>

\* RuntimeError: dictionary changed size during iteration
IterationBroken ==
  /\ evalPC = "market" /\ iterSize # Cardinality(Keys)
  /\ Abort
  /\ UNCHANGED <<maps, series, evalNow, lastAlertAt, refresh, env, alerts>>

EndMarkets ==
  /\ evalPC = "market" /\ iterSize = Cardinality(Keys) /\ todo = {}
  /\ ResetLoop
  /\ IF pending = {} THEN Sleep ELSE evalPC' = "insert" /\ UNCHANGED evalWake
  /\ UNCHANGED <<maps, series, evalNow, pending, lastAlertAt, refresh, env, alerts,
                 abortedAt>>

FlowKeyRead(c)    == c                     \* key evaluate() looks a cluster up by
FlowKeyWritten(c) == ClusterKey(c)         \* key handle_chain_transfer adds it under

FlowScorable(c)  == flow[FlowKeyRead(c)] >= MinBuckets
CooldownIgnored(m, c)  == TRUE             \* mutant: no cooldown
CooledDown(m, c) == evalNow - lastAlertAt[<<m, c>>] >= Cooldown

\* The cooldown is armed here, before the await that computes the score.
NextCluster ==
  /\ evalPC = "cluster"
  /\ \E c \in clustersTodo :
       /\ clustersTodo' = clustersTodo \ {c}
       /\ \E fz \in (IF FlowScorable(c) THEN ZScores ELSE {0}), corr \in Corrs :
            IF /\ fz >= ZThreshold
               /\ corr >= CorrGate
               /\ CooledDown(curMarket.market, c)
              THEN /\ lastAlertAt' = [lastAlertAt EXCEPT ![<<curMarket.market, c>>] = evalNow]
                   /\ scored' = [cluster |-> c, fz |-> fz, corr |-> corr]
                   /\ evalPC' = "risk"
              ELSE UNCHANGED <<lastAlertAt, scored, evalPC>>
  /\ UNCHANGED <<maps, series, evalNow, evalWake, iterSize, consumed, todo, curMarket,
                 pending, refresh, env, alerts, abortedAt>>

EndClusters ==
  /\ evalPC = "cluster" /\ clustersTodo = {}
  /\ evalPC' = "market" /\ curMarket' = NoMarket
  /\ UNCHANGED <<maps, series, evalNow, evalWake, iterSize, consumed, todo, clustersTodo,
                 scored, pending, lastAlertAt, refresh, env, alerts, abortedAt>>

\* dated when it is built, after the await: the clock may be past `now`
NewAlert == [market |-> curMarket.market, cluster |-> scored.cluster,
             armed |-> evalNow, at |-> now, run |-> run]

\* entity_risk_for_cluster answered; the rest of the loop body
EntityRiskReturns ==
  /\ evalPC = "risk"
  /\ \E w \in Weights :
       pending' = IF Composite(curMarket.z, scored.fz, w, scored.corr) < CompositeGate
                    THEN pending ELSE pending \union {NewAlert}
  /\ evalPC' = "cluster" /\ scored' = NoPair
  /\ UNCHANGED <<maps, series, evalNow, evalWake, iterSize, consumed, todo, curMarket,
                 clustersTodo, lastAlertAt, refresh, env, alerts, abortedAt>>

EntityRiskFails ==
  /\ evalPC = "risk" /\ faults < MaxFaults
  /\ faults' = faults + 1
  /\ Abort
  /\ UNCHANGED <<maps, series, evalNow, lastAlertAt, refresh, stop, now, run, alerts>>

\* Mutant: a `break` after the first alert is stored.
InsertFirstAlert ==
  /\ evalPC = "insert"
  /\ \E a \in pending : alerts' = alerts \union {a}
  /\ pending' = {}
  /\ Sleep
  /\ UNCHANGED <<maps, series, evalNow, loop, lastAlertAt, refresh, env, abortedAt>>

InsertAlert ==
  /\ evalPC = "insert"
  /\ \E a \in pending :
       /\ alerts' = alerts \union {a}
       /\ pending' = pending \ {a}
       /\ IF pending = {a} THEN Sleep ELSE UNCHANGED <<evalPC, evalWake>>
  /\ UNCHANGED <<maps, series, evalNow, loop, lastAlertAt, refresh, env, abortedAt>>

\* The row may have been committed before the call raised.
InsertFails ==
  /\ evalPC = "insert" /\ faults < MaxFaults
  /\ faults' = faults + 1
  /\ \E a \in pending : alerts' \in {alerts, alerts \union {a}}
  /\ Abort
  /\ UNCHANGED <<maps, series, evalNow, lastAlertAt, refresh, stop, now, run>>

-----------------------------------------------------------------------------
(* refresh_loop: refresh_market_traders is two queries with an await each  *)

StartRefresh ==
  /\ AtAwait /\ refreshPC = "wait" /\ ~stop
  /\ now - lastRefresh > RefreshEvery
  /\ refreshPC' = "fetch"
  /\ UNCHANGED <<maps, series, evalv, lastRefresh, torn, env, alerts, abortedAt>>

Iterating == evalPC = "risk"               \* market_traders is under iteration

\* First query answered: market_traders is cleared and filled again.  A running
\* iterator goes on at its position in the new table, whose order is the row
\* order: any `consumed` of the new keys lie behind it.
RefreshMarkets ==
  /\ AtAwait /\ refreshPC = "fetch"
  /\ marketTraders' \in [Conditions -> SUBSET Addrs]
  /\ IF Iterating /\ Cardinality(Keys') = iterSize
       THEN \E T \in SUBSET Keys' :
              Cardinality(T) = iterSize - consumed /\ todo' = T
       ELSE todo' = {}
  /\ refreshPC' = "half"
  /\ UNCHANGED <<clusterTraders, addrToCluster, described, series, evalPC, evalNow, evalWake, iterSize,
                 consumed, curMarket, clustersTodo, scored, pending, lastAlertAt, lastRefresh,
                 torn, env, alerts, abortedAt>>

\* Mutant: the cluster map is rebuilt before the address map is replaced.
RefreshClustersEarly ==
  /\ AtAwait /\ refreshPC = "half"
  /\ addrToCluster' \in [Addrs -> Clusters \union {NoCluster}]
  /\ clusterTraders' = ClustersOf(marketTraders, addrToCluster)
  /\ described' = marketTraders
  /\ refreshPC' = "wait" /\ lastRefresh' = now /\ torn' = FALSE
  /\ UNCHANGED <<marketTraders, series, evalv, env, alerts, abortedAt>>

\* Second query answered: the address map and the cluster map are rebuilt.
RefreshClusters ==
  /\ AtAwait /\ refreshPC = "half"
  /\ addrToCluster' \in [Addrs -> Clusters \union {NoCluster}]
  /\ clusterTraders' = ClustersOf(marketTraders, addrToCluster')
  /\ described' = marketTraders
  /\ refreshPC' = "wait" /\ lastRefresh' = now /\ torn' = FALSE
  /\ UNCHANGED <<marketTraders, series, evalv, env, alerts, abortedAt>>

RefreshFails ==
  /\ AtAwait /\ faults < MaxFaults
  /\ refreshPC \in {"fetch", "half"}
  /\ torn' = (torn \/ refreshPC = "half")
  /\ refreshPC' = "wait" /\ lastRefresh' = now
  /\ faults' = faults + 1
  /\ UNCHANGED <<maps, series, evalv, stop, now, run, alerts, abortedAt>>

StopRefreshing ==
  /\ AtAwait /\ refreshPC = "wait" /\ stop
  /\ refreshPC' = "done"
  /\ UNCHANGED <<maps, series, evalv, lastRefresh, torn, env, alerts, abortedAt>>

-----------------------------------------------------------------------------
(* Environment                                                             *)

Sigterm ==
  /\ AtAwait /\ ~stop
  /\ stop' = TRUE
  /\ UNCHANGED <<maps, series, evalv, refresh, now, run, faults, alerts, abortedAt>>

Tick ==
  /\ AtAwait /\ now < MaxTime
  /\ now' = now + 1
  /\ UNCHANGED <<maps, series, evalv, refresh, stop, run, faults, alerts, abortedAt>>

Evaluate ==
  \/ StartEvaluation \/ NextMarket \/ IterationBroken \/ EndMarkets
  \/ NextCluster \/ EndClusters
  \/ EntityRiskReturns \/ EntityRiskFails
  \/ InsertAlert \/ InsertFails

Refresh == RefreshMarkets \/ RefreshClusters \/ RefreshFails

Next ==
  \/ Evaluate \/ StopEvaluations
  \/ StartRefresh \/ Refresh \/ StopRefreshing
  \/ \E g \in GammaIds, sized \in BOOLEAN : HandleMarketTick(g, sized)
  \/ \E from, to \in Addrs : HandleChainTransfer(from, to)
  \/ Sigterm \/ Tick \/ Restart

Spec == Init /\ [][Next]_vars

\* The event loop resumes a ready task, and a database call ends: with an answer
\* or with an exception.  Nothing is assumed of ticks, transfers or the clock.
FairSpec == Spec /\ WF_vars(Evaluate) /\ WF_vars(Refresh)

-----------------------------------------------------------------------------
(* Properties                                                              *)

TypeOK ==
  /\ marketTraders  \in [Conditions -> SUBSET Addrs]
  /\ clusterTraders \in [Conditions -> SUBSET Clusters]
  /\ addrToCluster  \in [Addrs -> Clusters \union {NoCluster}]
  /\ prob \in [Markets -> Nat] /\ volume \subseteq GammaIds
  /\ flow \in [FlowKeys -> Nat]
  /\ lastAlertAt \in [Pairs -> Nat]
  /\ evalPC \in {"sleep", "market", "cluster", "risk", "insert", "done"}
  /\ evalNow \in Nat /\ evalWake \in Nat
  /\ iterSize \in Nat /\ consumed \in Nat
  /\ todo \subseteq Conditions /\ clustersTodo \subseteq Clusters
  /\ evalPC \in {"cluster", "risk"} =>
       curMarket \in [market : Conditions, z : Nat]
  /\ evalPC = "risk" => scored \in [cluster : Clusters, fz : Nat, corr : Nat]
  /\ pending \subseteq Alert /\ alerts \subseteq Alert
  /\ described \in [Conditions -> SUBSET Addrs]
  /\ refreshPC \in {"wait", "fetch", "half", "done"} /\ lastRefresh \in Nat
  /\ torn \in BOOLEAN /\ stop \in BOOLEAN
  /\ now \in Nat /\ run \in Nat /\ faults \in Nat
  /\ abortedAt \subseteq Nat

\* What evaluations have emitted so far: stored, or collected to be stored.
Emitted == alerts \union pending

SamePair(x, y) == x.market = y.market /\ x.cluster = y.cluster

\* y was let through when x had its time, and a cooldown after x was let through
Follows(y, x) ==
  /\ y.armed >= x.at
  /\ x.run = y.run => y.armed - x.armed >= Cooldown

\* Two alerts of one market and cluster never come out of overlapping scorings:
\* the later one is let through only after the earlier one was dated, and a whole
\* cooldown after the earlier one was let through when one process emitted both
\* (lines 237, 269-273, 305).  This holds also when a refresh in mid-iteration
\* makes the loop meet a market twice.  The times stored are later than the stamps
\* compared, so two rows of a pair may lie closer than the cooldown, by the time
\* the earlier alert's evaluation had been running when it was dated.
CooldownHeld ==
  \A x, y \in Emitted :
    SamePair(x, y) /\ x # y => Follows(x, y) \/ Follows(y, x)

\* The cluster map is at all times a whole refresh's market map seen through the
\* address map in use; outside a refresh it is the current market map's, unless the
\* last refresh died between its two queries (lines 159-174).
MapsCoherent ==
  /\ clusterTraders = ClustersOf(described, addrToCluster)
  /\ refreshPC # "half" /\ ~torn => described = marketTraders

BeingScored(m, c) == evalPC = "risk" /\ curMarket.market = m /\ scored.cluster = c

Accounted(m, c) ==
  \/ lastAlertAt[<<m, c>>] = 0
  \/ lastAlertAt[<<m, c>>] \in abortedAt
  \/ BeingScored(m, c) /\ lastAlertAt[<<m, c>>] = evalNow
  \/ \E a \in Emitted : /\ a.market = m /\ a.cluster = c
                       /\ a.run = run /\ a.armed = lastAlertAt[<<m, c>>]

\* A pair whose cooldown is armed has its alert stored, collected or being
\* scored, unless the evaluation that armed it ended in an exception: only an
\* exception can mute a pair for a cooldown without an alert (line 273).
ArmedIsAccounted == \A m \in Conditions, c \in Clusters : Accounted(m, c)

\* Once a pair is scored its entity risk always yields one more alert: the
\* composite gate of line 302 discards nothing the earlier gates let through,
\* and the cooldown keeps the pair from being collected already.
ScoredAlwaysAlerts ==
  [][evalPC = "risk" /\ evalPC' = "cluster" => pending' # pending]_vars

\* An evaluation ends and eval_loop sleeps again, whatever a refresh does to the
\* dict under iteration and whichever database call fails (lines 403-406).
EvaluationEnds == (evalPC = "market") ~> (evalPC = "sleep")

\* README: "when the composite risk score breaches threshold, it emits".
CollectedIsStored ==
  \A p \in Pairs :
    (\E a \in pending : <<a.market, a.cluster>> = p)
      ~> (\E a \in alerts : <<a.market, a.cluster>> = p)

\* "per-cluster stablecoin flow" rolling windows: the series scored for a
\* cluster holds at least what was recorded for the cluster.
ClusterFlowIsRead ==
  \A c \in Clusters : flow[FlowKeyRead(c)] >= flow[FlowKeyWritten(c)]

=============================================================================
