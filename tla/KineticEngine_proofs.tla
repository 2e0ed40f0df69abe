------------------------ MODULE KineticEngine_proofs ------------------------
(***************************************************************************)
(* Safety of the correlation engine for every set of markets, addresses    *)
(* and clusters, every cooldown and every bound.                           *)
(***************************************************************************)
EXTENDS KineticEngine, FiniteSetTheorems, TLAPS

USE DEF maps, series, loop, evalv, refresh, env, vars

LEMMA KeysFinite ==
  ASSUME KineticAssumption
  PROVE  IsFiniteSet(Keys) /\ Cardinality(Keys) \in Nat
BY FS_Subset, FS_CardinalityType DEF KineticAssumption, Keys

LEMMA ClustersOfType ==
  ASSUME NEW T \in [Conditions -> SUBSET Addrs],
         NEW C \in [Addrs -> Clusters \union {NoCluster}]
  PROVE  ClustersOf(T, C) \in [Conditions -> SUBSET Clusters]
BY DEF ClustersOf

\* Type correctness of the engine's memory and tables.
THEOREM TypeCorrect == Spec => []TypeOK
<1>1. Init => TypeOK
  <2> SUFFICES ASSUME Init PROVE TypeOK OBVIOUS
  <2>1. clusterTraders \in [Conditions -> SUBSET Clusters]
    BY ClustersOfType DEF Init
  <2>2. /\ prob \in [Markets -> Nat] /\ flow \in [FlowKeys -> Nat]
        /\ lastAlertAt \in [Pairs -> Nat]
    BY DEF Init, NoBuckets
  <2>3. /\ marketTraders \in [Conditions -> SUBSET Addrs]
        /\ addrToCluster \in [Addrs -> Clusters \union {NoCluster}]
        /\ described \in [Conditions -> SUBSET Addrs]
        /\ volume = {} /\ todo = {} /\ clustersTodo = {} /\ pending = {}
        /\ alerts = {} /\ abortedAt = {}
        /\ evalPC = "sleep" /\ refreshPC = "wait" /\ torn = FALSE /\ stop = FALSE
    BY DEF Init
  <2>4. /\ evalNow \in Nat /\ evalWake \in Nat /\ iterSize \in Nat /\ consumed \in Nat
        /\ lastRefresh \in Nat /\ now \in Nat /\ run \in Nat /\ faults \in Nat
    BY KineticAssumption DEF Init, KineticAssumption
  <2> QED
    BY <2>1, <2>2, <2>3, <2>4 DEF TypeOK
<1>2. TypeOK /\ [Next]_vars => TypeOK'
  <2> SUFFICES ASSUME TypeOK, [Next]_vars PROVE TypeOK' OBVIOUS
  <2> USE DEF TypeOK
  <2>1. CASE StartEvaluation
    BY <2>1, KineticAssumption, KeysFinite DEF StartEvaluation, Keys
  <2>2. CASE NextMarket
    <3>1. PICK m \in todo :
            /\ todo' = todo \ {m} /\ consumed' = consumed + 1
            /\ \E z \in IF MarketScorable(m) THEN ZScores ELSE {0} :
                 IF z < ZThreshold
                   THEN UNCHANGED <<evalPC, curMarket, clustersTodo>>
                   ELSE /\ evalPC' = "cluster"
                        /\ curMarket' = [market |-> m, z |-> z]
                        /\ clustersTodo' = clusterTraders[m]
      BY <2>2 DEF NextMarket
    <3>2. PICK z \in Nat :
            IF z < ZThreshold
              THEN UNCHANGED <<evalPC, curMarket, clustersTodo>>
              ELSE /\ evalPC' = "cluster"
                   /\ curMarket' = [market |-> m, z |-> z]
                   /\ clustersTodo' = clusterTraders[m]
      BY <3>1, KineticAssumption DEF KineticAssumption
    <3>3. UNCHANGED <<maps, series, evalNow, evalWake, iterSize, scored, pending,
                      lastAlertAt, refresh, env, alerts, abortedAt>>
          /\ evalPC = "market"
      BY <2>2 DEF NextMarket
    <3>4. CASE z < ZThreshold
      BY <3>1, <3>2, <3>3, <3>4
    <3>5. CASE ~(z < ZThreshold)
      BY <3>1, <3>2, <3>3, <3>5
    <3> QED
      BY <3>4, <3>5
  <2>3. CASE IterationBroken
    BY <2>3, KineticAssumption DEF IterationBroken, Abort, ResetLoop, Sleep, KineticAssumption
  <2>4. CASE EndMarkets
    BY <2>4, KineticAssumption DEF EndMarkets, ResetLoop, Sleep, KineticAssumption
  <2>5. CASE NextCluster
    <3>1. PICK c \in clustersTodo, fz \in Nat, corr \in Nat :
            /\ clustersTodo' = clustersTodo \ {c}
            /\ \/ UNCHANGED <<lastAlertAt, scored, evalPC>>
               \/ /\ lastAlertAt' = [lastAlertAt EXCEPT ![<<curMarket.market, c>>] = evalNow]
                  /\ scored' = [cluster |-> c, fz |-> fz, corr |-> corr]
                  /\ evalPC' = "risk"
      BY <2>5, KineticAssumption DEF NextCluster, KineticAssumption
    <3>2. /\ evalPC = "cluster"
          /\ UNCHANGED <<maps, series, evalNow, evalWake, iterSize, consumed, todo, curMarket,
                         pending, refresh, env, alerts, abortedAt>>
      BY <2>5 DEF NextCluster
    <3> QED BY <3>1, <3>2 DEF Pairs
  <2>6. CASE EndClusters
    BY <2>6 DEF EndClusters
  <2>7. CASE EntityRiskReturns
    BY <2>7 DEF EntityRiskReturns, NewAlert, Alert
  <2>8. CASE EntityRiskFails
    BY <2>8, KineticAssumption DEF EntityRiskFails, Abort, ResetLoop, Sleep, KineticAssumption
  <2>9. CASE InsertAlert
    BY <2>9, KineticAssumption DEF InsertAlert, Sleep, KineticAssumption
  <2>10. CASE InsertFails
    BY <2>10, KineticAssumption DEF InsertFails, Abort, ResetLoop, Sleep, KineticAssumption
  <2>11. CASE StopEvaluations
    BY <2>11 DEF StopEvaluations
  <2>12. CASE StartRefresh
    BY <2>12 DEF StartRefresh
  <2>13. CASE RefreshMarkets
    BY <2>13 DEF RefreshMarkets, AtAwait, Keys
  <2>14. CASE RefreshClusters
    BY <2>14, ClustersOfType DEF RefreshClusters
  <2>15. CASE RefreshFails
    BY <2>15 DEF RefreshFails
  <2>16. CASE StopRefreshing
    BY <2>16 DEF StopRefreshing
  <2>17. ASSUME NEW g \in GammaIds, NEW sized \in BOOLEAN, HandleMarketTick(g, sized)
         PROVE  TypeOK'
    BY <2>17, KineticAssumption DEF HandleMarketTick, Markets, KineticAssumption
  <2>18. ASSUME NEW from \in Addrs, NEW to \in Addrs, HandleChainTransfer(from, to)
         PROVE  TypeOK'
    BY <2>18, KineticAssumption DEF HandleChainTransfer, KineticAssumption
  <2>19. CASE Sigterm
    BY <2>19 DEF Sigterm
  <2>20. CASE Tick
    BY <2>20 DEF Tick
  <2>21. CASE Restart
    <3>1. clusterTraders' \in [Conditions -> SUBSET Clusters]
      BY <2>21, ClustersOfType DEF Restart
    <3>2. prob' \in [Markets -> Nat] /\ flow' \in [FlowKeys -> Nat]
          /\ lastAlertAt' \in [Pairs -> Nat]
      BY <2>21 DEF Restart, NoBuckets
    <3>3. /\ marketTraders' \in [Conditions -> SUBSET Addrs]
          /\ addrToCluster' \in [Addrs -> Clusters \union {NoCluster}]
          /\ described' \in [Conditions -> SUBSET Addrs]
          /\ volume' = {} /\ todo' = {} /\ clustersTodo' = {} /\ pending' = {}
          /\ alerts' \subseteq Alert /\ abortedAt' = {}
          /\ evalPC' = "sleep" /\ refreshPC' = "wait" /\ torn' = FALSE /\ stop' = FALSE
      BY <2>21 DEF Restart
    <3>4. /\ evalNow' \in Nat /\ evalWake' \in Nat /\ iterSize' \in Nat
          /\ consumed' \in Nat /\ lastRefresh' \in Nat /\ now' \in Nat
          /\ run' \in Nat /\ faults' \in Nat
      BY <2>21 DEF Restart
    <3> QED
      BY <3>1, <3>2, <3>3, <3>4
  <2>22. CASE UNCHANGED vars
    BY <2>22
  <2> QED
    BY <2>1, <2>2, <2>3, <2>4, <2>5, <2>6, <2>7, <2>8, <2>9, <2>10, <2>11, <2>12, <2>13,
       <2>14, <2>15, <2>16, <2>17, <2>18, <2>19, <2>20, <2>21, <2>22
       DEF Next, Evaluate, Refresh
<1> QED
  BY <1>1, <1>2, PTL DEF Spec

-----------------------------------------------------------------------------
(* The cooldown.  While an evaluation runs, what is emitted was dated before  *)
(* it began or let through by it; so a pair that it lets through has only     *)
(* alerts from before, and those of the process are a cooldown older.         *)

Running(pc) == pc \notin {"sleep", "done"}

\* what is emitted against the stamps and the clock
StampInv ==
  /\ evalNow <= now
  /\ \A x \in Emitted :
       /\ x.run <= run /\ x.at <= now
       /\ x.run = run => x.armed <= lastAlertAt[<<x.market, x.cluster>>]
       /\ Running(evalPC) => x.at <= evalNow \/ (x.run = run /\ x.armed = evalNow)

\* a pair let through by the evaluation whose stamp is n
Behind(x, n) == n >= x.at /\ (x.run = run => n - x.armed >= Cooldown)

\* the pair whose entity risk is awaited is armed, and has earlier alerts only
RiskInv ==
  evalPC = "risk" =>
    /\ lastAlertAt[<<curMarket.market, scored.cluster>>] = evalNow
    /\ \A x \in Emitted :
         x.market = curMarket.market /\ x.cluster = scored.cluster => Behind(x, evalNow)

CooldownInv == StampInv /\ RiskInv /\ CooldownHeld

Steady == UNCHANGED <<lastAlertAt, run, evalNow>> /\ now <= now'

\* nothing new is emitted, and no pair comes to be scored
Quiet ==
  /\ Emitted' \subseteq Emitted /\ Steady
  /\ Running(evalPC') => Running(evalPC)
  /\ evalPC' = "risk" => evalPC = "risk" /\ UNCHANGED <<curMarket, scored>>

Starts ==
  /\ Emitted' \subseteq Emitted /\ UNCHANGED <<lastAlertAt, run, now>>
  /\ evalNow' = now /\ evalPC' = "market"

Reborn ==
  /\ Emitted' \subseteq Emitted /\ run' = run + 1 /\ now' = now
  /\ evalNow' = 0 /\ evalPC' = "sleep"

Arms(m, c) ==
  /\ CooledDown(m, c) /\ evalPC = "cluster" /\ evalPC' = "risk"
  /\ curMarket'.market = m /\ scored'.cluster = c
  /\ Emitted' \subseteq Emitted /\ UNCHANGED <<run, evalNow, now>>
  /\ lastAlertAt' = [lastAlertAt EXCEPT ![<<m, c>>] = evalNow]

Emits ==
  /\ evalPC = "risk" /\ evalPC' = "cluster"
  /\ Emitted' \subseteq Emitted \union {NewAlert} /\ Steady

\* Every step is one of the five.
LEMMA EmissionStep ==
  ASSUME TypeOK, [Next]_vars
  PROVE  \/ Quiet \/ Starts \/ Reborn \/ Emits
         \/ \E m \in Conditions, c \in Clusters : Arms(m, c)
<1> USE DEF Emitted, Quiet, Steady, Running, TypeOK
<1>1. CASE NextCluster
  <2>1. PICK c, fz, corr :
          /\ c \in clustersTodo
          /\ IF /\ fz >= ZThreshold /\ corr >= CorrGate
                /\ CooledDown(curMarket.market, c)
               THEN /\ lastAlertAt' = [lastAlertAt EXCEPT ![<<curMarket.market, c>>] = evalNow]
                    /\ scored' = [cluster |-> c, fz |-> fz, corr |-> corr]
                    /\ evalPC' = "risk"
               ELSE UNCHANGED <<lastAlertAt, scored, evalPC>>
    BY <1>1 DEF NextCluster
  <2>2. /\ evalPC = "cluster" /\ c \in Clusters /\ curMarket.market \in Conditions
        /\ UNCHANGED <<alerts, pending, evalNow, now, run, curMarket>>
    BY <1>1, <2>1 DEF NextCluster
  <2>3. CASE UNCHANGED <<lastAlertAt, scored, evalPC>>
    BY <2>2, <2>3
  <2>4. CASE /\ CooledDown(curMarket.market, c) /\ evalPC' = "risk"
             /\ lastAlertAt' = [lastAlertAt EXCEPT ![<<curMarket.market, c>>] = evalNow]
             /\ scored' = [cluster |-> c, fz |-> fz, corr |-> corr]
    <3>1. Arms(curMarket.market, c)
      BY <2>2, <2>4 DEF Arms
    <3> QED BY <2>2, <3>1
  <2> QED BY <2>1, <2>3, <2>4
<1>2. CASE StartEvaluation
  BY <1>2 DEF StartEvaluation, Starts
<1>3. CASE EndMarkets \/ EndClusters \/ StopEvaluations
  BY <1>3 DEF EndMarkets, ResetLoop, Sleep, EndClusters, StopEvaluations
<1>4. CASE NextMarket
  BY <1>4 DEF NextMarket
<1>5. CASE IterationBroken \/ EntityRiskFails
  BY <1>5 DEF IterationBroken, EntityRiskFails, Abort, ResetLoop, Sleep
<1>6. CASE EntityRiskReturns
  BY <1>6 DEF EntityRiskReturns, Emits
<1>7. CASE InsertAlert \/ InsertFails
  BY <1>7 DEF InsertAlert, InsertFails, Abort, ResetLoop, Sleep
<1>8. CASE StartRefresh \/ Refresh \/ StopRefreshing
  BY <1>8 DEF StartRefresh, Refresh, RefreshMarkets, RefreshClusters, RefreshFails,
              StopRefreshing
<1>9. ASSUME NEW g \in GammaIds, NEW sized \in BOOLEAN, HandleMarketTick(g, sized)
      PROVE  Quiet
  BY <1>9 DEF HandleMarketTick
<1>10. ASSUME NEW from \in Addrs, NEW to \in Addrs, HandleChainTransfer(from, to)
       PROVE  Quiet
  BY <1>10 DEF HandleChainTransfer
<1>11. CASE Sigterm \/ Tick \/ UNCHANGED vars
  BY <1>11 DEF Sigterm, Tick
<1>12. CASE Restart
  BY <1>12 DEF Restart, Reborn
<1> QED
  BY <1>1, <1>2, <1>3, <1>4, <1>5, <1>6, <1>7, <1>8, <1>9, <1>10, <1>11, <1>12
     DEF Next, Evaluate

\* A cooled-down pair of a running evaluation has earlier alerts only.
LEMMA CooledDownIsBehind ==
  ASSUME TypeOK, StampInv, Running(evalPC), NEW m \in Conditions, NEW c \in Clusters,
         CooledDown(m, c), NEW x \in Emitted, x.market = m, x.cluster = c
  PROVE  Behind(x, evalNow)
<1>1. x \in Alert
  BY DEF TypeOK, Emitted
<1>2. /\ x.at \in Nat /\ x.armed \in Nat /\ evalNow \in Nat /\ lastAlertAt[<<m, c>>] \in Nat
      /\ Cooldown \in Nat \ {0}
  BY <1>1, KineticAssumption DEF Alert, TypeOK, Pairs, KineticAssumption
<1>3. evalNow - lastAlertAt[<<m, c>>] >= Cooldown
  BY DEF CooledDown
<1>4. /\ x.run = run => x.armed <= lastAlertAt[<<m, c>>]
      /\ x.at <= evalNow \/ (x.run = run /\ x.armed = evalNow)
  BY DEF StampInv
<1>5. x.run = run => evalNow - x.armed >= Cooldown /\ x.armed # evalNow
  BY <1>2, <1>3, <1>4
<1> QED BY <1>2, <1>4, <1>5 DEF Behind

LEMMA CooldownStep ==
  ASSUME TypeOK, TypeOK', CooldownInv, [Next]_vars
  PROVE  CooldownInv'
<1>1. /\ \A x \in Emitted  : x.at \in Nat /\ x.armed \in Nat /\ x.run \in Nat
                             /\ x.market \in Conditions /\ x.cluster \in Clusters
      /\ evalNow \in Nat /\ now \in Nat /\ now' \in Nat /\ run \in Nat /\ Cooldown \in Nat \ {0}
  BY KineticAssumption DEF TypeOK, Emitted, Alert, KineticAssumption
<1>2. CASE Quiet
  <2>1. StampInv'
    BY <1>1, <1>2 DEF Quiet, Steady, CooldownInv, StampInv
  <2>2. RiskInv'
    BY <1>2 DEF Quiet, Steady, CooldownInv, RiskInv, Behind
  <2>3. CooldownHeld'
    BY <1>2 DEF Quiet, CooldownInv, CooldownHeld, SamePair, Follows
  <2> QED BY <2>1, <2>2, <2>3 DEF CooldownInv
<1>3. CASE Starts
  <2>1. StampInv' /\ RiskInv'
    BY <1>1, <1>3 DEF Starts, CooldownInv, StampInv, RiskInv
  <2>2. CooldownHeld'
    BY <1>3 DEF Starts, CooldownInv, CooldownHeld, SamePair, Follows
  <2> QED BY <2>1, <2>2 DEF CooldownInv
<1>4. CASE Reborn
  <2>1. ASSUME NEW x \in Emitted PROVE x.run <= run' /\ x.run # run'
    <3>1. x.run <= run /\ run' = run + 1
      BY <1>4 DEF Reborn, CooldownInv, StampInv
    <3> QED BY <1>1, <3>1
  <2>2. StampInv' /\ RiskInv'
    <3>1. /\ evalNow' <= now' /\ ~Running(evalPC') /\ evalPC' # "risk"
          /\ \A x \in Emitted : x.at <= now'
      <4>1. \A x \in Emitted : x.at <= now
        BY DEF CooldownInv, StampInv
      <4>2. now' = now /\ evalNow' = 0 /\ evalPC' = "sleep"
        BY <1>4 DEF Reborn
      <4> QED BY <1>1, <4>1, <4>2 DEF Running
    <3> QED BY <1>4, <2>1, <3>1 DEF Reborn, StampInv, RiskInv
  <2>3. CooldownHeld'
    BY <1>4 DEF Reborn, CooldownInv, CooldownHeld, SamePair, Follows
  <2> QED BY <2>2, <2>3 DEF CooldownInv
<1>5. ASSUME NEW m \in Conditions, NEW c \in Clusters, Arms(m, c)
      PROVE  CooldownInv'
  <2>1. Running(evalPC) /\ CooledDown(m, c)
    BY <1>5 DEF Arms, Running
  <2>2. \A x \in Emitted : x.market = m /\ x.cluster = c => Behind(x, evalNow)
    BY <2>1, CooledDownIsBehind DEF CooldownInv
  <2>3. /\ \A p \in Pairs : lastAlertAt'[p] = IF p = <<m, c>> THEN evalNow ELSE lastAlertAt[p]
        /\ <<m, c>> \in Pairs
    BY <1>5 DEF Arms, TypeOK, Pairs
  <2>4. \A x \in Emitted : <<x.market, x.cluster>> \in Pairs
    BY <1>1 DEF Pairs
  <2>5. RiskInv'
    BY <1>5, <2>2, <2>3 DEF Arms, RiskInv, Behind
  <2>6. StampInv'
    <3>1. \A x \in Emitted : x.run = run => x.armed <= lastAlertAt'[<<x.market, x.cluster>>]
      <4> SUFFICES ASSUME NEW x \in Emitted, x.run = run
                   PROVE  x.armed <= lastAlertAt'[<<x.market, x.cluster>>]
        OBVIOUS
      <4>1. CASE x.market = m /\ x.cluster = c
        BY <4>1, <1>1, <2>2, <2>3 DEF Behind
      <4>2. CASE ~(x.market = m /\ x.cluster = c)
        BY <4>2, <2>3, <2>4 DEF CooldownInv, StampInv
      <4> QED BY <4>1, <4>2
    <3> QED BY <1>5, <2>1, <3>1 DEF Arms, CooldownInv, StampInv
  <2>7. CooldownHeld'
    BY <1>5 DEF Arms, CooldownInv, CooldownHeld, SamePair, Follows
  <2> QED BY <2>5, <2>6, <2>7 DEF CooldownInv
<1>6. CASE Emits
  <2> DEFINE new == NewAlert
  <2>1. /\ new.market = curMarket.market /\ new.cluster = scored.cluster
        /\ new.armed = evalNow /\ new.at = now /\ new.run = run
    BY DEF NewAlert
  <2>2. /\ Emitted' \subseteq Emitted \union {new}
        /\ lastAlertAt' = lastAlertAt /\ run' = run /\ evalNow' = evalNow /\ now <= now'
        /\ Running(evalPC) /\ evalPC' # "risk"
    BY <1>6 DEF Emits, Steady, Running
  <2>3. /\ lastAlertAt[<<curMarket.market, scored.cluster>>] = evalNow
        /\ \A x \in Emitted :
             x.market = new.market /\ x.cluster = new.cluster => Behind(x, evalNow)
    BY <1>6, <2>1 DEF Emits, CooldownInv, RiskInv
  <2> HIDE DEF new
  <2>4. StampInv'
    <3>1. evalNow <= now
      BY DEF CooldownInv, StampInv
    <3> SUFFICES ASSUME NEW x \in Emitted'
                 PROVE  /\ x.run <= run /\ x.at <= now'
                        /\ x.run = run => x.armed <= lastAlertAt[<<x.market, x.cluster>>]
                        /\ x.at <= evalNow \/ (x.run = run /\ x.armed = evalNow)
      BY <1>1, <2>2, <3>1 DEF StampInv
    <3>2. CASE x \in Emitted
      BY <1>1, <2>2, <3>2 DEF CooldownInv, StampInv
    <3>3. CASE x = new
      BY <1>1, <2>1, <2>2, <2>3, <3>3
    <3> QED BY <2>2, <3>2, <3>3
  <2>5. RiskInv'
    BY <2>2 DEF RiskInv
  <2>6. CooldownHeld'
    <3> SUFFICES ASSUME NEW x \in Emitted', NEW y \in Emitted', SamePair(x, y), x # y
                 PROVE  Follows(x, y) \/ Follows(y, x)
      BY DEF CooldownHeld, SamePair, Follows
    <3>1. CASE x \in Emitted /\ y \in Emitted
      BY <3>1 DEF CooldownInv, CooldownHeld
    <3>2. CASE x = new /\ y \in Emitted
      BY <3>2, <2>1, <2>3 DEF SamePair, Follows, Behind
    <3>3. CASE y = new /\ x \in Emitted
      BY <3>3, <2>1, <2>3 DEF SamePair, Follows, Behind
    <3> QED BY <2>2, <3>1, <3>2, <3>3
  <2> QED BY <2>4, <2>5, <2>6 DEF CooldownInv
<1> QED
  BY <1>2, <1>3, <1>4, <1>5, <1>6, EmissionStep

LEMMA CooldownInit ==
  ASSUME Init
  PROVE  CooldownInv
BY KineticAssumption
   DEF Init, CooldownInv, StampInv, RiskInv, CooldownHeld, Emitted, KineticAssumption

\* The cooldown holds for every instance, over awaits, refreshes and restarts.
THEOREM CooldownTheorem == Spec => []CooldownHeld
<1>1. Init => CooldownInv
  BY CooldownInit
<1>2. TypeOK /\ TypeOK' /\ CooldownInv /\ [Next]_vars => CooldownInv'
  BY CooldownStep
<1>3. CooldownInv => CooldownHeld
  BY DEF CooldownInv
<1> QED
  BY <1>1, <1>2, <1>3, TypeCorrect, PTL DEF Spec

-----------------------------------------------------------------------------
(* The two joins.  Only ids of ticks and addresses of transfers get buckets *)
(* under a key that evaluate() looks up.                                    *)

\* An alert needs a market whose ticks carry the id its fills carry and a
\* cluster whose id is an address that transfers name: the two joins of
\* evaluate() (lines 242 and 253) are on exactly those keys.
AlertNeedsSharedKeys ==
  /\ \A a \in Emitted : a.market \in GammaIds /\ a.cluster \in Addrs \ SkipAddrs
  /\ evalPC = "risk" => scored.cluster \in Addrs \ SkipAddrs

\* Buckets exist under ids of ticks, addresses and prefixed cluster keys only.
KeyInv ==
  /\ \A k \in Markets  : prob[k] # 0 => k \in GammaIds
  /\ \A k \in FlowKeys : flow[k] # 0 => k \in (Addrs \ SkipAddrs) \union ClusterKeys
  /\ evalPC \in {"cluster", "risk"} => curMarket.market \in GammaIds
  /\ AlertNeedsSharedKeys

LEMMA KeyStep ==
  ASSUME TypeOK, KeyInv, [Next]_vars
  PROVE  KeyInv'
<1> USE DEF KeyInv, AlertNeedsSharedKeys, Emitted, NewAlert
<1>1. CASE NextMarket
  <2>1. PICK m \in todo : \E z \in IF MarketScorable(m) THEN ZScores ELSE {0} :
          IF z < ZThreshold
            THEN UNCHANGED <<evalPC, curMarket>>
            ELSE evalPC' = "cluster" /\ curMarket' = [market |-> m, z |-> z]
    BY <1>1 DEF NextMarket
  <2>2. evalPC = "market" /\ UNCHANGED <<prob, flow, alerts, pending>>
    BY <1>1 DEF NextMarket
  <2>3. CASE MarketScorable(m)
    <3>1. m \in GammaIds
      BY <2>3 DEF MarketScorable, TypeOK
    <3> QED BY <2>1, <2>2, <3>1
  <2>4. CASE ~MarketScorable(m)
    <3>1. evalPC' = "market"
      BY <2>1, <2>2, <2>4 DEF ZThreshold
    <3> QED BY <2>2, <3>1
  <2> QED BY <2>3, <2>4
<1>2. CASE NextCluster
  <2>1. PICK c \in clustersTodo : \E fz \in (IF FlowScorable(c) THEN ZScores ELSE {0}), corr \in Corrs :
          IF /\ fz >= ZThreshold /\ corr >= CorrGate
             /\ CooledDown(curMarket.market, c)
            THEN /\ scored' = [cluster |-> c, fz |-> fz, corr |-> corr]
                 /\ evalPC' = "risk"
            ELSE UNCHANGED <<scored, evalPC>>
    BY <1>2 DEF NextCluster
  <2>2. /\ evalPC = "cluster" /\ c \in Clusters
        /\ UNCHANGED <<prob, flow, alerts, pending, curMarket>>
    BY <1>2 DEF NextCluster, TypeOK
  <2>3. CASE FlowScorable(c)
    <3>1. flow[c] # 0
      BY <2>3, KineticAssumption DEF FlowScorable, FlowKeyRead, KineticAssumption
    <3>2. c \in Addrs \ SkipAddrs
      BY <3>1, <2>2, KineticAssumption DEF KineticAssumption, FlowKeys
    <3> QED BY <2>1, <2>2, <3>2
  <2>4. CASE ~FlowScorable(c)
    <3>1. evalPC' = "cluster"
      BY <2>1, <2>2, <2>4 DEF ZThreshold
    <3> QED BY <2>2, <3>1
  <2> QED BY <2>3, <2>4
<1>3. ASSUME NEW g \in GammaIds, NEW sized \in BOOLEAN, HandleMarketTick(g, sized)
      PROVE  KeyInv'
  <2>1. /\ UNCHANGED <<flow, evalPC, curMarket, scored, alerts, pending, evalNow, run>>
        /\ \A k \in Markets : k # g => prob'[k] = prob[k]
    BY <1>3 DEF HandleMarketTick, TypeOK
  <2> QED BY <2>1
<1>4. ASSUME NEW from \in Addrs, NEW to \in Addrs, HandleChainTransfer(from, to)
      PROVE  KeyInv'
  <2>1. /\ UNCHANGED <<prob, evalPC, curMarket, scored, alerts, pending, evalNow, run>>
        /\ \A k \in FlowKeys : k \notin Touched(from, to) => flow'[k] = flow[k]
    BY <1>4 DEF HandleChainTransfer
  <2>2. Touched(from, to) \subseteq (Addrs \ SkipAddrs) \union ClusterKeys
    BY DEF Touched, ClusterKeys, TypeOK
  <2> QED BY <2>1, <2>2
<1>5. CASE Restart
  <2>1. /\ prob' = NoBuckets(Markets) /\ flow' = NoBuckets(FlowKeys)
        /\ evalPC' = "sleep" /\ pending' = {} /\ alerts' = alerts
    BY <1>5 DEF Restart
  <2> QED BY <2>1 DEF NoBuckets
<1>6. CASE StartEvaluation \/ EndMarkets \/ EndClusters \/ StopEvaluations
  BY <1>6 DEF StartEvaluation, EndMarkets, ResetLoop, Sleep, EndClusters, StopEvaluations
<1>7. CASE IterationBroken \/ EntityRiskFails
  BY <1>7 DEF IterationBroken, EntityRiskFails, Abort, ResetLoop, Sleep
<1>8. CASE EntityRiskReturns
  BY <1>8 DEF EntityRiskReturns
<1>9. CASE InsertAlert \/ InsertFails
  BY <1>9 DEF InsertAlert, InsertFails, Abort, ResetLoop, Sleep
<1>10. CASE StartRefresh \/ Refresh \/ StopRefreshing
  BY <1>10 DEF StartRefresh, Refresh, RefreshMarkets, RefreshClusters, RefreshFails,
               StopRefreshing
<1>11. CASE Sigterm \/ Tick \/ UNCHANGED vars
  BY <1>11 DEF Sigterm, Tick
<1> QED
  BY <1>1, <1>2, <1>3, <1>4, <1>5, <1>6, <1>7, <1>8, <1>9, <1>10, <1>11
     DEF Next, Evaluate

LEMMA KeyInvariant == Spec => []KeyInv
<1>1. Init => KeyInv
  BY DEF Init, KeyInv, AlertNeedsSharedKeys, Emitted, NoBuckets
<1>2. TypeOK /\ KeyInv /\ [Next]_vars => KeyInv'
  BY KeyStep
<1> QED
  BY <1>1, <1>2, TypeCorrect, PTL DEF Spec

\* Every alert joins on a shared market id and an address-named cluster.
THEOREM JoinTheorem == Spec => []AlertNeedsSharedKeys
<1>1. KeyInv => AlertNeedsSharedKeys
  BY DEF KeyInv
<1> QED
  BY <1>1, KeyInvariant, PTL

\* When no cluster id is an address, as with the ids the entity resolution
\* writes, or ticks and fills never name a market alike, no pair is ever scored
\* and no alert collected or stored (lines 242, 253).
THEOREM PipelineIdsNeverAlert ==
  ASSUME Clusters \intersect Addrs = {} \/ GammaIds \intersect Conditions = {}
  PROVE  Spec => [](Emitted = {} /\ evalPC # "risk")
<1>1. ASSUME TypeOK, KeyInv, NEW a \in Emitted PROVE FALSE
  <2>1. a \in Alert
    BY <1>1 DEF Emitted, TypeOK, Alert
  <2>2. a.market \in Conditions /\ a.cluster \in Clusters
    BY <2>1 DEF Alert
  <2>3. a.market \in GammaIds /\ a.cluster \in Addrs
    BY <1>1 DEF KeyInv, AlertNeedsSharedKeys
  <2> QED
    BY <2>2, <2>3
<1>2. ASSUME TypeOK, KeyInv, evalPC = "risk" PROVE FALSE
  <2>1. curMarket.market \in Conditions /\ scored.cluster \in Clusters
    BY <1>2 DEF TypeOK
  <2>2. curMarket.market \in GammaIds /\ scored.cluster \in Addrs
    BY <1>2 DEF KeyInv, AlertNeedsSharedKeys
  <2> QED
    BY <2>1, <2>2
<1>3. TypeOK /\ KeyInv => Emitted = {} /\ evalPC # "risk"
  BY <1>1, <1>2
<1> QED
  BY <1>3, TypeCorrect, KeyInvariant, PTL

-----------------------------------------------------------------------------
(* The maps, the accounting of armed pairs, and the composite gate.        *)

\* The maps agree outside a refresh.
THEOREM MapsTheorem == Spec => []MapsCoherent
<1>1. Init => MapsCoherent
  BY DEF Init, MapsCoherent
<1>2. TypeOK /\ MapsCoherent /\ [Next]_vars => MapsCoherent'
  <2> SUFFICES ASSUME TypeOK, MapsCoherent, [Next]_vars PROVE MapsCoherent' OBVIOUS
  <2> USE DEF MapsCoherent
  <2>1. CASE Evaluate
    BY <2>1 DEF Evaluate, StartEvaluation, NextMarket, IterationBroken, EndMarkets, NextCluster,
                EndClusters, EntityRiskReturns, EntityRiskFails, InsertAlert, InsertFails
  <2>2. CASE StopEvaluations \/ StartRefresh \/ StopRefreshing \/ Sigterm \/ Tick \/ UNCHANGED vars
    BY <2>2 DEF StopEvaluations, StartRefresh, StopRefreshing, Sigterm, Tick
  <2>3. CASE RefreshMarkets
    BY <2>3 DEF RefreshMarkets
  <2>4. CASE RefreshClusters
    BY <2>4 DEF RefreshClusters
  <2>5. CASE RefreshFails
    BY <2>5 DEF RefreshFails, TypeOK
  <2>6. CASE Restart
    BY <2>6 DEF Restart
  <2>7. ASSUME NEW g \in GammaIds, NEW sized \in BOOLEAN, HandleMarketTick(g, sized)
        PROVE  MapsCoherent'
    BY <2>7 DEF HandleMarketTick
  <2>8. ASSUME NEW from \in Addrs, NEW to \in Addrs, HandleChainTransfer(from, to)
        PROVE  MapsCoherent'
    BY <2>8 DEF HandleChainTransfer
  <2> QED
    BY <2>1, <2>2, <2>3, <2>4, <2>5, <2>6, <2>7, <2>8 DEF Next, Refresh
<1> QED
  BY <1>1, <1>2, TypeCorrect, PTL DEF Spec

\* A pair under scoring passed the earlier gates.
ScoreInv ==
  /\ evalPC \in {"cluster", "risk"} => curMarket.z >= ZThreshold
  /\ evalPC = "risk" => scored.fz >= ZThreshold /\ scored.corr >= CorrGate

\* Past the z-score and correlation gates the composite exceeds its own.
LEMMA CompositeExceedsGate ==
  ASSUME NEW z \in Nat, NEW fz \in Nat, NEW w \in Weights, NEW corr \in Nat,
         z >= ZThreshold, fz >= ZThreshold, corr >= CorrGate
  PROVE  ~(Composite(z, fz, w, corr) < CompositeGate)
<1>1. z * fz \in Nat /\ z * fz >= 400
  BY DEF ZThreshold
<1>2. w \in Nat /\ w >= 2
  BY DEF Weights
<1>3. (z * fz) * w \in Nat /\ (z * fz) * w >= 800
  BY <1>1, <1>2
<1>4. 10 + corr \in Nat /\ 10 + corr >= 13
  BY DEF CorrGate
<1>5. /\ ((z * fz) * w) * (10 + corr) \in Nat
      /\ ((z * fz) * w) * (10 + corr) >= 800 * 13
  BY <1>3, <1>4
<1>6. Composite(z, fz, w, corr) = ((z * fz) * w) * (10 + corr)
  BY DEF Composite
<1>7. \A n \in Nat : n >= 800 * 13 => ~(n < CompositeGate)
  BY DEF CompositeGate
<1> QED
  BY <1>5, <1>6, <1>7

LEMMA ScoredCollects ==
  ASSUME TypeOK, ScoreInv, EntityRiskReturns
  PROVE  pending' = pending \union {NewAlert}
<1>1. PICK w \in Weights :
        pending' = IF Composite(curMarket.z, scored.fz, w, scored.corr) < CompositeGate
                     THEN pending ELSE pending \union {NewAlert}
  BY DEF EntityRiskReturns
<1>2. /\ curMarket.z \in Nat /\ scored.fz \in Nat /\ scored.corr \in Nat
      /\ curMarket.z >= ZThreshold /\ scored.fz >= ZThreshold /\ scored.corr >= CorrGate
  BY DEF TypeOK, ScoreInv, EntityRiskReturns
<1>3. ~(Composite(curMarket.z, scored.fz, w, scored.corr) < CompositeGate)
  BY <1>2, CompositeExceedsGate
<1> QED
  BY <1>1, <1>3

LEMMA ScoreStep ==
  ASSUME TypeOK, ScoreInv, [Next]_vars
  PROVE  ScoreInv'
<1> USE DEF ScoreInv
<1>1. CASE NextMarket
  <2>1. PICK m, z :
          IF z < ZThreshold
            THEN UNCHANGED <<evalPC, curMarket>>
            ELSE evalPC' = "cluster" /\ curMarket' = [market |-> m, z |-> z]
        /\ z \in Nat
    BY <1>1, KineticAssumption DEF NextMarket, KineticAssumption
  <2>2. evalPC = "market"
    BY <1>1 DEF NextMarket
  <2> QED BY <2>1, <2>2 DEF ZThreshold
<1>2. CASE NextCluster
  <2>1. PICK c, fz, corr :
          /\ c \in clustersTodo
          /\ IF /\ fz >= ZThreshold /\ corr >= CorrGate
                /\ CooledDown(curMarket.market, c)
               THEN /\ scored' = [cluster |-> c, fz |-> fz, corr |-> corr]
                    /\ evalPC' = "risk"
               ELSE UNCHANGED <<scored, evalPC>>
    BY <1>2 DEF NextCluster
  <2>2. /\ evalPC = "cluster" /\ c \in Clusters /\ curMarket.market \in Conditions
        /\ UNCHANGED <<pending, evalNow, run, curMarket>>
    BY <1>2, <2>1 DEF NextCluster, TypeOK
  <2>3. CASE UNCHANGED <<scored, evalPC>>
    BY <2>2, <2>3
  <2>4. CASE /\ fz >= ZThreshold /\ corr >= CorrGate /\ CooledDown(curMarket.market, c)
             /\ scored' = [cluster |-> c, fz |-> fz, corr |-> corr] /\ evalPC' = "risk"
    BY <2>2, <2>4
  <2> QED BY <2>1, <2>3, <2>4
<1>3. CASE StartEvaluation \/ EndMarkets \/ EndClusters \/ StopEvaluations
  BY <1>3 DEF StartEvaluation, EndMarkets, ResetLoop, Sleep, EndClusters, StopEvaluations
<1>4. CASE IterationBroken \/ EntityRiskFails
  BY <1>4 DEF IterationBroken, EntityRiskFails, Abort, ResetLoop, Sleep
<1>5. CASE EntityRiskReturns
  BY <1>5 DEF EntityRiskReturns
<1>6. CASE InsertAlert \/ InsertFails
  BY <1>6 DEF InsertAlert, InsertFails, Abort, ResetLoop, Sleep
<1>7. CASE StartRefresh \/ Refresh \/ StopRefreshing
  BY <1>7 DEF StartRefresh, Refresh, RefreshMarkets, RefreshClusters, RefreshFails,
              StopRefreshing
<1>8. ASSUME NEW g \in GammaIds, NEW sized \in BOOLEAN, HandleMarketTick(g, sized)
      PROVE  ScoreInv'
  BY <1>8 DEF HandleMarketTick
<1>9. ASSUME NEW from \in Addrs, NEW to \in Addrs, HandleChainTransfer(from, to)
      PROVE  ScoreInv'
  BY <1>9 DEF HandleChainTransfer
<1>10. CASE Sigterm \/ Tick \/ UNCHANGED vars
  BY <1>10 DEF Sigterm, Tick
<1>11. CASE Restart
  BY <1>11 DEF Restart
<1> QED
  BY <1>1, <1>2, <1>3, <1>4, <1>5, <1>6, <1>7, <1>8, <1>9, <1>10, <1>11
     DEF Next, Evaluate

LEMMA ScoreInvariant == Spec => [](TypeOK /\ CooldownInv /\ ScoreInv)
<1>1. Init => CooldownInv /\ ScoreInv
  BY CooldownInit DEF Init, ScoreInv
<1>2. TypeOK /\ TypeOK' /\ CooldownInv /\ ScoreInv /\ [Next]_vars => CooldownInv' /\ ScoreInv'
  BY CooldownStep, ScoreStep
<1> QED
  BY <1>1, <1>2, TypeCorrect, PTL DEF Spec

\* An awaited pair is armed now, so what is collected of it is older.
LEMMA NotCollectedYet ==
  ASSUME TypeOK, CooldownInv, evalPC = "risk"
  PROVE  NewAlert \notin pending
<1> SUFFICES ASSUME NewAlert \in Emitted PROVE FALSE
  BY DEF Emitted
<1>1. /\ NewAlert.market = curMarket.market /\ NewAlert.cluster = scored.cluster
      /\ NewAlert.armed = evalNow /\ NewAlert.run = run
  BY DEF NewAlert
<1>2. Behind(NewAlert, evalNow)
  BY <1>1 DEF CooldownInv, RiskInv
<1>3. evalNow - evalNow >= Cooldown /\ evalNow \in Nat /\ Cooldown \in Nat \ {0}
  BY <1>1, <1>2, KineticAssumption DEF Behind, TypeOK, KineticAssumption
<1> QED BY <1>3

\* Every scored pair becomes one more alert: the composite gate is dead code.
THEOREM ScoredAlwaysAlertsTheorem == Spec => ScoredAlwaysAlerts
<1>1. ASSUME TypeOK, CooldownInv, ScoreInv, [Next]_vars, evalPC = "risk", evalPC' = "cluster"
      PROVE  pending' # pending
  <2>1. EntityRiskReturns
    BY <1>1 DEF Next, Evaluate, StartEvaluation, NextMarket, IterationBroken, EndMarkets,
       NextCluster, EndClusters, EntityRiskFails, InsertAlert, InsertFails, Abort, Sleep,
       StopEvaluations, StartRefresh, Refresh, RefreshMarkets, RefreshClusters, RefreshFails,
       StopRefreshing, HandleMarketTick, HandleChainTransfer, Sigterm, Tick, Restart
  <2> QED
    BY <1>1, <2>1, ScoredCollects, NotCollectedYet
<1>2. TypeOK /\ CooldownInv /\ ScoreInv /\ [Next]_vars
        => [evalPC = "risk" /\ evalPC' = "cluster" => pending' # pending]_vars
  BY <1>1
<1> QED
  BY <1>2, ScoreInvariant, PTL DEF Spec, ScoredAlwaysAlerts

\* The alerts collected by an evaluation carry its stamp, and none outlives it.
AccountInv ==
  /\ \A a \in pending : a.armed = evalNow /\ a.run = run
  /\ evalPC \in {"sleep", "done"} => pending = {}
  /\ ArmedIsAccounted

LEMMA AccountStep ==
  ASSUME TypeOK, ScoreInv, AccountInv, [Next]_vars
  PROVE  AccountInv'
<1> USE DEF AccountInv, Emitted
<1>1. CASE NextCluster
  <2>1. PICK c, fz, corr :
          /\ c \in clustersTodo
          /\ IF /\ fz >= ZThreshold /\ corr >= CorrGate
                /\ CooledDown(curMarket.market, c)
               THEN /\ lastAlertAt' = [lastAlertAt EXCEPT ![<<curMarket.market, c>>] = evalNow]
                    /\ scored' = [cluster |-> c, fz |-> fz, corr |-> corr]
                    /\ evalPC' = "risk"
               ELSE UNCHANGED <<lastAlertAt, scored, evalPC>>
    BY <1>1 DEF NextCluster
  <2>2. /\ evalPC = "cluster" /\ c \in Clusters /\ curMarket.market \in Conditions
        /\ UNCHANGED <<alerts, pending, evalNow, run, curMarket, abortedAt>>
    BY <1>1, <2>1 DEF NextCluster, TypeOK
  <2>3. CASE UNCHANGED <<lastAlertAt, scored, evalPC>>
    BY <2>2, <2>3 DEF ArmedIsAccounted, Accounted, BeingScored
  <2>4. CASE /\ evalPC' = "risk"
             /\ lastAlertAt' = [lastAlertAt EXCEPT ![<<curMarket.market, c>>] = evalNow]
             /\ scored' = [cluster |-> c, fz |-> fz, corr |-> corr]
    <3>1. ArmedIsAccounted'
      <4> SUFFICES ASSUME NEW n \in Conditions, NEW d \in Clusters PROVE Accounted(n, d)'
        BY DEF ArmedIsAccounted
      <4>1. CASE n = curMarket.market /\ d = c
        <5>1. lastAlertAt'[<<n, d>>] = evalNow
          BY <2>4, <4>1 DEF TypeOK, Pairs
        <5>2. BeingScored(n, d)'
          BY <2>2, <2>4, <4>1 DEF BeingScored
        <5> QED BY <5>1, <5>2, <2>2 DEF Accounted
      <4>2. CASE ~(n = curMarket.market /\ d = c)
        <5>1. lastAlertAt'[<<n, d>>] = lastAlertAt[<<n, d>>]
          BY <2>4, <4>2 DEF TypeOK, Pairs
        <5>2. Emitted \subseteq Emitted'
          BY <2>2
        <5>3. Accounted(n, d)
          BY DEF ArmedIsAccounted
        <5> QED BY <5>1, <5>2, <5>3, <2>2 DEF Accounted, BeingScored
      <4> QED BY <4>1, <4>2
    <3> QED BY <2>2, <2>4, <3>1
  <2> QED BY <2>1, <2>3, <2>4
<1>2. CASE StartEvaluation \/ EndMarkets \/ EndClusters \/ StopEvaluations
  BY <1>2 DEF ArmedIsAccounted, Accounted, BeingScored, StartEvaluation, EndMarkets, ResetLoop, Sleep, EndClusters, StopEvaluations
<1>3. CASE NextMarket
  BY <1>3 DEF ArmedIsAccounted, Accounted, BeingScored, NextMarket
<1>4. CASE IterationBroken
  BY <1>4 DEF ArmedIsAccounted, Accounted, BeingScored, IterationBroken, Abort, ResetLoop, Sleep
<1>5. CASE EntityRiskFails
  BY <1>5 DEF ArmedIsAccounted, Accounted, BeingScored, EntityRiskFails, Abort, ResetLoop, Sleep
<1>6. CASE EntityRiskReturns
  <2>1. pending' = pending \union {NewAlert}
    BY <1>6, ScoredCollects
  <2>2. /\ evalPC = "risk" /\ evalPC' = "cluster"
        /\ UNCHANGED <<lastAlertAt, alerts, abortedAt, evalNow, run>>
    BY <1>6 DEF EntityRiskReturns
  <2>3. /\ NewAlert.market = curMarket.market /\ NewAlert.cluster = scored.cluster
        /\ NewAlert.armed = evalNow /\ NewAlert.run = run
    BY DEF NewAlert
  <2>4. ASSUME NEW m \in Conditions, NEW c \in Clusters PROVE Accounted(m, c)'
    <3>1. Accounted(m, c)
      BY DEF ArmedIsAccounted
    <3>2. CASE BeingScored(m, c) /\ lastAlertAt[<<m, c>>] = evalNow
      BY <2>1, <2>2, <2>3, <3>2 DEF Accounted, BeingScored
    <3>3. CASE ~(BeingScored(m, c) /\ lastAlertAt[<<m, c>>] = evalNow)
      BY <2>1, <2>2, <3>1, <3>3 DEF Accounted
    <3> QED BY <3>2, <3>3
  <2> QED BY <2>1, <2>2, <2>3, <2>4 DEF ArmedIsAccounted
<1>7. CASE InsertAlert
  BY <1>7 DEF ArmedIsAccounted, Accounted, BeingScored, InsertAlert, Sleep
<1>8. CASE InsertFails
  BY <1>8 DEF ArmedIsAccounted, Accounted, BeingScored, InsertFails, Abort, ResetLoop, Sleep
<1>9. CASE StartRefresh \/ Refresh \/ StopRefreshing
  BY <1>9 DEF ArmedIsAccounted, Accounted, BeingScored, StartRefresh, Refresh, RefreshMarkets, RefreshClusters, RefreshFails,
              StopRefreshing
<1>10. ASSUME NEW g \in GammaIds, NEW sized \in BOOLEAN, HandleMarketTick(g, sized)
       PROVE  AccountInv'
  BY <1>10 DEF ArmedIsAccounted, Accounted, BeingScored, HandleMarketTick
<1>11. ASSUME NEW from \in Addrs, NEW to \in Addrs, HandleChainTransfer(from, to)
       PROVE  AccountInv'
  BY <1>11 DEF ArmedIsAccounted, Accounted, BeingScored, HandleChainTransfer
<1>12. CASE Sigterm \/ Tick \/ UNCHANGED vars
  BY <1>12 DEF ArmedIsAccounted, Accounted, BeingScored, Sigterm, Tick
<1>13. CASE Restart
  BY <1>13 DEF ArmedIsAccounted, Accounted, BeingScored, Restart, Pairs
<1> QED
  BY <1>1, <1>2, <1>3, <1>4, <1>5, <1>6, <1>7, <1>8, <1>9, <1>10, <1>11, <1>12, <1>13
     DEF Next, Evaluate

\* An armed cooldown has its alert, unless its evaluation died.
THEOREM AccountTheorem == Spec => []ArmedIsAccounted
<1>1. Init => AccountInv
  BY DEF Init, AccountInv, ArmedIsAccounted, Accounted, Pairs
<1>2. TypeOK /\ ScoreInv /\ AccountInv /\ [Next]_vars => AccountInv'
  BY AccountStep
<1>3. AccountInv => ArmedIsAccounted
  BY DEF AccountInv
<1> QED
  BY <1>1, <1>2, <1>3, ScoreInvariant, PTL DEF Spec

-----------------------------------------------------------------------------
(* Why an evaluation ends.  Each of its steps takes something away from it: *)
(* from the places the iteration still has, from the clusters of the market *)
(* in hand, or from the alerts to be stored; and no other task gives it     *)
(* anything back, in particular not a refresh that changes the dict.        *)

Scanning   == evalPC \in {"market", "cluster", "risk"}
Evaluating == Scanning \/ evalPC = "insert"

\* While the dict keeps its size, an iteration has produced and will produce as
\* many markets as it found; an evaluation that stores has something to store.
IterInv ==
  /\ IsFiniteSet(pending)
  /\ evalPC = "insert" => pending # {}
  /\ Scanning => consumed <= iterSize
  /\ Scanning /\ iterSize = Cardinality(Keys) => consumed + Cardinality(todo) = iterSize

\* The places of the iteration that are left, and what is left at this place.
Outer == IF Scanning THEN 1 + iterSize - consumed ELSE 0
Inner == IF evalPC = "cluster" THEN 1 + 2 * Cardinality(clustersTodo)
         ELSE IF evalPC = "risk" THEN 2 + 2 * Cardinality(clustersTodo)
         ELSE IF evalPC = "insert" THEN Cardinality(pending)
         ELSE 0

Closer == Outer' < Outer \/ (Outer' = Outer /\ Inner' < Inner)

EvaluationShrinks ==
  [][Evaluating /\ Evaluating' /\ run' = run
       => IF Evaluate THEN Closer ELSE UNCHANGED <<Outer, Inner>>]_vars

LEMMA LoopsFinite ==
  ASSUME TypeOK
  PROVE  /\ IsFiniteSet(todo) /\ Cardinality(todo) \in Nat
         /\ IsFiniteSet(clustersTodo) /\ Cardinality(clustersTodo) \in Nat
         /\ IsFiniteSet(Keys) /\ Cardinality(Keys) \in Nat
BY KineticAssumption, KeysFinite, FS_Subset, FS_CardinalityType DEF TypeOK, KineticAssumption

\* one element less
LEMMA OneLess ==
  ASSUME NEW S, IsFiniteSet(S), NEW x \in S
  PROVE  /\ IsFiniteSet(S \ {x})
         /\ Cardinality(S) \in Nat \ {0}
         /\ Cardinality(S \ {x}) = Cardinality(S) - 1
<1>1. Cardinality(S) \in Nat /\ (Cardinality(S) = 0 <=> S = {})
  BY FS_CardinalityType, FS_EmptySet
<1> QED BY <1>1, FS_RemoveElement

LEMMA IterStep ==
  ASSUME TypeOK, IterInv, [Next]_vars
  PROVE  IterInv'
<1> USE DEF IterInv, Scanning
<1>1. CASE StartEvaluation
  <2>1. /\ iterSize' = Cardinality(Keys) /\ consumed' = 0 /\ todo' = Keys
        /\ Keys' = Keys /\ pending' = pending /\ evalPC' = "market"
    BY <1>1 DEF StartEvaluation, Keys
  <2> QED BY <2>1, LoopsFinite
<1>2. CASE NextMarket
  <2>1. PICK m \in todo : todo' = todo \ {m} /\ consumed' = consumed + 1
    BY <1>2 DEF NextMarket
  <2>2. /\ evalPC = "market" /\ iterSize = Cardinality(Keys) /\ evalPC' \in {"market", "cluster"}
        /\ iterSize' = iterSize /\ Keys' = Keys /\ pending' = pending
    BY <1>2 DEF NextMarket, Keys
  <2>3. PICK k \in Nat \ {0} : Cardinality(todo) = k /\ Cardinality(todo') = k - 1
    BY <2>1, LoopsFinite, OneLess
  <2>4. consumed \in Nat /\ iterSize \in Nat
    BY DEF TypeOK
  <2> QED BY <2>1, <2>2, <2>3, <2>4
<1>3. CASE IterationBroken \/ EntityRiskFails \/ InsertFails
  BY <1>3, FS_EmptySet DEF IterationBroken, EntityRiskFails, InsertFails, Abort, ResetLoop, Sleep
<1>4. CASE EndMarkets
  BY <1>4 DEF EndMarkets, ResetLoop, Sleep
<1>5. CASE NextCluster \/ EndClusters \/ StopEvaluations
  BY <1>5 DEF NextCluster, EndClusters, StopEvaluations, Keys
<1>6. CASE EntityRiskReturns
  <2>1. IsFiniteSet(pending')
    BY <1>6, FS_AddElement DEF EntityRiskReturns
  <2> QED BY <1>6, <2>1 DEF EntityRiskReturns, Keys
<1>7. CASE InsertAlert
  <2>1. PICK a \in pending : /\ pending' = pending \ {a}
                             /\ IF pending = {a} THEN Sleep ELSE UNCHANGED <<evalPC, evalWake>>
    BY <1>7 DEF InsertAlert
  <2>2. evalPC = "insert" /\ IsFiniteSet(pending')
    BY <1>7, <2>1, OneLess DEF InsertAlert
  <2> QED BY <2>1, <2>2 DEF Sleep
<1>8. CASE RefreshMarkets
  <2>1. UNCHANGED <<evalPC, iterSize, consumed, pending>>
    BY <1>8 DEF RefreshMarkets
  <2>2. ASSUME Scanning', iterSize' = Cardinality(Keys')
        PROVE  consumed' + Cardinality(todo') = iterSize'
    <3>1. evalPC = "risk"
      BY <1>8, <2>1, <2>2 DEF RefreshMarkets, AtAwait
    <3>2. Cardinality(todo') = iterSize - consumed
      BY <1>8, <2>1, <2>2, <3>1 DEF RefreshMarkets, Iterating
    <3> QED BY <2>1, <3>2 DEF TypeOK
  <2> QED BY <2>1, <2>2
<1>9. CASE StartRefresh \/ RefreshClusters \/ RefreshFails \/ StopRefreshing
  BY <1>9 DEF StartRefresh, RefreshClusters, RefreshFails, StopRefreshing, Keys
<1>10. ASSUME NEW g \in GammaIds, NEW sized \in BOOLEAN, HandleMarketTick(g, sized)
       PROVE  IterInv'
  BY <1>10 DEF HandleMarketTick, Keys
<1>11. ASSUME NEW from \in Addrs, NEW to \in Addrs, HandleChainTransfer(from, to)
       PROVE  IterInv'
  BY <1>11 DEF HandleChainTransfer, Keys
<1>12. CASE Sigterm \/ Tick \/ UNCHANGED vars
  BY <1>12 DEF Sigterm, Tick, Keys
<1>13. CASE Restart
  BY <1>13, FS_EmptySet DEF Restart
<1> QED
  BY <1>1, <1>2, <1>3, <1>4, <1>5, <1>6, <1>7, <1>8, <1>9, <1>10, <1>11, <1>12, <1>13
     DEF Next, Evaluate, Refresh

\* A step of the evaluation leaves less to do.
LEMMA EvaluateShrinks ==
  ASSUME TypeOK, IterInv, Evaluate, Evaluating, Evaluating'
  PROVE  Closer
<1> USE DEF Outer, Inner, Scanning
<1>1. CASE NextMarket
  <2>1. /\ evalPC = "market" /\ evalPC' \in {"market", "cluster"}
        /\ iterSize' = iterSize /\ consumed' = consumed + 1
    BY <1>1 DEF NextMarket
  <2> QED BY <2>1 DEF TypeOK, Closer
<1>2. CASE EndMarkets
  <2>1. evalPC = "market" /\ evalPC' = "insert"
    BY <1>2 DEF EndMarkets, Evaluating, Sleep
  <2> QED BY <2>1 DEF TypeOK, IterInv, Closer
<1>3. CASE NextCluster
  <2>1. PICK c \in clustersTodo : clustersTodo' = clustersTodo \ {c}
    BY <1>3 DEF NextCluster
  <2>2. /\ evalPC = "cluster" /\ evalPC' \in {"cluster", "risk"}
        /\ UNCHANGED <<iterSize, consumed>>
    BY <1>3 DEF NextCluster
  <2>3. PICK k \in Nat \ {0} : Cardinality(clustersTodo) = k /\ Cardinality(clustersTodo') = k - 1
    BY <2>1, LoopsFinite, OneLess
  <2>4. Outer' = Outer
    BY <2>2
  <2>5. Inner = 1 + 2 * k /\ Inner' <= 2 + 2 * (k - 1) /\ Inner' \in Nat
    BY <2>2, <2>3
  <2> QED BY <2>3, <2>4, <2>5 DEF Closer
<1>4. CASE EndClusters
  <2>1. /\ evalPC = "cluster" /\ evalPC' = "market" /\ clustersTodo = {}
        /\ UNCHANGED <<iterSize, consumed>>
    BY <1>4 DEF EndClusters
  <2>2. Inner = 1 /\ Inner' = 0 /\ Outer' = Outer
    BY <2>1, FS_EmptySet
  <2> QED BY <2>2 DEF Closer
<1>5. CASE EntityRiskReturns
  <2>1. /\ evalPC = "risk" /\ evalPC' = "cluster"
        /\ UNCHANGED <<iterSize, consumed, clustersTodo>>
    BY <1>5 DEF EntityRiskReturns
  <2>2. PICK k \in Nat : Cardinality(clustersTodo) = k
    BY LoopsFinite
  <2>3. Outer' = Outer /\ Inner = 2 + 2 * k /\ Inner' = 1 + 2 * k
    BY <2>1, <2>2
  <2> QED BY <2>2, <2>3 DEF Closer
<1>6. CASE InsertAlert
  <2>1. PICK a \in pending : pending' = pending \ {a}
    BY <1>6 DEF InsertAlert
  <2>2. evalPC = "insert" /\ evalPC' = "insert"
    BY <1>6 DEF InsertAlert, Sleep, Evaluating
  <2>3. PICK k \in Nat \ {0} : Cardinality(pending) = k /\ Cardinality(pending') = k - 1
    BY <2>1, OneLess DEF IterInv
  <2> QED BY <2>2, <2>3 DEF Closer
<1>7. CASE StartEvaluation \/ IterationBroken \/ EntityRiskFails \/ InsertFails
  BY <1>7 DEF StartEvaluation, IterationBroken, EntityRiskFails, InsertFails, Abort, Sleep,
              Evaluating
<1> QED BY <1>1, <1>2, <1>3, <1>4, <1>5, <1>6, <1>7 DEF Evaluate

\* Nothing else changes what the evaluation has left to do.
LEMMA OthersKeepRank ==
  ASSUME [Next]_vars, ~Evaluate, Evaluating, Evaluating', run' = run, TypeOK
  PROVE  UNCHANGED <<Outer, Inner>>
<1>1. UNCHANGED <<evalPC, iterSize, consumed, clustersTodo, pending>>
  <2>1. CASE StopEvaluations
    BY <2>1 DEF StopEvaluations, Evaluating, Scanning
  <2>2. CASE StartRefresh \/ Refresh \/ StopRefreshing
    BY <2>2 DEF StartRefresh, Refresh, RefreshMarkets, RefreshClusters, RefreshFails,
                StopRefreshing
  <2>3. ASSUME NEW g \in GammaIds, NEW sized \in BOOLEAN, HandleMarketTick(g, sized)
        PROVE  UNCHANGED <<evalPC, iterSize, consumed, clustersTodo, pending>>
    BY <2>3 DEF HandleMarketTick
  <2>4. ASSUME NEW from \in Addrs, NEW to \in Addrs, HandleChainTransfer(from, to)
        PROVE  UNCHANGED <<evalPC, iterSize, consumed, clustersTodo, pending>>
    BY <2>4 DEF HandleChainTransfer
  <2>5. CASE Sigterm \/ Tick \/ UNCHANGED vars
    BY <2>5 DEF Sigterm, Tick
  <2>6. CASE Restart
    BY <2>6 DEF Restart, TypeOK
  <2> QED BY <2>1, <2>2, <2>3, <2>4, <2>5, <2>6 DEF Next
<1> QED BY <1>1 DEF Outer, Inner, Scanning

\* Within one process an evaluation comes closer to its end with each of its own
\* steps, in a pair of naturals ordered lexicographically, and no tick, transfer,
\* refresh or fault of another task sets it back (lines 236-317 and 391-406).
THEOREM EvaluationShrinksTheorem ==
  Spec => [](Outer \in Nat /\ Inner \in Nat) /\ EvaluationShrinks
<1>1. Init => IterInv
  BY FS_EmptySet DEF Init, IterInv, Scanning
<1>2. TypeOK /\ IterInv /\ [Next]_vars => IterInv'
  BY IterStep
<1>3. TypeOK /\ IterInv => Outer \in Nat /\ Inner \in Nat
  <2> SUFFICES ASSUME TypeOK, IterInv PROVE Outer \in Nat /\ Inner \in Nat OBVIOUS
  <2>1. Outer \in Nat
    BY DEF TypeOK, IterInv, Outer
  <2>2. Inner \in Nat
    BY LoopsFinite, FS_CardinalityType DEF IterInv, Inner
  <2> QED BY <2>1, <2>2
<1>4. TypeOK /\ IterInv /\ [Next]_vars
        => [Evaluating /\ Evaluating' /\ run' = run
              => IF Evaluate THEN Closer ELSE UNCHANGED <<Outer, Inner>>]_vars
  BY EvaluateShrinks, OthersKeepRank
<1> QED
  BY <1>1, <1>2, <1>3, <1>4, TypeCorrect, PTL DEF Spec, EvaluationShrinks

=============================================================================
