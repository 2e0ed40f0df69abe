------------------------ MODULE OntologyLoader_proofs ------------------------
(***************************************************************************)
(* Proofs about the graph loader, for all tables, page sizes, limits and   *)
(* numbers of writes and failures.                                         *)
(***************************************************************************)
EXTENDS OntologyLoader, FiniteSetTheorems, TLAPS

-----------------------------------------------------------------------------
(* The inductive invariant.                                                *)

RiskTypes ==
  /\ wallets \subseteq Addrs /\ clusters \subseteq ClusterIds /\ entities \subseteq EntityIds
  /\ clusterOf \in [Addrs -> ClusterIds \union {0}]
  /\ entityOf \in [Addrs -> EntityIds \union {NoEntity}]

OtherTypes ==
  /\ markets \subseteq Markets /\ fills \subseteq Fills
  /\ transfers \subseteq Txs /\ atStart \subseteq Txs /\ cutoff \in Nat
  /\ alerts \subseteq Alerts

GraphTypes ==
  /\ nodes \subseteq Node /\ filled \subseteq nodes
  /\ \A e \in edges : e[1] \in nodes /\ e[3] \in nodes

LoadTypes ==
  /\ pc \in {"waiting", "retry", "wallets", "entities", "clusters", "fills", "transfers", "alerts"}
  /\ offset \in Nat /\ offset < TxMax + TxBatch
  /\ changes \in 0..MaxChanges /\ failures \in 0..MaxFailures

\* The graph has no cluster and no entity without a row in the tables.
GraphBehind ==
  /\ \A c \in ClusterIds : <<"Cluster", c>> \in nodes => c \in clusters
  /\ \A e \in EntityIds : <<"Entity", e>> \in nodes => e \in entities

\* The transfers newer than t, and those in the graph once offset is past them.
Above(t) == {u \in transfers : u.block > t.block}
Alone(t) == \A u \in transfers : u.block = t.block => u = t
Paged ==
  \A t \in atStart \intersect transfers :
    Alone(t) /\ Cardinality(Above(t)) < offset => <<"Transaction", t>> \in nodes

\* A transfer leaves the window for good.
PagingInv ==
  /\ \A t \in transfers : t.block > cutoff
  /\ \A t \in atStart : t \in transfers \/ t.block <= cutoff
  /\ pc = "transfers" => Paged
  /\ PagedThrough

IInv ==
  /\ RiskTypes /\ OtherTypes /\ GraphTypes /\ LoadTypes
  /\ NamesHaveRows /\ GraphBehind /\ NothingHollow /\ PagingInv

LEMMA IInvImplies == IInv => TypeOK
BY DEF IInv, TypeOK, RiskTypes, OtherTypes, GraphTypes, LoadTypes

LEMMA InitInv == Init => IInv
<1> SUFFICES ASSUME Init PROVE IInv OBVIOUS
<1> USE TablesAssumption, LoaderAssumption
<1>1. RiskTypes BY DEF Init, TablesInit, RiskTypes
<1>2. OtherTypes BY DEF Init, OtherTypes
<1>3. GraphTypes BY DEF Init, GraphTypes
<1>4. LoadTypes BY DEF Init, LoadTypes
<1>5. NamesHaveRows BY DEF Init, TablesInit, NamesHaveRows
<1>6. GraphBehind /\ NothingHollow BY DEF Init, GraphBehind, NothingHollow
<1>7. PagingInv BY DEF Init, PagingInv, PagedThrough
<1> QED BY <1>1, <1>2, <1>3, <1>4, <1>5, <1>6, <1>7 DEF IInv

-----------------------------------------------------------------------------
(* The other services.                                                     *)

\* The tables of wallets, clusters and entities only grow, names after rows.
LEMMA TablesKeep ==
  ASSUME RiskTypes, NamesHaveRows, TablesNext
  PROVE  /\ RiskTypes' /\ NamesHaveRows'
         /\ clusters \subseteq clusters' /\ entities \subseteq entities'
<1> USE TablesAssumption
<1>1. CASE AddWallets BY <1>1 DEF AddWallets, RiskTypes, NamesHaveRows
<1>2. CASE AddEntities BY <1>2 DEF AddEntities, RiskTypes, NamesHaveRows
<1>3. CASE Relabel
  <2>1. RiskTypes' /\ UNCHANGED <<clusters, entities, clusterOf>>
    BY <1>3 DEF Relabel, RiskTypes
  <2>2. \A a \in Addrs : entityOf'[a] # NoEntity => entityOf'[a] \in entities
    BY <1>3 DEF Relabel, Label, NamesHaveRows
  <2> QED BY <2>1, <2>2 DEF NamesHaveRows
<1>4. CASE Recluster
  <2>1. /\ clusters' \subseteq ClusterIds /\ clusters \subseteq clusters'
        /\ clusterOf' \in [Addrs -> clusters' \union {0}]
        /\ UNCHANGED <<wallets, entityOf, entities>>
    BY <1>4 DEF Recluster
  <2>2. \A a \in Addrs : clusterOf'[a] \in ClusterIds \union {0} BY <2>1
  <2>3. clusterOf' \in [Addrs -> ClusterIds \union {0}] BY <2>1, <2>2
  <2>4. RiskTypes' BY <2>1, <2>3 DEF RiskTypes
  <2>5. NamesHaveRows' BY <2>1 DEF NamesHaveRows
  <2> QED BY <2>1, <2>4, <2>5
<1> QED BY <1>1, <1>2, <1>3, <1>4 DEF TablesNext

\* Arrivals and expiry change neither what has been paged nor who is alone in
\* a block, and put a transfer at most further down.
LEMMA WindowMoves ==
  ASSUME OtherTypes, PagingInv, UNCHANGED <<nodes, atStart, pc, offset>>,
         LoadTypes, transfers' \subseteq Txs, cutoff' \in Nat, cutoff' >= cutoff,
         \A t \in transfers' : t.block > cutoff',
         \A t \in transfers : t.block > cutoff' => t \in transfers'
  PROVE  PagingInv'
<1>0. IsFiniteSet(Txs) /\ (\A t \in Txs : t.block \in Nat) /\ TxMax \in Nat
  BY LoaderAssumption
<1>1. \A t \in atStart : t \in transfers' \/ t.block <= cutoff'
  BY <1>0 DEF PagingInv, OtherTypes
<1>2. ASSUME NEW t \in atStart \intersect transfers', Alone(t)'
      PROVE  t \in atStart \intersect transfers /\ Alone(t)
  BY <1>0, <1>2 DEF PagingInv, OtherTypes, Alone
<1>3. ASSUME NEW t \in atStart \intersect transfers', Cardinality(Above(t)') < offset
      PROVE  Cardinality(Above(t)) < offset
  <2>1. Above(t) \subseteq Above(t)' BY <1>0 DEF Above, OtherTypes
  <2>2. Above(t)' \subseteq Txs BY DEF Above
  <2>3. IsFiniteSet(Above(t)') BY <1>0, <2>2, FS_Subset
  <2>4. /\ Cardinality(Above(t)) <= Cardinality(Above(t)')
        /\ IsFiniteSet(Above(t))
    BY <2>1, <2>3, FS_Subset
  <2>5. Cardinality(Above(t)) \in Nat /\ Cardinality(Above(t)') \in Nat /\ offset \in Nat
    BY <2>3, <2>4, FS_CardinalityType DEF LoadTypes
  <2> QED BY <1>3, <2>4, <2>5
<1>4. pc = "transfers" => Paged'
  <2> SUFFICES ASSUME pc = "transfers", NEW t \in atStart \intersect transfers', Alone(t)',
                      Cardinality(Above(t)') < offset
               PROVE  <<"Transaction", t>> \in nodes
    BY DEF Paged
  <2> QED BY <1>2, <1>3 DEF PagingInv, Paged
<1>5. PagedThrough'
  BY <1>2 DEF PagingInv, PagedThrough, Alone
<1> QED BY <1>1, <1>4, <1>5 DEF PagingInv

LEMMA OthersKeep ==
  ASSUME IInv, Others
  PROVE  IInv'
<1> USE LoaderAssumption
<1>0. /\ RiskTypes /\ OtherTypes /\ GraphTypes /\ LoadTypes
      /\ NamesHaveRows /\ GraphBehind /\ NothingHollow /\ PagingInv
  BY DEF IInv
<1>1. Write
  BY DEF Others, WriteRiskTables, AddMarket, AddFill, ExpireFill, AddTransfer, ExpireBlock, AddAlert
<1>2. UNCHANGED <<nodes, edges, filled, pc, offset, atStart, failures>>
  BY <1>1 DEF Write, graph, loader
<1>3. GraphTypes' /\ LoadTypes'
  <2>1. changes' \in 0..MaxChanges BY <1>0, <1>1 DEF Write, LoadTypes
  <2> QED BY <1>0, <1>2, <2>1 DEF GraphTypes, LoadTypes, Node
<1>4. NothingHollow' BY <1>0, <1>2 DEF NothingHollow
<1>5. RiskTypes' /\ NamesHaveRows' /\ clusters \subseteq clusters' /\ entities \subseteq entities'
  <2>1. CASE TablesNext BY <1>0, <2>1, TablesKeep
  <2>2. CASE UNCHANGED riskTables BY <1>0, <2>2 DEF riskTables, RiskTypes, NamesHaveRows
  <2> QED BY <2>1, <2>2
      DEF Others, WriteRiskTables, AddMarket, AddFill, ExpireFill, AddTransfer, ExpireBlock, AddAlert
<1>6. GraphBehind' BY <1>0, <1>2, <1>5 DEF GraphBehind
<1>7. /\ transfers' \subseteq Txs /\ cutoff' \in Nat /\ cutoff' >= cutoff
      /\ \A t \in transfers' : t.block > cutoff'
      /\ \A t \in transfers : t.block > cutoff' => t \in transfers'
  <2>1. CASE UNCHANGED <<transfers, cutoff>> BY <1>0, <2>1 DEF OtherTypes, PagingInv
  <2>2. CASE AddTransfer BY <1>0, <2>2 DEF AddTransfer, OtherTypes, PagingInv
  <2>3. CASE ExpireBlock BY <1>0, <2>3 DEF ExpireBlock, OtherTypes, PagingInv
  <2> QED BY <2>1, <2>2, <2>3
      DEF Others, WriteRiskTables, AddMarket, AddFill, ExpireFill, AddAlert, otherTables
<1>8. PagingInv' BY <1>0, <1>2, <1>7, WindowMoves
<1>9. OtherTypes'
  <2>1. markets' \subseteq Markets /\ fills' \subseteq Fills /\ alerts' \subseteq Alerts
    BY <1>0 DEF Others, WriteRiskTables, AddMarket, AddFill, ExpireFill, AddTransfer, ExpireBlock,
                AddAlert, OtherTypes, otherTables
  <2> QED BY <1>0, <1>2, <1>7, <2>1 DEF OtherTypes
<1> QED BY <1>3, <1>4, <1>5, <1>6, <1>8, <1>9 DEF IInv

-----------------------------------------------------------------------------
(* The load.                                                               *)

\* What every statement of the load keeps: the tables and the counters.
LEMMA LoadLeaves ==
  ASSUME IInv, Load
  PROVE  /\ UNCHANGED tables
         /\ RiskTypes' /\ NamesHaveRows'
         /\ nodes \subseteq nodes' /\ edges \subseteq edges' /\ filled \subseteq filled'
<1>1. UNCHANGED tables
  BY DEF Load, LoadMarkets, LoadWallets, LoadEntities, LoadClusters, LoadFills, LoadTransfers,
         EndTransfers, LoadAlerts
<1>2. RiskTypes' /\ NamesHaveRows'
  BY <1>1 DEF tables, riskTables, IInv, RiskTypes, NamesHaveRows
<1>3. nodes \subseteq nodes' /\ edges \subseteq edges' /\ filled \subseteq filled'
  BY DEF Load, LoadMarkets, LoadWallets, LoadEntities, LoadClusters, LoadFills, LoadTransfers,
         EndTransfers, LoadAlerts, Merge, graph
<1> QED BY <1>1, <1>2, <1>3

\* A statement that pages no transfers.
LEMMA PagingRests ==
  ASSUME IInv, UNCHANGED <<transfers, cutoff>>,
         atStart' = atStart \/ atStart' = {} \/ atStart' = transfers,
         pc' \notin {"transfers", "alerts"}
  PROVE  PagingInv'
BY DEF IInv, PagingInv, PagedThrough

\* A statement that merges rows under one label, and the edges it draws.
LEMMA MergeKeeps ==
  ASSUME IInv, NEW label \in {"Market", "Entity", "Cluster", "Alert"}, NEW keys,
         Merge(label, keys), {label} \X keys \subseteq Node,
         \A e \in edges' : e \in edges \/ (e[1] \in nodes' /\ e[3] \in nodes')
  PROVE  GraphTypes'
<1>1. GraphTypes BY DEF IInv
<1>2. nodes' \subseteq Node' BY <1>1 DEF Merge, GraphTypes, Node
<1>3. filled' \subseteq nodes' BY <1>1 DEF Merge, GraphTypes
<1>4. \A e \in edges' : e[1] \in nodes' /\ e[3] \in nodes' BY <1>1 DEF Merge, GraphTypes
<1> QED BY <1>2, <1>3, <1>4 DEF GraphTypes

LEMMA MarketsKeep ==
  ASSUME IInv, LoadMarkets
  PROVE  GraphTypes' /\ LoadTypes' /\ OtherTypes' /\ GraphBehind' /\ NothingHollow' /\ PagingInv'
<1>0. RiskTypes /\ OtherTypes /\ GraphTypes /\ LoadTypes /\ GraphBehind /\ NothingHollow
  BY DEF IInv
<1>1. /\ Merge("Market", markets) /\ pc' = "wallets"
      /\ UNCHANGED <<tables, edges, offset, atStart>>
  BY DEF LoadMarkets
<1>2. {"Market"} \X markets \subseteq Node BY <1>0 DEF OtherTypes, Node
<1>3. GraphTypes' BY <1>1, <1>2, MergeKeeps
<1>4. LoadTypes' /\ OtherTypes'
  BY <1>0, <1>1 DEF tables, otherTables, LoadTypes, OtherTypes
<1>5. GraphBehind'
  BY <1>0, <1>1 DEF Merge, tables, riskTables, GraphBehind
<1>6. NothingHollow' BY <1>1 DEF NothingHollow
<1>7. PagingInv' BY <1>1, PagingRests DEF tables, otherTables
<1> QED BY <1>3, <1>4, <1>5, <1>6, <1>7

LEMMA WalletsKeep ==
  ASSUME IInv, LoadWallets
  PROVE  GraphTypes' /\ LoadTypes' /\ OtherTypes' /\ GraphBehind' /\ NothingHollow' /\ PagingInv'
<1> USE TablesAssumption
<1>0. /\ RiskTypes /\ OtherTypes /\ GraphTypes /\ LoadTypes /\ GraphBehind /\ NothingHollow
      /\ NamesHaveRows
  BY DEF IInv
<1> DEFINE C == {<<"Cluster", clusterOf[a]>> : a \in Clustered}
           E == {<<"Entity", entityOf[a]>> : a \in Labelled}
           W == {"Wallet"} \X wallets
<1>1. /\ nodes' = nodes \union W \union C \union E /\ filled' = filled \union W
      /\ edges' = edges \union {Member(a, clusterOf[a]) : a \in Clustered}
                        \union {Resolves(a, entityOf[a]) : a \in Labelled}
      /\ pc' = "entities" /\ UNCHANGED <<tables, offset, atStart>>
  BY DEF LoadWallets
<1>2. /\ \A a \in Clustered : a \in wallets /\ a \in Addrs /\ clusterOf[a] \in clusters
      /\ \A a \in Labelled : a \in wallets /\ a \in Addrs /\ entityOf[a] \in entities
  BY <1>0 DEF Clustered, Labelled, RiskTypes, NamesHaveRows
<1>3. GraphTypes'
  <2>1. W \subseteq Node BY <1>0 DEF RiskTypes, Node
  <2>2. C \subseteq Node BY <1>0, <1>2 DEF RiskTypes, Node
  <2>3. E \subseteq Node BY <1>0, <1>2 DEF RiskTypes, Node
  <2>4. nodes' \subseteq Node' BY <1>0, <1>1, <2>1, <2>2, <2>3 DEF GraphTypes, Node
  <2>5. \A a \in Clustered : <<"Wallet", a>> \in nodes' /\ <<"Cluster", clusterOf[a]>> \in nodes'
    BY <1>1, <1>2
  <2>6. \A a \in Labelled : <<"Wallet", a>> \in nodes' /\ <<"Entity", entityOf[a]>> \in nodes'
    BY <1>1, <1>2
  <2>7. \A e \in {Member(a, clusterOf[a]) : a \in Clustered} : e[1] \in nodes' /\ e[3] \in nodes'
    BY <2>5 DEF Member
  <2>8. \A e \in {Resolves(a, entityOf[a]) : a \in Labelled} : e[1] \in nodes' /\ e[3] \in nodes'
    BY <2>6 DEF Resolves
  <2>9. \A e \in edges : e[1] \in nodes' /\ e[3] \in nodes' BY <1>0, <1>1 DEF GraphTypes
  <2>10. \A e \in edges' : e[1] \in nodes' /\ e[3] \in nodes' BY <1>1, <2>7, <2>8, <2>9
  <2>11. filled' \subseteq nodes' BY <1>0, <1>1 DEF GraphTypes
  <2> QED BY <2>4, <2>10, <2>11 DEF GraphTypes
<1>4. LoadTypes' /\ OtherTypes'
  BY <1>0, <1>1 DEF tables, otherTables, LoadTypes, OtherTypes
<1>5. GraphBehind'
  <2>1. UNCHANGED <<clusters, entities>> BY <1>1 DEF tables, riskTables
  <2>2. ASSUME NEW c \in ClusterIds, <<"Cluster", c>> \in nodes' PROVE c \in clusters
    <3>1. CASE <<"Cluster", c>> \in nodes BY <1>0, <3>1 DEF GraphBehind
    <3>2. CASE <<"Cluster", c>> \in C BY <1>2, <3>2
    <3> QED BY <1>1, <2>2, <3>1, <3>2
  <2>3. ASSUME NEW e \in EntityIds, <<"Entity", e>> \in nodes' PROVE e \in entities
    <3>1. CASE <<"Entity", e>> \in nodes BY <1>0, <3>1 DEF GraphBehind
    <3>2. CASE <<"Entity", e>> \in E BY <1>2, <3>2
    <3> QED BY <1>1, <2>3, <3>1, <3>2
  <2> QED BY <2>1, <2>2, <2>3 DEF GraphBehind
<1>6. NothingHollow' BY <1>1 DEF NothingHollow
<1>7. PagingInv' BY <1>1, PagingRests DEF tables, otherTables
<1> QED BY <1>3, <1>4, <1>5, <1>6, <1>7

LEMMA EntitiesKeep ==
  ASSUME IInv, LoadEntities
  PROVE  GraphTypes' /\ LoadTypes' /\ OtherTypes' /\ GraphBehind' /\ NothingHollow' /\ PagingInv'
<1>0. RiskTypes /\ OtherTypes /\ GraphTypes /\ LoadTypes /\ GraphBehind /\ NothingHollow
  BY DEF IInv
<1>1. /\ Merge("Entity", entities) /\ pc' = "clusters"
      /\ UNCHANGED <<tables, edges, offset, atStart>>
  BY DEF LoadEntities
<1>2. {"Entity"} \X entities \subseteq Node BY <1>0 DEF RiskTypes, Node
<1>3. GraphTypes' BY <1>1, <1>2, MergeKeeps
<1>4. LoadTypes' /\ OtherTypes'
  BY <1>0, <1>1 DEF tables, otherTables, LoadTypes, OtherTypes
<1>5. GraphBehind'
  BY <1>0, <1>1 DEF Merge, tables, riskTables, GraphBehind
<1>6. NothingHollow'
  BY <1>1, <1>5 DEF Merge, tables, riskTables, GraphBehind, NothingHollow
<1>7. PagingInv' BY <1>1, PagingRests DEF tables, otherTables
<1> QED BY <1>3, <1>4, <1>5, <1>6, <1>7

LEMMA ClustersKeep ==
  ASSUME IInv, LoadClusters
  PROVE  GraphTypes' /\ LoadTypes' /\ OtherTypes' /\ GraphBehind' /\ NothingHollow' /\ PagingInv'
<1>0. RiskTypes /\ OtherTypes /\ GraphTypes /\ LoadTypes /\ GraphBehind /\ NothingHollow
  BY DEF IInv
<1>1. /\ Merge("Cluster", clusters) /\ pc = "clusters" /\ pc' = "fills"
      /\ UNCHANGED <<tables, edges, offset, atStart>>
  BY DEF LoadClusters
<1>2. {"Cluster"} \X clusters \subseteq Node BY <1>0 DEF RiskTypes, Node
<1>3. GraphTypes' BY <1>1, <1>2, MergeKeeps
<1>4. LoadTypes' /\ OtherTypes'
  BY <1>0, <1>1 DEF tables, otherTables, LoadTypes, OtherTypes
<1>5. GraphBehind'
  BY <1>0, <1>1 DEF Merge, tables, riskTables, GraphBehind
<1>6. NothingHollow'
  <2>1. \A c \in ClusterIds : <<"Cluster", c>> \in nodes' => <<"Cluster", c>> \in filled'
    BY <1>1, <1>5 DEF Merge, tables, riskTables, GraphBehind
  <2>2. \A e \in EntityIds : <<"Entity", e>> \in nodes' => <<"Entity", e>> \in filled'
    BY <1>0, <1>1 DEF Merge, NothingHollow
  <2> QED BY <2>1, <2>2 DEF NothingHollow
<1>7. PagingInv' BY <1>1, PagingRests DEF tables, otherTables
<1> QED BY <1>3, <1>4, <1>5, <1>6, <1>7

\* Statements that add no cluster and no entity, at a place of the load that is
\* past both, leave no node hollow.
LEMMA NothingNamed ==
  ASSUME IInv, UNCHANGED <<clusters, entities>>, filled \subseteq filled',
         pc \in {"fills", "transfers", "alerts"},
         \A n \in nodes' : n \in nodes \/ n[1] \notin {"Cluster", "Entity"}
  PROVE  GraphBehind' /\ NothingHollow'
<1>0. GraphBehind /\ NothingHollow BY DEF IInv
<1>1. \A c \in ClusterIds : <<"Cluster", c>> \in nodes' => <<"Cluster", c>> \in nodes OBVIOUS
<1>2. \A e \in EntityIds : <<"Entity", e>> \in nodes' => <<"Entity", e>> \in nodes OBVIOUS
<1> QED BY <1>0, <1>1, <1>2 DEF GraphBehind, NothingHollow

LEMMA FillsKeep ==
  ASSUME IInv, LoadFills
  PROVE  GraphTypes' /\ LoadTypes' /\ OtherTypes' /\ GraphBehind' /\ NothingHollow' /\ PagingInv'
<1> USE LoaderAssumption
<1>0. OtherTypes /\ GraphTypes /\ LoadTypes /\ PagingInv
  BY DEF IInv
<1> DEFINE T == {"Trade"} \X fills
           M == {<<"Market", f.market>> : f \in fills}
           W == {"Wallet"} \X (UNION {PlacedBy(f) : f \in fills})
           On == {<< <<"Trade", f>>, "ON_MARKET", <<"Market", f.market>> >> : f \in fills}
           By == UNION {{<< <<"Wallet", a>>, "PLACED", <<"Trade", f>> >> : a \in PlacedBy(f)} : f \in fills}
<1>1. /\ pc = "fills" /\ pc' = "transfers"
      /\ nodes' = nodes \union T \union M \union W /\ filled' = filled \union T
      /\ edges' = edges \union On \union By
      /\ offset' = 0 /\ atStart' = transfers /\ UNCHANGED tables
  BY DEF LoadFills
<1>2. \A f \in fills : f \in Fills /\ f.market \in Markets /\ PlacedBy(f) \subseteq Addrs
  BY <1>0 DEF OtherTypes, PlacedBy
<1>3. GraphTypes'
  <2>1. T \subseteq Node /\ M \subseteq Node /\ W \subseteq Node
    <3>1. T \subseteq Node BY <1>2 DEF Node
    <3>2. M \subseteq Node BY <1>2 DEF Node
    <3>3. W \subseteq Node BY <1>2 DEF Node
    <3> QED BY <3>1, <3>2, <3>3
  <2>2. nodes' \subseteq Node' BY <1>0, <1>1, <2>1 DEF GraphTypes, Node
  <2>3. filled' \subseteq nodes' BY <1>0, <1>1 DEF GraphTypes
  <2>4. \A e \in On : e[1] \in nodes' /\ e[3] \in nodes' BY <1>1
  <2>5. \A e \in By : e[1] \in nodes' /\ e[3] \in nodes' BY <1>1
  <2>6. \A e \in edges : e[1] \in nodes' /\ e[3] \in nodes' BY <1>0, <1>1 DEF GraphTypes
  <2>7. \A e \in edges' : e[1] \in nodes' /\ e[3] \in nodes' BY <1>1, <2>4, <2>5, <2>6
  <2> QED BY <2>2, <2>3, <2>7 DEF GraphTypes
<1>4. LoadTypes' /\ OtherTypes'
  BY <1>0, <1>1 DEF tables, otherTables, LoadTypes, OtherTypes
<1>5. GraphBehind' /\ NothingHollow'
  <2>1. \A n \in T \union M \union W : n[1] \in {"Trade", "Market", "Wallet"} OBVIOUS
  <2> HIDE DEF T, M, W
  <2>2. \A n \in nodes' : n \in nodes \/ n[1] \notin {"Cluster", "Entity"} BY <1>1, <2>1
  <2> QED BY <1>1, <2>2, NothingNamed DEF tables, riskTables
<1>6. PagingInv'
  <2>1. \A t \in transfers : Cardinality(Above(t)) \in Nat
    <3>1. IsFiniteSet(transfers) BY <1>0, FS_Subset DEF OtherTypes
    <3>2. \A t \in transfers : Above(t) \in SUBSET transfers BY DEF Above
    <3>3. \A t \in transfers : IsFiniteSet(Above(t)) BY <3>1, <3>2, FS_Subset
    <3> QED BY <3>3, FS_CardinalityType
  <2>2. UNCHANGED <<transfers, cutoff>> BY <1>1 DEF tables, otherTables
  <2>3. \A t \in transfers : Above(t)' = Above(t) BY <2>2 DEF Above
  <2>4. Paged' BY <1>1, <2>1, <2>2, <2>3 DEF Paged
  <2> QED BY <1>0, <1>1, <2>2, <2>4 DEF PagingInv, PagedThrough
<1> QED BY <1>3, <1>4, <1>5, <1>6

\* A page takes the transfers next in line: one that is alone in its block and
\* has fewer newer ones than the page ends at is on it or on an earlier one.
LEMMA PageReaches ==
  ASSUME OtherTypes, LoadTypes, offset < Cardinality(transfers), Paged,
         NEW before \in kSubset(offset, transfers),
         NEW page \in kSubset(Smaller(TxBatch, Cardinality(transfers) - offset), transfers \ before),
         Newest(before), Newest(before \union page),
         NEW t \in atStart \intersect transfers, Alone(t),
         Cardinality(Above(t)) < offset + TxBatch
  PROVE  <<"Transaction", t>> \in nodes \/ t \in page
<1> USE LoaderAssumption
<1> DEFINE n == Cardinality(transfers)
           S == before \union page
<1>1. IsFiniteSet(transfers) BY FS_Subset DEF OtherTypes
<1>2. /\ IsFiniteSet(Above(t)) /\ Cardinality(Above(t)) \in Nat
      /\ n \in Nat /\ offset \in Nat /\ TxBatch \in Nat \ {0}
  <2>1. Above(t) \in SUBSET transfers BY DEF Above
  <2> QED BY <1>1, <2>1, FS_Subset, FS_CardinalityType DEF LoadTypes
<1>3. /\ before \subseteq transfers /\ page \subseteq transfers /\ before \intersect page = {}
      /\ Cardinality(before) = offset
      /\ Cardinality(page) = Smaller(TxBatch, n - offset)
  BY DEF kSubset
<1>4. IsFiniteSet(before) /\ IsFiniteSet(page) /\ IsFiniteSet(S)
  <2>1. IsFiniteSet(before) /\ IsFiniteSet(page) BY <1>1, <1>3, FS_Subset
  <2> QED BY <2>1, FS_Union
<1>5. Cardinality(S) = offset + Smaller(TxBatch, n - offset)
  <2>1. Cardinality(S) = Cardinality(before) + Cardinality(page) - Cardinality({})
    BY <1>3, <1>4, FS_Union
  <2>2. Smaller(TxBatch, n - offset) \in Int BY <1>2 DEF Smaller
  <2>3. Cardinality({}) = 0 BY FS_EmptySet
  <2> HIDE DEF S, n
  <2> QED BY <1>2, <1>3, <2>1, <2>2, <2>3
<1>6. \A u \in transfers : u.block \in Nat BY DEF OtherTypes
<1>7. CASE t \in before
  \* all newer ones are before it, and so is t
  <2>1. Above(t) \subseteq before \ {t} BY <1>6, <1>7 DEF Above, Newest
  <2>2. IsFiniteSet(before \ {t}) /\ Cardinality(before \ {t}) = offset - 1
    BY <1>3, <1>4, <1>7, FS_RemoveElement
  <2>3. Cardinality(Above(t)) <= offset - 1 BY <2>1, <2>2, FS_Subset
  <2>4. Cardinality(Above(t)) < offset BY <1>2, <2>3
  <2> QED BY <2>4 DEF Paged
<1>8. CASE t \notin S
  \* all of S is newer, which is more than there are
  <2>1. S \subseteq Above(t)
    <3>1. \A s \in S : s.block >= t.block /\ s # t /\ s \in transfers
      BY <1>3, <1>8 DEF Newest
    <3> QED BY <1>6, <3>1 DEF Alone, Above
  <2>2. Cardinality(S) <= Cardinality(Above(t)) BY <1>2, <2>1, FS_Subset
  <2>3. Above(t) \subseteq transfers \ {t} BY <1>6 DEF Above
  <2>4. IsFiniteSet(transfers \ {t}) /\ Cardinality(transfers \ {t}) = n - 1
    BY <1>1, FS_RemoveElement
  <2>5. Cardinality(Above(t)) <= n - 1 BY <2>3, <2>4, FS_Subset
  <2> HIDE DEF S, n
  <2>6. CASE TxBatch < n - offset BY <1>2, <1>5, <2>2, <2>6 DEF Smaller
  <2>7. CASE ~(TxBatch < n - offset) BY <1>2, <1>5, <2>2, <2>5, <2>7 DEF Smaller
  <2> QED BY <2>6, <2>7
<1> QED BY <1>7, <1>8

LEMMA TransfersKeep ==
  ASSUME IInv, LoadTransfers
  PROVE  GraphTypes' /\ LoadTypes' /\ OtherTypes' /\ GraphBehind' /\ NothingHollow' /\ PagingInv'
<1> USE LoaderAssumption
<1>0. OtherTypes /\ GraphTypes /\ LoadTypes /\ PagingInv BY DEF IInv
<1>1. PICK before \in kSubset(offset, transfers) :
        \E page \in kSubset(Smaller(TxBatch, Cardinality(transfers) - offset), transfers \ before) :
         /\ Newest(before) /\ Newest(before \union page)
         /\ nodes' = nodes \union {"Transaction"} \X page
                           \union {"Wallet"} \X UNION {{t.from, t.to} : t \in page}
         /\ filled' = filled \union {"Transaction"} \X page
         /\ edges' = edges
              \union {<< <<"Wallet", t.from>>, "SENT", <<"Transaction", t>> >> : t \in page}
              \union {<< <<"Transaction", t>>, "RECEIVED_BY", <<"Wallet", t.to>> >> : t \in page}
  BY DEF LoadTransfers
<1>2. PICK page \in kSubset(Smaller(TxBatch, Cardinality(transfers) - offset), transfers \ before) :
         /\ Newest(before) /\ Newest(before \union page)
         /\ nodes' = nodes \union {"Transaction"} \X page
                           \union {"Wallet"} \X UNION {{t.from, t.to} : t \in page}
         /\ filled' = filled \union {"Transaction"} \X page
         /\ edges' = edges
              \union {<< <<"Wallet", t.from>>, "SENT", <<"Transaction", t>> >> : t \in page}
              \union {<< <<"Transaction", t>>, "RECEIVED_BY", <<"Wallet", t.to>> >> : t \in page}
  BY <1>1
<1>3. /\ pc = "transfers" /\ offset < TxMax /\ offset < Cardinality(transfers)
      /\ offset' = offset + TxBatch /\ UNCHANGED <<tables, pc, atStart>>
  BY DEF LoadTransfers
<1>4. page \subseteq transfers /\ \A t \in page : t \in Txs /\ t.from \in Addrs /\ t.to \in Addrs
  BY <1>0 DEF kSubset, OtherTypes
<1> DEFINE X == {"Transaction"} \X page
           W == {"Wallet"} \X UNION {{t.from, t.to} : t \in page}
           Sent == {<< <<"Wallet", t.from>>, "SENT", <<"Transaction", t>> >> : t \in page}
           Rcvd == {<< <<"Transaction", t>>, "RECEIVED_BY", <<"Wallet", t.to>> >> : t \in page}
<1>5. GraphTypes'
  <2>1. X \subseteq Node BY <1>4 DEF Node
  <2>2. W \subseteq Node BY <1>4 DEF Node
  <2>3. nodes' \subseteq Node' BY <1>0, <1>2, <2>1, <2>2 DEF GraphTypes, Node
  <2>4. filled' \subseteq nodes' BY <1>0, <1>2 DEF GraphTypes
  <2>5. \A t \in page : /\ <<"Transaction", t>> \in nodes'
                        /\ <<"Wallet", t.from>> \in nodes' /\ <<"Wallet", t.to>> \in nodes'
    BY <1>2
  <2>6. \A e \in Sent : e[1] \in nodes' /\ e[3] \in nodes'
    <3>1. ASSUME NEW t \in page, NEW e, e = << <<"Wallet", t.from>>, "SENT", <<"Transaction", t>> >>
          PROVE  e[1] \in nodes' /\ e[3] \in nodes'
      <4>1. e[1] = <<"Wallet", t.from>> /\ e[3] = <<"Transaction", t>> BY <3>1
      <4> QED BY <2>5, <4>1
    <3> QED BY <3>1
  <2>7. \A e \in Rcvd : e[1] \in nodes' /\ e[3] \in nodes'
    <3>1. ASSUME NEW t \in page, NEW e, e = << <<"Transaction", t>>, "RECEIVED_BY", <<"Wallet", t.to>> >>
          PROVE  e[1] \in nodes' /\ e[3] \in nodes'
      <4>1. e[1] = <<"Transaction", t>> /\ e[3] = <<"Wallet", t.to>> BY <3>1
      <4> QED BY <2>5, <4>1
    <3> QED BY <3>1
  <2>8. \A e \in edges : e[1] \in nodes' /\ e[3] \in nodes' BY <1>0, <1>2 DEF GraphTypes
  <2>9. edges' = edges \union Sent \union Rcvd BY <1>2
  <2>10. \A e \in edges' : e[1] \in nodes' /\ e[3] \in nodes' BY <2>6, <2>7, <2>8, <2>9
  <2> QED BY <2>3, <2>4, <2>10 DEF GraphTypes
<1>6. LoadTypes' /\ OtherTypes'
  <2>1. offset' \in Nat /\ offset' < TxMax + TxBatch BY <1>0, <1>3 DEF LoadTypes
  <2> QED BY <1>0, <1>3, <2>1 DEF tables, otherTables, LoadTypes, OtherTypes
<1>7. GraphBehind' /\ NothingHollow'
  <2>1. \A n \in X \union W : n[1] \in {"Transaction", "Wallet"} OBVIOUS
  <2>2. nodes' = nodes \union X \union W /\ filled' = filled \union X BY <1>2
  <2> HIDE DEF X, W
  <2>3. \A n \in nodes' : n \in nodes \/ n[1] \notin {"Cluster", "Entity"} BY <2>1, <2>2
  <2> QED BY <1>3, <2>2, <2>3, NothingNamed DEF tables, riskTables
<1>8. PagingInv'
  <2>1. UNCHANGED <<transfers, cutoff, atStart>> BY <1>3 DEF tables, otherTables
  <2>2. Paged BY <1>0, <1>3 DEF PagingInv
  <2>3. Paged'
    <3> SUFFICES ASSUME NEW t \in atStart \intersect transfers, Alone(t),
                        Cardinality(Above(t)) < offset + TxBatch
                 PROVE  <<"Transaction", t>> \in nodes'
      BY <1>3, <2>1 DEF Paged, Alone, Above
    <3>1. <<"Transaction", t>> \in nodes \/ t \in page
      BY <1>0, <1>2, <1>3, <2>2, PageReaches
    <3> QED BY <1>2, <3>1
  <2> QED BY <1>0, <1>3, <2>1, <2>3 DEF PagingInv, PagedThrough
<1> QED BY <1>5, <1>6, <1>7, <1>8

LEMMA PagingEnds ==
  ASSUME IInv, EndTransfers
  PROVE  GraphTypes' /\ LoadTypes' /\ OtherTypes' /\ GraphBehind' /\ NothingHollow' /\ PagingInv'
<1> USE LoaderAssumption
<1>0. OtherTypes /\ GraphTypes /\ LoadTypes /\ GraphBehind /\ NothingHollow /\ PagingInv
  BY DEF IInv
<1>1. /\ pc = "transfers" /\ pc' = "alerts" /\ (offset >= TxMax \/ offset >= Cardinality(transfers))
      /\ UNCHANGED <<tables, graph, offset, atStart>>
  BY DEF EndTransfers
<1>2. GraphTypes' /\ LoadTypes' /\ OtherTypes'
  BY <1>0, <1>1 DEF tables, graph, otherTables, GraphTypes, Node, LoadTypes, OtherTypes
<1>3. GraphBehind' /\ NothingHollow'
  BY <1>0, <1>1 DEF tables, graph, riskTables, GraphBehind, NothingHollow
<1>4. PagingInv'
  <2>1. ASSUME offset < TxMax, NEW t \in atStart \intersect transfers, Alone(t)
        PROVE  <<"Transaction", t>> \in nodes
    <3>1. IsFiniteSet(transfers) BY <1>0, FS_Subset DEF OtherTypes
    <3>2. Above(t) \subseteq transfers \ {t} BY <1>0 DEF Above, OtherTypes
    <3>3. /\ IsFiniteSet(transfers \ {t})
          /\ Cardinality(transfers \ {t}) = Cardinality(transfers) - 1
      BY <3>1, FS_RemoveElement
    <3>4. Cardinality(Above(t)) <= Cardinality(transfers) - 1 /\ IsFiniteSet(Above(t))
      BY <3>2, <3>3, FS_Subset
    <3>5. Cardinality(transfers) \in Nat /\ Cardinality(Above(t)) \in Nat
      BY <3>1, <3>4, FS_CardinalityType
    <3>6. offset >= Cardinality(transfers) BY <1>0, <1>1, <2>1 DEF LoadTypes
    <3>7. Cardinality(Above(t)) < offset BY <1>0, <3>4, <3>5, <3>6 DEF LoadTypes
    <3>8. Paged BY <1>0, <1>1 DEF PagingInv
    <3> QED BY <2>1, <3>7, <3>8 DEF Paged
  <2>2. UNCHANGED <<transfers, cutoff, atStart, offset, nodes>>
    BY <1>1 DEF tables, otherTables, graph
  <2>3. PagedThrough' BY <2>1, <2>2 DEF PagedThrough, Alone
  <2> QED BY <1>0, <1>1, <2>2, <2>3 DEF PagingInv
<1> QED BY <1>2, <1>3, <1>4

LEMMA AlertsKeep ==
  ASSUME IInv, LoadAlerts
  PROVE  GraphTypes' /\ LoadTypes' /\ OtherTypes' /\ GraphBehind' /\ NothingHollow' /\ PagingInv'
<1> USE LoaderAssumption
<1>0. OtherTypes /\ GraphTypes /\ LoadTypes BY DEF IInv
<1>1. /\ pc = "alerts" /\ pc' = "waiting" /\ Merge("Alert", alerts)
      /\ edges' = edges \union Links(alerts)
      /\ offset' = 0 /\ atStart' = {} /\ UNCHANGED tables
  BY DEF LoadAlerts
<1>2. {"Alert"} \X alerts \subseteq Node BY <1>0 DEF OtherTypes, Node
<1>3. GraphTypes'
  <2>0. nodes \subseteq nodes' /\ \A r \in alerts : <<"Alert", r>> \in nodes' BY <1>1 DEF Merge
  <2>1. \A r \in Fired(alerts) : r \in alerts /\ <<"Market", r.market>> \in nodes BY DEF Fired
  <2>2. \A r \in Implicated(alerts) : r \in alerts /\ <<"Cluster", r.cluster>> \in nodes
    BY <2>1 DEF Implicated
  <2>3. ASSUME NEW e \in Links(alerts) PROVE e[1] \in nodes' /\ e[3] \in nodes'
    <3>1. CASE \E r \in Fired(alerts) : e = FiresOn(r)
      <4>1. PICK r \in Fired(alerts) : e = FiresOn(r) BY <3>1
      <4>2. e[1] = <<"Alert", r>> /\ e[3] = <<"Market", r.market>> BY <4>1 DEF FiresOn
      <4> QED BY <2>0, <2>1, <4>2
    <3>2. CASE \E r \in Implicated(alerts) : e = Implicates(r)
      <4>1. PICK r \in Implicated(alerts) : e = Implicates(r) BY <3>2
      <4>2. e[1] = <<"Alert", r>> /\ e[3] = <<"Cluster", r.cluster>> BY <4>1 DEF Implicates
      <4> QED BY <2>0, <2>2, <4>2
    <3>3. CASE \E r \in Implicated(alerts) : <<"Entity", r.entity>> \in nodes /\ e = Evidenced(r)
      <4>1. PICK r \in Implicated(alerts) : <<"Entity", r.entity>> \in nodes /\ e = Evidenced(r) BY <3>3
      <4>2. e[1] = <<"Alert", r>> /\ e[3] = <<"Entity", r.entity>> BY <4>1 DEF Evidenced
      <4> QED BY <2>0, <2>2, <4>1, <4>2
    <3> QED BY <3>1, <3>2, <3>3 DEF Links
  <2>4. \A e \in edges' : e \in edges \/ (e[1] \in nodes' /\ e[3] \in nodes') BY <1>1, <2>3
  <2> QED BY <1>1, <1>2, <2>4, MergeKeeps
<1>4. LoadTypes' /\ OtherTypes'
  BY <1>0, <1>1 DEF tables, otherTables, LoadTypes, OtherTypes
<1>5. GraphBehind' /\ NothingHollow'
  <2>1. \A n \in nodes' : n \in nodes \/ n[1] \notin {"Cluster", "Entity"}
    <3>1. \A n \in {"Alert"} \X alerts : n[1] = "Alert" OBVIOUS
    <3>2. nodes' = nodes \union {"Alert"} \X alerts BY <1>1 DEF Merge
    <3> QED BY <3>1, <3>2
  <2>2. filled \subseteq filled' BY <1>1 DEF Merge
  <2> QED BY <1>1, <2>1, <2>2, NothingNamed DEF tables, riskTables
<1>6. PagingInv' BY <1>1, PagingRests DEF tables, otherTables
<1> QED BY <1>3, <1>4, <1>5, <1>6

LEMMA FailsKeep ==
  ASSUME IInv, LoadFails
  PROVE  IInv'
<1>0. /\ RiskTypes /\ OtherTypes /\ GraphTypes /\ LoadTypes
      /\ NamesHaveRows /\ GraphBehind /\ NothingHollow /\ PagingInv
  BY DEF IInv
<1>1. /\ failures < MaxFailures /\ failures' = failures + 1
      /\ pc' = "retry" /\ offset' = 0 /\ atStart' = {}
      /\ UNCHANGED <<riskTables, otherTables, graph, changes>>
  BY DEF LoadFails
<1>2. RiskTypes' /\ NamesHaveRows' BY <1>0, <1>1 DEF riskTables, RiskTypes, NamesHaveRows
<1>3. OtherTypes' BY <1>0, <1>1 DEF otherTables, OtherTypes
<1>4. GraphTypes' BY <1>0, <1>1 DEF graph, GraphTypes, Node
<1>5. LoadTypes' BY <1>0, <1>1, LoaderAssumption DEF LoadTypes
<1>6. GraphBehind' BY <1>0, <1>1 DEF graph, riskTables, GraphBehind
<1>7. NothingHollow' BY <1>1 DEF NothingHollow
<1>8. PagingInv' BY <1>1, PagingRests DEF otherTables
<1> QED BY <1>2, <1>3, <1>4, <1>5, <1>6, <1>7, <1>8 DEF IInv

LEMMA StutterKeeps ==
  ASSUME IInv, UNCHANGED vars
  PROVE  IInv'
<1>0. /\ RiskTypes /\ OtherTypes /\ GraphTypes /\ LoadTypes
      /\ NamesHaveRows /\ GraphBehind /\ NothingHollow /\ PagingInv
  BY DEF IInv
<1>1. UNCHANGED <<riskTables, otherTables, graph, loader, changes, failures>> BY DEF vars
<1>2. RiskTypes' /\ NamesHaveRows' BY <1>0, <1>1 DEF riskTables, RiskTypes, NamesHaveRows
<1>3. OtherTypes' BY <1>0, <1>1 DEF otherTables, loader, OtherTypes
<1>4. GraphTypes' BY <1>0, <1>1 DEF graph, GraphTypes, Node
<1>5. LoadTypes' BY <1>0, <1>1 DEF loader, LoadTypes
<1>6. GraphBehind' /\ NothingHollow'
  BY <1>0, <1>1 DEF graph, riskTables, loader, GraphBehind, NothingHollow
<1>7. PagingInv'
  BY <1>0, <1>1 DEF otherTables, graph, loader, PagingInv, PagedThrough, Paged, Alone, Above
<1> QED BY <1>2, <1>3, <1>4, <1>5, <1>6, <1>7 DEF IInv

LEMMA LoadKeeps ==
  ASSUME IInv, Load
  PROVE  IInv'
<1>1. GraphTypes' /\ LoadTypes' /\ OtherTypes' /\ GraphBehind' /\ NothingHollow' /\ PagingInv'
  BY MarketsKeep, WalletsKeep, EntitiesKeep, ClustersKeep, FillsKeep, TransfersKeep, PagingEnds,
     AlertsKeep DEF Load
<1> QED BY <1>1, LoadLeaves DEF IInv

\* The invariant is inductive.
THEOREM Inductive == Spec => []IInv
<1>1. ASSUME IInv, [Next]_vars PROVE IInv'
  BY <1>1, OthersKeep, LoadKeeps, FailsKeep, StutterKeeps DEF Next
<1> QED BY <1>1, InitInv, PTL DEF Spec

-----------------------------------------------------------------------------
(* The results.                                                            *)

\* The type invariant: the graph has no edge without its nodes, for all tables
\* and any number of loads, writes and failures.
THEOREM TypeCorrect == Spec => []TypeOK
<1> QED BY IInvImplies, Inductive, PTL

\* No cluster or entity stays without properties past the statements that fill
\* them, whatever is written to the tables in between.
THEOREM HollowTheorem == Spec => []NothingHollow
<1>1. IInv => NothingHollow BY DEF IInv
<1> QED BY <1>1, Inductive, PTL

\* Paging by offset from the newest transfer passes none that stays in the
\* window and is alone in its block, for every page size, limit and order of
\* arrivals and expiries.
THEOREM PagingTheorem == Spec => []PagedThrough
<1>1. IInv => PagedThrough BY DEF IInv, PagingInv
<1> QED BY <1>1, Inductive, PTL

\* A wallet names no cluster or entity before its row, in tables written by any
\* number of services that follow RiskTables.
THEOREM NamesTheorem == Spec => []NamesHaveRows
<1>1. IInv => NamesHaveRows BY DEF IInv
<1> QED BY <1>1, Inductive, PTL

\* The graph is never ahead of the tables: a cluster or an entity in it has its
\* row, so what a load leaves hollow the next statements can fill.
THEOREM GraphBehindTheorem == Spec => []GraphBehind
<1>1. IInv => GraphBehind BY DEF IInv
<1> QED BY <1>1, Inductive, PTL
=============================================================================
