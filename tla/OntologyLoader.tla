--------------------------- MODULE OntologyLoader ---------------------------
(***************************************************************************)
(* full_load of ontology-loader: every few minutes it copies the database  *)
(* into the Neo4j graph, chunk by chunk.  A step is one SELECT with the    *)
(* Cypher statement that writes its rows; between two steps any other      *)
(* service writes to the tables (RiskTables says how).  Nothing else       *)
(* writes to the graph and nothing is ever removed from it.                *)
(*                                                                         *)
(* A node is <<label, key>>, an edge <<node, type, node>>.                 *)
(***************************************************************************)
EXTENDS RiskTables, FiniteSets, FiniteSetsExt

CONSTANTS
  Markets,     \* condition ids
  Fills,       \* trades that may happen: [market, taker, maker]
  NoAddr,      \* SQL NULL for a taker or a maker
  Txs,         \* transfers that may happen: [block, log, from, to]
  Alerts,      \* alerts that may be raised: [market, cluster, entity]
  StartTxs,    \* transfers in the table at the start
  TxBatch, TxMax,
  MaxChanges,  \* bound: writes of the other services
  MaxFailures  \* bound: loads that fail

ASSUME LoaderAssumption ==
  /\ NoAddr \notin Addrs
  /\ \A f \in Fills : f.market \in Markets /\ {f.taker, f.maker} \subseteq Addrs \union {NoAddr}
  /\ IsFiniteSet(Txs) /\ \A t \in Txs : t.block \in Nat \ {0} /\ {t.from, t.to} \subseteq Addrs
  /\ \A r \in Alerts : /\ r.market \in Markets /\ r.cluster \in ClusterIds
                       /\ r.entity \in EntityIds \union {NoEntity}
  /\ StartTxs \subseteq Txs
  /\ TxBatch \in Nat \ {0} /\ TxMax \in Nat /\ MaxChanges \in Nat /\ MaxFailures \in Nat

VARIABLES
  markets,     \* rows of markets with active = TRUE: no closed market is fetched
  fills,       \* market_fills of the last 24 hours
  transfers,   \* chain_transfers of the last hour
  cutoff,      \* blocks up to this one are older than an hour
  alerts,      \* rows of kinetic_alerts
  nodes, edges,
  filled,      \* nodes that have the properties of a row
  pc, offset,
  atStart,     \* ghost: the transfers when their paging began
  changes, failures

otherTables == <<markets, fills, transfers, cutoff, alerts>>
graph == <<nodes, edges, filled>>
loader == <<pc, offset, atStart>>
vars == <<riskTables, otherTables, graph, loader, changes, failures>>

Init ==
  /\ TablesInit
  /\ markets = {} /\ fills = {} /\ transfers = StartTxs /\ cutoff = 0 /\ alerts = {}
  /\ nodes = {} /\ edges = {} /\ filled = {}
  /\ pc = "waiting" /\ offset = 0 /\ atStart = {}
  /\ changes = 0 /\ failures = 0

-----------------------------------------------------------------------------
(* The other services and time.                                            *)

Write == changes < MaxChanges /\ changes' = changes + 1 /\ UNCHANGED <<graph, loader, failures>>

WriteRiskTables == TablesNext /\ Write /\ UNCHANGED otherTables

AddMarket ==
  /\ \E m \in Markets \ markets : markets' = markets \union {m}
  /\ Write /\ UNCHANGED <<riskTables, fills, transfers, cutoff, alerts>>

AddFill ==
  /\ \E f \in Fills \ fills : fills' = fills \union {f}
  /\ Write /\ UNCHANGED <<riskTables, markets, transfers, cutoff, alerts>>

ExpireFill ==
  /\ \E f \in fills : fills' = fills \ {f}
  /\ Write /\ UNCHANGED <<riskTables, markets, transfers, cutoff, alerts>>

\* A transfer may come late, its block older than others in the table.
AddTransfer ==
  /\ \E t \in Txs \ transfers : t.block > cutoff /\ transfers' = transfers \union {t}
  /\ Write /\ UNCHANGED <<riskTables, markets, fills, cutoff, alerts>>

ExpireBlock ==
  /\ transfers # {}
  /\ cutoff' = cutoff + 1
  /\ transfers' = {t \in transfers : t.block > cutoff'}
  /\ Write /\ UNCHANGED <<riskTables, markets, fills, alerts>>

\* The engine raises an alert on a market with a trade, for a cluster and an
\* entity that wallets named when it last looked (see KineticEngine).
AddAlert ==
  /\ \E r \in Alerts \ alerts :
       /\ \E f \in fills : f.market = r.market
       /\ r.cluster \in clusters /\ r.entity \in entities \union {NoEntity}
       /\ alerts' = alerts \union {r}
  /\ Write /\ UNCHANGED <<riskTables, markets, fills, transfers, cutoff>>

Others ==
  \/ WriteRiskTables \/ AddMarket \/ AddFill \/ ExpireFill
  \/ AddTransfer \/ ExpireBlock \/ AddAlert

-----------------------------------------------------------------------------
(* The load.                                                               *)

tables == <<riskTables, otherTables, changes, failures>>
Smaller(m, n) == IF m < n THEN m ELSE n

\* MERGE of the rows' own nodes, and SET of their properties
Merge(label, keys) ==
  /\ nodes' = nodes \union {label} \X keys
  /\ filled' = filled \union {label} \X keys

LoadMarkets ==
  /\ pc \in {"waiting", "retry"} /\ pc' = "wallets"
  /\ Merge("Market", markets)
  /\ UNCHANGED <<tables, edges, offset, atStart>>

Member(a, c)   == << <<"Wallet", a>>, "MEMBER_OF", <<"Cluster", c>> >>
Resolves(a, e) == << <<"Wallet", a>>, "RESOLVES_TO", <<"Entity", e>> >>

Clustered == {a \in wallets : clusterOf[a] # 0}

\* Mutant: the two kinds of links exclude each other.
LabelledAlone == {a \in wallets : entityOf[a] # NoEntity /\ Clustered = {}}

\* A WHERE keeps the wallets with a cluster, when there are any; the labels of
\* the other wallets are then lost from the rest of the statement.
Labelled ==
  {a \in wallets : entityOf[a] # NoEntity /\ (Clustered = {} \/ a \in Clustered)}

LoadWallets ==
  /\ pc = "wallets" /\ pc' = "entities"
  /\ nodes' = nodes \union {"Wallet"} \X wallets
                    \union {<<"Cluster", clusterOf[a]>> : a \in Clustered}
                    \union {<<"Entity", entityOf[a]>> : a \in Labelled}
  /\ filled' = filled \union {"Wallet"} \X wallets
  /\ edges' = edges \union {Member(a, clusterOf[a]) : a \in Clustered}
                    \union {Resolves(a, entityOf[a]) : a \in Labelled}
  /\ UNCHANGED <<tables, offset, atStart>>

LoadEntities ==
  /\ pc = "entities" /\ pc' = "clusters"
  /\ Merge("Entity", entities)
  /\ UNCHANGED <<tables, edges, offset, atStart>>

\* Mutant: ON CREATE SET.
LoadNewClusters ==
  /\ pc = "clusters" /\ pc' = "fills"
  /\ nodes' = nodes \union {"Cluster"} \X clusters
  /\ filled' = filled \union (({"Cluster"} \X clusters) \ nodes)
  /\ UNCHANGED <<tables, edges, offset, atStart>>

LoadClusters ==
  /\ pc = "clusters" /\ pc' = "fills"
  /\ Merge("Cluster", clusters)
  /\ UNCHANGED <<tables, edges, offset, atStart>>

\* A fill without a taker drops out before its maker is linked.
PlacedBy(f) == IF f.taker = NoAddr THEN {} ELSE {f.taker, f.maker} \ {NoAddr}

LoadFills ==
  /\ pc = "fills" /\ pc' = "transfers"
  /\ nodes' = nodes \union {"Trade"} \X fills
                    \union {<<"Market", f.market>> : f \in fills}
                    \union {"Wallet"} \X (UNION {PlacedBy(f) : f \in fills})
  /\ filled' = filled \union {"Trade"} \X fills
  /\ edges' = edges
       \union {<< <<"Trade", f>>, "ON_MARKET", <<"Market", f.market>> >> : f \in fills}
       \union UNION {{<< <<"Wallet", a>>, "PLACED", <<"Trade", f>> >> : a \in PlacedBy(f)} : f \in fills}
  /\ offset' = 0 /\ atStart' = transfers
  /\ UNCHANGED tables

\* Mutant: ORDER BY time.
Oldest(S) == \A s \in S, t \in transfers \ S : s.block <= t.block

\* ORDER BY time DESC: rows newer than the others, ties in any order
Newest(S) == \A s \in S, t \in transfers \ S : s.block >= t.block

LoadTransfers ==
  /\ pc = "transfers" /\ offset < TxMax /\ offset < Cardinality(transfers)
  /\ \E before \in kSubset(offset, transfers) :
       \E page \in kSubset(Smaller(TxBatch, Cardinality(transfers) - offset), transfers \ before) :
         /\ Newest(before) /\ Newest(before \union page)
         /\ nodes' = nodes \union {"Transaction"} \X page
                           \union {"Wallet"} \X UNION {{t.from, t.to} : t \in page}
         /\ filled' = filled \union {"Transaction"} \X page
         /\ edges' = edges
              \union {<< <<"Wallet", t.from>>, "SENT", <<"Transaction", t>> >> : t \in page}
              \union {<< <<"Transaction", t>>, "RECEIVED_BY", <<"Wallet", t.to>> >> : t \in page}
  /\ offset' = offset + TxBatch
  /\ UNCHANGED <<tables, pc, atStart>>

\* The limit, or a page without rows.
EndTransfers ==
  /\ pc = "transfers" /\ pc' = "alerts"
  /\ offset >= TxMax \/ offset >= Cardinality(transfers)
  /\ UNCHANGED <<tables, graph, offset, atStart>>

FiresOn(r)    == << <<"Alert", r>>, "FIRES_ON", <<"Market", r.market>> >>
Implicates(r) == << <<"Alert", r>>, "IMPLICATES", <<"Cluster", r.cluster>> >>
Evidenced(r)  == << <<"Alert", r>>, "EVIDENCED_BY", <<"Entity", r.entity>> >>

Fired(raised)      == {r \in raised : <<"Market", r.market>> \in nodes}
Implicated(raised) == {r \in Fired(raised) : <<"Cluster", r.cluster>> \in nodes}

\* Mutant: MERGE for MATCH, and no node made.
LinksUnmatched(raised) == {FiresOn(r) : r \in raised} \union {Implicates(r) : r \in raised}

\* Mutant: only alerts that are new to the graph.
LinksOfNew(raised) ==
  {FiresOn(r) : r \in {q \in Fired(raised) : <<"Alert", q>> \notin nodes}}
    \union {Implicates(r) : r \in {q \in Implicated(raised) : <<"Alert", q>> \notin nodes}}

\* Each MATCH drops the alerts whose node is missing from what follows.
Links(raised) ==
  {FiresOn(r) : r \in Fired(raised)} \union {Implicates(r) : r \in Implicated(raised)}
    \union {Evidenced(r) : r \in {q \in Implicated(raised) :
              q.entity # NoEntity /\ <<"Entity", q.entity>> \in nodes}}

LoadAlerts ==
  /\ pc = "alerts" /\ pc' = "waiting"
  /\ Merge("Alert", alerts)
  /\ edges' = edges \union Links(alerts)
  /\ offset' = 0 /\ atStart' = {}
  /\ UNCHANGED tables

\* A statement raises, or the process dies: the rest waits for the next load.
\* A chunk that was written before is that step followed by this one.
LoadFails ==
  /\ pc \notin {"waiting", "retry"} /\ failures < MaxFailures
  /\ failures' = failures + 1
  /\ pc' = "retry" /\ offset' = 0 /\ atStart' = {}
  /\ UNCHANGED <<riskTables, otherTables, graph, changes>>

Load ==
  \/ LoadMarkets \/ LoadWallets \/ LoadEntities \/ LoadClusters
  \/ LoadFills \/ LoadTransfers \/ EndTransfers \/ LoadAlerts

Next == Others \/ Load \/ LoadFails

Spec == Init /\ [][Next]_vars

\* The wait between two loads ends, and every statement does.
FairSpec == Spec /\ WF_vars(Load)

-----------------------------------------------------------------------------
(* Properties                                                              *)

Node ==
  ({"Market"} \X Markets) \union ({"Wallet"} \X Addrs) \union ({"Cluster"} \X ClusterIds)
    \union ({"Entity"} \X EntityIds) \union ({"Trade"} \X Fills)
    \union ({"Transaction"} \X Txs) \union ({"Alert"} \X Alerts)

\* Types, with edges between nodes only, and the offset inside the limit.
TypeOK ==
  /\ wallets \subseteq Addrs /\ clusters \subseteq ClusterIds /\ entities \subseteq EntityIds
  /\ clusterOf \in [Addrs -> ClusterIds \union {0}]
  /\ entityOf \in [Addrs -> EntityIds \union {NoEntity}]
  /\ markets \subseteq Markets /\ fills \subseteq Fills
  /\ transfers \subseteq Txs /\ atStart \subseteq Txs /\ cutoff \in Nat
  /\ alerts \subseteq Alerts
  /\ nodes \subseteq Node /\ filled \subseteq nodes
  /\ \A e \in edges : e[1] \in nodes /\ e[3] \in nodes
  /\ pc \in {"waiting", "retry", "wallets", "entities", "clusters", "fills", "transfers", "alerts"}
  /\ offset \in Nat /\ offset < TxMax + TxBatch
  /\ changes \in 0..MaxChanges /\ failures \in 0..MaxFailures

\* Naming a cluster or an entity makes a node without properties.  After the
\* chunks that follow the wallets, until the next load has read the wallets,
\* none is left: the tables had their rows before a wallet named them, and the
\* load reads the rows after the names (lines 378-386).
NothingHollow ==
  /\ pc \in {"clusters", "fills", "transfers", "alerts", "waiting"} =>
       \A e \in EntityIds : <<"Entity", e>> \in nodes => <<"Entity", e>> \in filled
  /\ pc \in {"fills", "transfers", "alerts", "waiting"} =>
       \A c \in ClusterIds : <<"Cluster", c>> \in nodes => <<"Cluster", c>> \in filled

\* Paging by an offset from the newest row passes none of the rows that stay
\* in the window, whatever arrives or expires between two pages, up to the
\* limit; only rows of one block, which have no order, may change places
\* across a page's end (lines 397-412).
PagedThrough ==
  pc = "alerts" /\ offset < TxMax =>
    \A t \in atStart \intersect transfers :
      (\A u \in transfers : u.block = t.block => u = t) => <<"Transaction", t>> \in nodes

Known(m) == m \in markets \/ \E f \in fills : f.market = m

\* An alert that one load could not link, because its market or its cluster
\* was not in the graph yet, is linked by a later one (lines 345-357).
AlertsLinked ==
  \A r \in Alerts :
    (r \in alerts /\ Known(r.market))
      ~> ({FiresOn(r), Implicates(r)} \subseteq edges \/ ~Known(r.market))

\* The cluster a wallet names reaches the graph, and so does the label of a
\* clustered wallet, unless it names something else first (lines 184-213).
NamesReachGraph ==
  \A a \in Addrs :
    /\ \A c \in ClusterIds :
         (clusterOf[a] = c) ~> (Member(a, c) \in edges \/ clusterOf[a] # c)
    /\ \A e \in EntityIds :
         (clusterOf[a] # 0 /\ entityOf[a] = e)
           ~> (Resolves(a, e) \in edges \/ clusterOf[a] = 0 \/ entityOf[a] # e)
=============================================================================
