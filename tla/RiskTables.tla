----------------------------- MODULE RiskTables -----------------------------
(***************************************************************************)
(* What the readers of wallets, clusters and entities may rely on, whoever *)
(* writes them: a row is never removed, a cluster or entity is named by a  *)
(* wallet only once it has a row of its own, and a label never goes away.  *)
(* EntityResolution implements it; OntologyLoader reads tables that move   *)
(* by these steps and no other.                                            *)
(***************************************************************************)
EXTENDS Integers

CONSTANTS
  Addrs,      \* wallet addresses
  ClusterIds, \* positive numbers, cl_000000 is 1; 0 is SQL NULL
  EntityIds, NoEntity

ASSUME TablesAssumption == ClusterIds \subseteq Nat \ {0} /\ NoEntity \notin EntityIds

VARIABLES
  wallets,    \* addresses with a row in wallets
  clusterOf,  \* wallets.cluster_id
  entityOf,   \* wallets.entity_id
  clusters,   \* ids with a row in clusters
  entities    \* ids with a row in entities

riskTables == <<wallets, clusterOf, entityOf, clusters, entities>>

TablesInit ==
  /\ wallets \in SUBSET Addrs /\ clusters = {} /\ entities = {}
  /\ clusterOf = [a \in Addrs |-> 0] /\ entityOf = [a \in Addrs |-> NoEntity]

\* Collectors add the addresses of a transfer or of a trade.
AddWallets ==
  /\ wallets' \in SUBSET Addrs /\ wallets \subseteq wallets'
  /\ UNCHANGED <<clusterOf, entityOf, clusters, entities>>

AddEntities ==
  /\ entities' \in SUBSET EntityIds /\ entities \subseteq entities'
  /\ UNCHANGED <<wallets, clusterOf, entityOf, clusters>>

\* A wallet gets a label, or another one, in place of what it had.
Label(a, e) == entityOf[a] = e \/ (a \in wallets /\ e \in entities)
Relabel ==
  /\ entityOf' \in [Addrs -> EntityIds \union {NoEntity}]
  /\ \A a \in Addrs : Label(a, entityOf'[a])
  /\ UNCHANGED <<wallets, clusterOf, clusters, entities>>

\* One transaction writes a round's clusters and their members.
Recluster ==
  /\ clusters' \in SUBSET ClusterIds /\ clusters \subseteq clusters'
  /\ clusterOf' \in [Addrs -> clusters' \union {0}]
  /\ \A a \in Addrs : clusterOf'[a] = clusterOf[a] \/ (a \in wallets /\ clusterOf'[a] \in clusters')
  /\ UNCHANGED <<wallets, entityOf, entities>>

TablesNext == AddWallets \/ AddEntities \/ Relabel \/ Recluster

TablesSpec == TablesInit /\ [][TablesNext]_riskTables

\* No wallet names a cluster or an entity that has no row.
NamesHaveRows ==
  \A a \in Addrs : /\ clusterOf[a] # 0 => clusterOf[a] \in clusters
                   /\ entityOf[a] # NoEntity => entityOf[a] \in entities
=============================================================================
