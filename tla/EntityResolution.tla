-------------------------- MODULE EntityResolution --------------------------
(***************************************************************************)
(* run_pipeline of entity-resolution: once an hour it fetches the sanctions *)
(* list, stores and links it, clusters the addresses that have the same    *)
(* counterparties, and writes the clusters.  A step is an await, with the  *)
(* code up to the next one; every statement or transaction is one step.    *)
(* Collectors add transfers and wallet rows between any two steps.         *)
(*                                                                         *)
(* Addresses are numbers, in the order of their text.  cl_000000 is 1, and *)
(* 0 is SQL NULL.  A link appends 'sanctioned' to the flags of the same row *)
(* again in every round; the flags are left out.                           *)
(***************************************************************************)
EXTENDS Integers, FiniteSets, Sequences, CoActivity

CONSTANTS
  Addrs,
  Burn,        \* the two addresses tokens are minted from and burnt to
  Uids, NoEntity,
  SdnListings, AddListings,  \* what either half of the sanctions list may hold
  Transfers,   \* USDC and USDT transfers in the order of time: <<from, to>>
  Thresholds,  \* percentages, in the order they are tried
  Fallback,    \* MIN_CO_ACTIVITY_JACCARD
  StartWallets, LateWallets,  \* rows the collectors wrote before, and may write
  MinTx,       \* MIN_TX_COUNT
  MaxNegatives

Entry == [uid : Uids, address : Addrs]

ASSUME EntityAssumption ==
  /\ Addrs \subseteq Nat \ {0} /\ IsFiniteSet(Addrs) /\ Burn \subseteq Addrs
  /\ NoEntity \notin Uids
  /\ SdnListings \union AddListings \subseteq Seq(Entry)
  /\ StartWallets \union LateWallets \subseteq Addrs
  /\ Transfers \in Seq(Addrs \X Addrs)
  /\ Thresholds \in Seq(Nat) /\ Fallback \in Nat
  /\ MinTx \in Nat /\ MaxNegatives \in Nat

VARIABLES
  oldest, newest,  \* chain_transfers of the last seven days: oldest+1..newest
  wallets, clusterOf, entityOf, clusters, entities,
  listed,          \* ofac_sdn: uid -> its one address, 0 without a row
  pc,
  sdn,             \* the entries fetched in this round
  rows,            \* the co-activity graph as read
  tried,           \* thresholds evaluated
  pool,            \* the wallets read for the gold set
  best,            \* best F1 so far: [f1 |-> <<num, den>>, threshold]
  found,           \* the clusters of the round, not yet written
  parts,           \* ghost: the clusters of the last round that wrote any
  everListed       \* ghost: addresses an entry ever held

window == <<oldest, newest>>
tables == <<wallets, clusterOf, entityOf, clusters, entities>>
ghosts == <<parts, everListed>>
graph == <<rows, tried, pool, best, found>>
vars == <<window, tables, listed, pc, sdn, graph, ghosts>>

Phases == {"asleep", "ofac", "entities", "link", "graph", "gold", "draw", "persist"}

NoF1 == [f1 |-> <<0, 1>>, threshold |-> Fallback]

Init ==
  /\ oldest = 0 /\ newest = 0
  /\ wallets = StartWallets /\ clusters = {} /\ entities = {}
  /\ clusterOf = [a \in Addrs |-> 0] /\ entityOf = [a \in Addrs |-> NoEntity]
  /\ listed = [u \in Uids |-> 0]
  /\ pc = "asleep" /\ sdn = <<>> /\ rows = {} /\ tried = 0 /\ pool = {} /\ best = NoF1
  /\ found = <<>>
  /\ parts = {} /\ everListed = {}

-----------------------------------------------------------------------------
(* The collectors (see ChainCollector and PositionsCollector) and time.    *)

NewTransfer ==
  /\ newest < Len(Transfers)
  /\ newest' = newest + 1
  /\ UNCHANGED <<oldest, tables, listed, pc, sdn, graph, ghosts>>

Expire ==
  /\ oldest < newest
  /\ oldest' = oldest + 1
  /\ UNCHANGED <<newest, tables, listed, pc, sdn, graph, ghosts>>

\* The wallet rows of a transfer come after it, those of a taker without one.
NewWallet ==
  /\ \E a \in LateWallets \ wallets : wallets' = wallets \union {a}
  /\ UNCHANGED <<window, clusterOf, entityOf, clusters, entities, listed, pc, sdn, graph,
                 ghosts>>

-----------------------------------------------------------------------------
(* The sanctions list.                                                     *)

\* Either half that cannot be fetched counts as empty, and an empty list skips
\* the three writes.
FetchOfac ==
  /\ pc = "asleep"
  /\ \E s \in SdnListings \union {<<>>}, a \in AddListings \union {<<>>} : sdn' = s \o a
  /\ pc' = IF sdn' = <<>> THEN "graph" ELSE "ofac"
  /\ everListed' = everListed \union {e.address : e \in ToSet(sdn')}
  /\ UNCHANGED <<window, tables, listed, graph, parts>>

Named     == {e.uid : e \in ToSet(sdn)}
Addresses == {e.address : e \in ToSet(sdn)}

\* One row per uid: of several entries the last one keeps its address.
UpsertOfac ==
  /\ pc = "ofac" /\ pc' = "entities"
  /\ listed' = [u \in Uids |->
       IF u \notin Named THEN listed[u]
       ELSE LET last == CHOOSE i \in DOMAIN sdn : sdn[i].uid = u /\
                          \A j \in DOMAIN sdn : sdn[j].uid = u => j <= i
            IN  sdn[last].address]
  /\ UNCHANGED <<window, tables, sdn, graph, ghosts>>

UpsertEntities ==
  /\ pc = "entities" /\ pc' = "link"
  /\ entities' = entities \union Named
  /\ UNCHANGED <<window, wallets, clusterOf, entityOf, clusters, listed, sdn, graph, ghosts>>

\* Mutant: the join without the address.
LinkEveryWallet ==
  /\ pc = "link" /\ pc' = "graph"
  /\ \E pick \in [wallets -> Named] :
       entityOf' = [a \in Addrs |-> IF a \in wallets THEN pick[a] ELSE entityOf[a]]
  /\ sdn' = <<>>
  /\ UNCHANGED <<window, wallets, clusterOf, clusters, entities, listed, graph, ghosts>>

\* The addresses and the uids are joined to each other without a condition, and
\* the database takes any one row for a wallet that several match.
LinkWallets ==
  /\ pc = "link" /\ pc' = "graph"
  /\ \E pick \in [wallets \intersect Addresses -> Named] :
       entityOf' = [a \in Addrs |-> IF a \in wallets \intersect Addresses THEN pick[a] ELSE entityOf[a]]
  /\ sdn' = <<>>
  /\ UNCHANGED <<window, wallets, clusterOf, clusters, entities, listed, graph, ghosts>>

-----------------------------------------------------------------------------
(* The graph, the thresholds and the clusters.                             *)

Recent == {i \in (oldest + 1)..newest : {Transfers[i][1], Transfers[i][2]} \intersect Burn = {}}

\* GROUP BY from, to: one row per pair
Rows == LET pairs == {Transfers[i] : i \in Recent}
        IN  {<<p[1], p[2], Cardinality({i \in Recent : Transfers[i] = p})>> : p \in pairs}

BuildGraph ==
  /\ pc = "graph" /\ pc' = "gold"
  /\ rows' = Rows
  /\ tried' = 0 /\ best' = NoF1
  /\ UNCHANGED <<window, tables, listed, sdn, pool, found, ghosts>>

Pair == {p \in Addrs \X Addrs : p[1] < p[2]}

\* the stored clusters' pairs, and those of the listed addresses that are at
\* most five places apart in their order
ListedAddresses == {listed[u] : u \in Uids} \ {0}
SamePairs ==
  {p \in Pair : \/ clusterOf[p[1]] # 0 /\ clusterOf[p[1]] = clusterOf[p[2]]
                \/ /\ {p[1], p[2]} \subseteq ListedAddresses
                   /\ Cardinality({a \in ListedAddresses : p[1] < a /\ a <= p[2]}) <= 5}

Smaller(m, n) == IF m < n THEN m ELSE n
NegativesWanted == Smaller(2 * Cardinality(SamePairs), MaxNegatives)
DifferentPairs  == {p \in Pair : {p[1], p[2]} \subseteq pool} \ SamePairs
EnoughToDraw    == Cardinality(DifferentPairs) >= NegativesWanted

\* After the clusters and the listed addresses, which only this process
\* writes, the wallets are read, in a statement of their own.
ReadGold ==
  /\ pc = "gold" /\ tried < Len(Thresholds) /\ pc' = "draw"
  /\ pool' = wallets
  /\ UNCHANGED <<window, tables, listed, sdn, rows, tried, best, found, ghosts>>

\* evaluate_f1: the gold addresses clustered on their links among themselves
F1Of(different, threshold) ==
  LET gold  == UNION {{p[1], p[2]} : p \in SamePairs \union different}
      order == InTextOrder(gold)
      trees == Trees(order, [w \in gold |-> Counterparties(rows, w) \intersect gold], threshold)
      predicted == UNION {{p \in Pair : {p[1], p[2]} \subseteq t} : t \in trees}
  IN  IF SamePairs = {} THEN <<0, 1>>
      ELSE <<2 * Cardinality(predicted \intersect SamePairs),
             Cardinality(predicted) + Cardinality(SamePairs)>>

Higher(f, g) == f[1] * g[2] > g[1] * f[2]

\* Mutant: a threshold that is not better than the best is tried again.
DrawUntilBetter ==
  /\ pc = "draw" /\ EnoughToDraw /\ pc' = "gold"
  /\ \E different \in kSubset(NegativesWanted, DifferentPairs) :
       LET f == F1Of(different, Thresholds[tried + 1])
       IN  IF Higher(f, best.f1)
             THEN best' = [f1 |-> f, threshold |-> Thresholds[tried + 1]] /\ tried' = tried + 1
             ELSE UNCHANGED <<best, tried>>
  /\ pool' = {}
  /\ UNCHANGED <<window, tables, listed, sdn, rows, found, ghosts>>

\* The negatives are drawn until there are enough of them: the loop ends when
\* the pool has that many different pairs, and only then.
DrawAndEvaluate ==
  /\ pc = "draw" /\ EnoughToDraw /\ pc' = "gold"
  /\ \E different \in kSubset(NegativesWanted, DifferentPairs) :
       LET f == F1Of(different, Thresholds[tried + 1])
       IN  best' = IF Higher(f, best.f1) THEN [f1 |-> f, threshold |-> Thresholds[tried + 1]]
                                         ELSE best
  /\ tried' = tried + 1 /\ pool' = {}
  /\ UNCHANGED <<window, tables, listed, sdn, rows, found, ghosts>>

\* rng.sample refuses to draw two of fewer than two wallets
DrawRaises ==
  /\ pc = "draw" /\ NegativesWanted > 0 /\ Cardinality(pool) < 2
  /\ pc' = "asleep" /\ rows' = {} /\ tried' = 0 /\ pool' = {} /\ best' = NoF1
  /\ UNCHANGED <<window, tables, listed, sdn, found, ghosts>>

Candidates == {w \in Parties(rows) : TxCount(rows, w) >= MinTx}
Partners   == [w \in Candidates |-> Counterparties(rows, w)]

\* The order of the database's answer decides the order of the clusters.
ClusterCandidates ==
  /\ pc = "gold" /\ tried = Len(Thresholds) /\ pc' = "persist"
  /\ \E answer \in Answers(rows) :
       found' = Clustering(InDictOrder(answer, Candidates), Partners, best.threshold)
  /\ UNCHANGED <<window, tables, listed, sdn, rows, tried, pool, best, ghosts>>

\* Clusters of one wallet are numbered too, and not written.
Kept == {i \in DOMAIN found : Cardinality(found[i]) >= 2}

\* Mutant: only the clusters that are written are numbered.
IdAmongKept(i) == Cardinality({k \in Kept : k <= i})

\* cl_000000 is the first of all clusters
IdOf(i) == i

\* Mutant: a wallet that has a cluster keeps it.
PersistNewMembers ==
  /\ pc = "persist" /\ pc' = "asleep"
  /\ clusters' = clusters \union Kept
  /\ clusterOf' = [a \in Addrs |->
       IF a \in wallets /\ clusterOf[a] = 0 /\ \E i \in Kept : a \in found[i]
         THEN IdOf(CHOOSE i \in Kept : a \in found[i]) ELSE clusterOf[a]]
  /\ parts' = IF Kept = {} THEN parts ELSE {found[i] \intersect wallets : i \in Kept}
  /\ rows' = {} /\ tried' = 0 /\ best' = NoF1 /\ found' = <<>>
  /\ UNCHANGED <<window, wallets, entityOf, entities, listed, sdn, pool, everListed>>

\* The row of every cluster, then those of its members that have one.
PersistClusters ==
  /\ pc = "persist" /\ pc' = "asleep"
  /\ clusters' = clusters \union Kept
  /\ clusterOf' = [a \in Addrs |->
       IF a \in wallets /\ \E i \in Kept : a \in found[i]
         THEN IdOf(CHOOSE i \in Kept : a \in found[i]) ELSE clusterOf[a]]
  /\ parts' = IF Kept = {} THEN parts ELSE {found[i] \intersect wallets : i \in Kept}
  /\ rows' = {} /\ tried' = 0 /\ best' = NoF1 /\ found' = <<>>
  /\ UNCHANGED <<window, wallets, entityOf, entities, listed, sdn, pool, everListed>>

\* Mutant: a failed round leaves the list it fetched behind.
RoundFailsDirty ==
  /\ pc # "asleep" /\ pc' = "asleep"
  /\ rows' = {} /\ tried' = 0 /\ pool' = {} /\ best' = NoF1 /\ found' = <<>>
  /\ UNCHANGED <<window, tables, listed, sdn, ghosts>>

\* A statement raises, or the process dies and is started again: the rest of
\* the round is lost.  A step that took effect before it raised is that step
\* followed by this one.
RoundFails ==
  /\ pc # "asleep" /\ pc' = "asleep"
  /\ sdn' = <<>> /\ rows' = {} /\ tried' = 0 /\ pool' = {} /\ best' = NoF1
  /\ found' = <<>>
  /\ UNCHANGED <<window, tables, listed, ghosts>>

RunPipeline ==
  \/ FetchOfac \/ UpsertOfac \/ UpsertEntities \/ LinkWallets
  \/ BuildGraph \/ ReadGold \/ DrawAndEvaluate \/ DrawRaises
  \/ ClusterCandidates \/ PersistClusters

Next == RunPipeline \/ RoundFails \/ NewTransfer \/ Expire \/ NewWallet

Spec == Init /\ [][Next]_vars

\* Every await ends, with an answer or with an exception; so does the draw,
\* when there is something to draw: the generator picks every pair in time.
Moves ==
  /\ \/ pc # "draw"
     \/ pc = "draw" /\ (EnoughToDraw \/ Cardinality(pool) < 2)
  /\ pc' \in Phases \ {pc}
FairSpec == Spec /\ WF_pc(Moves)

-----------------------------------------------------------------------------
(* Properties                                                              *)

\* Types; a column of the pipeline holds something only in its own phase.
TypeOK ==
  /\ oldest \in Nat /\ newest \in 0..Len(Transfers) /\ oldest <= newest
  /\ wallets \subseteq Addrs /\ clusters \subseteq Nat \ {0} /\ entities \subseteq Uids
  /\ clusterOf \in [Addrs -> Nat] /\ entityOf \in [Addrs -> Uids \union {NoEntity}]
  /\ listed \in [Uids -> Addrs \union {0}]
  /\ pc \in Phases
  /\ sdn \in Seq(Entry) /\ (sdn # <<>> <=> pc \in {"ofac", "entities", "link"})
  /\ tried \in 0..Len(Thresholds) /\ (tried > 0 => pc \in {"gold", "draw", "persist"})
  /\ found \in Seq(SUBSET Addrs) /\ (found # <<>> => pc = "persist")
  /\ pool \subseteq wallets /\ (pool # {} => pc = "draw")
  /\ best.threshold \in Nat
  /\ parts \subseteq SUBSET Addrs /\ everListed \subseteq Addrs

\* The tables move as their readers rely on: a cluster or an entity has its
\* row before a wallet names it, whatever fails in between (lines 344-361 in
\* one transaction, entities at line 478 before the links at line 479).
Tables == INSTANCE RiskTables WITH ClusterIds <- Nat \ {0}, EntityIds <- Uids
NamesHaveRows == Tables!NamesHaveRows
TablesSpec == Tables!TablesSpec

\* Of the wallets the last written round clustered, two have the same id just
\* when they are in one cluster, however many rounds failed since; ids that
\* earlier rounds left behind are on other wallets (lines 319-361).
LatestRoundAgrees ==
  \A a, b \in UNION parts :
    clusterOf[a] = clusterOf[b] <=> \E c \in parts : {a, b} \subseteq c

\* Union-find over the pairs, in any order of the answer, yields the connected
\* components of similarity among the candidates (lines 270-309).
ClustersAreComponents ==
  pc = "persist" =>
    \A v, w \in Candidates :
      (\E i \in DOMAIN found : {v, w} \subseteq found[i])
        <=> Connected(v, w, Candidates, Partners, best.threshold)

\* A wallet is labelled sanctioned only if the list named its address once:
\* not by the uid's row, which keeps one address, and not by its cluster.
LinkedWasListed == \A a \in Addrs : entityOf[a] # NoEntity => a \in everListed

\* The gold set asks for more different pairs than the wallets it read have:
\* too few of them, or too many in one cluster.
Crowded == pc = "draw" /\ ~EnoughToDraw

\* A round ends, whatever raises, unless it is caught drawing pairs that do
\* not exist (line 403).
RoundEnds == (pc # "asleep") ~> (pc = "asleep" \/ Crowded)

=============================================================================
