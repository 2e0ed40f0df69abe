----------------------------- MODULE CoActivity -----------------------------
(***************************************************************************)
(* The clustering of entity-resolution, and what it is meant to compute.   *)
(* A row is <<from, to, n>>, one per ordered pair of addresses that        *)
(* exchanged n transfers; thresholds are percentages.                      *)
(***************************************************************************)
EXTENDS Integers, FiniteSets, Sequences, SequencesExt, FiniteSetsExt

Parties(rows) == UNION {{r[1], r[2]} : r \in rows}

\* build_co_activity_graph: counterparties and tx_count of an address
Counterparties(rows, w) ==
  {r[2] : r \in {q \in rows : q[1] = w}} \union {r[1] : r \in {q \in rows : q[2] = w}}

TxCount(rows, w) ==
  MapThenSumSet(LAMBDA r : (IF r[1] = w THEN r[3] ELSE 0) + (IF r[2] = w THEN r[3] ELSE 0), rows)

\* the orders in which a database may return rows
Answers(rows) == {s \in [1..Cardinality(rows) -> rows] : ToSet(s) = rows}

\* dict order of the addresses: their first appearance in an answer
Appearance(answer, w) ==
  LET at == {2 * i - 1 : i \in {j \in DOMAIN answer : answer[j][1] = w}}
            \union {2 * i : i \in {j \in DOMAIN answer : answer[j][2] = w}}
  IN  CHOOSE n \in at : \A m \in at : n <= m

\* ws in the order of distinct keys
SortedBy(ws, key) ==
  [n \in 1..Cardinality(ws) |-> CHOOSE w \in ws : Cardinality({v \in ws : key[v] <= key[w]}) = n]

InDictOrder(answer, ws) == SortedBy(ws, [w \in ws |-> Appearance(answer, w)])
InTextOrder(ws)         == SortedBy(ws, [w \in ws |-> w])

\* Jaccard similarity of two sets of counterparties, compared in percent
Similar(ca, cb, threshold) ==
  LET inter == Cardinality(ca \intersect cb)
      size  == Cardinality(ca) + Cardinality(cb) - inter
  IN  inter > 0 /\ 100 * inter >= threshold * size

\* One turn of find's loop, at a node: its parent becomes its grandparent, and
\* the loop goes on there.  At a root it changes nothing, and the loop ends.
Halve(s) ==
  LET up == s.parent[s.parent[s.at]]
  IN  [parent |-> [s.parent EXCEPT ![s.at] = up], at |-> up]

\* find: the root of x, and the parents it leaves.  As many turns as there are
\* nodes take it to the root (FindWorks in EntityResolution_proofs).
Find(parent, x) ==
  LET turns == Cardinality(DOMAIN parent)
      walk[k \in 0..turns] == IF k = 0 THEN [parent |-> parent, at |-> x] ELSE Halve(walk[k - 1])
  IN  walk[turns]

\* Mutant: hangs the node itself, and not its root, under the other root.
UnionOfNodes(parent, x, y) == [Find(parent, y).parent EXCEPT ![x] = Find(parent, y).at]

\* union: the root of x gets the root of y for its parent
Union(parent, x, y) ==
  LET rx == Find(parent, x)
      ry == Find(rx.parent, y)
  IN  [ry.parent EXCEPT ![rx.at] = ry.at]

\* the two nested loops, as one sequence of pairs of positions
PairsOf(n) == [k \in 1..(n * n) |-> <<1 + ((k - 1) \div n), 1 + ((k - 1) % n)>>]

\* the body of the inner loop, for the addresses at the positions p
Visit(parent, p, order, partners, threshold) ==
  IF p[1] < p[2] /\ Similar(partners[order[p[1]]], partners[order[p[2]]], threshold)
    THEN Union(parent, order[p[1]], order[p[2]]) ELSE parent

\* the parents after the loops of leiden_cluster and of evaluate_f1
Forest(order, partners, threshold) ==
  LET pairs == PairsOf(Len(order))
      after[k \in 0..Len(pairs)] ==
        IF k = 0 THEN [w \in ToSet(order) |-> w]
                 ELSE Visit(after[k - 1], pairs[k], order, partners, threshold)
  IN  after[Len(pairs)]

\* the addresses by their roots; that each find halves a path changes no root
Trees(order, partners, threshold) ==
  LET parent == Forest(order, partners, threshold)
      root   == [w \in DOMAIN parent |-> Find(parent, w).at]
  IN  {{w \in DOMAIN parent : root[w] = root[v]} : v \in DOMAIN parent}

\* leiden_cluster: the clusters in the order of their first members
Clustering(order, partners, threshold) ==
  LET First(t) == CHOOSE i \in DOMAIN order : order[i] \in t /\ \A j \in 1..(i - 1) : order[j] \notin t
      trees    == Trees(order, partners, threshold)
  IN  SortedBy(trees, [t \in trees |-> First(t)])

-----------------------------------------------------------------------------
\* Reference: v and w are connected when no set closed under similarity parts them.
Closed(S, ws, partners, threshold) ==
  \A v \in S, w \in ws \ S : ~Similar(partners[v], partners[w], threshold)
Connected(v, w, ws, partners, threshold) ==
  \A S \in SUBSET ws : v \in S /\ Closed(S, ws, partners, threshold) => w \in S
=============================================================================
