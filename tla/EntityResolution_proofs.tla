----------------------- MODULE EntityResolution_proofs -----------------------
(***************************************************************************)
(* Proofs about entity-resolution, for every list, graph, gold set and     *)
(* number of rounds.  First its clustering: the union-find over all pairs  *)
(* yields the connected components of similarity, whatever the order of    *)
(* the addresses.  Then the pipeline: it writes those components, and it   *)
(* writes the tables as their readers rely on.                             *)
(***************************************************************************)
EXTENDS EntityResolution, Iteration, TLAPS

-----------------------------------------------------------------------------
(* Similarity and connection.                                              *)

FinitePartners(ws, partners) == \A w \in ws : IsFiniteSet(partners[w])

LEMMA SimilarSymmetric ==
  ASSUME NEW a, NEW b, IsFiniteSet(a), IsFiniteSet(b), NEW t
  PROVE  Similar(a, b, t) <=> Similar(b, a, t)
<1>1. a \intersect b = b \intersect a OBVIOUS
<1>2. PICK k \in Nat, l \in Nat, n \in Nat :
        k = Cardinality(a) /\ l = Cardinality(b) /\ n = Cardinality(a \intersect b)
  BY FS_CardinalityType, FS_Intersection
<1>3. k + l - n = l + k - n OBVIOUS
<1>4. Similar(a, b, t) <=> n > 0 /\ 100 * n >= t * (k + l - n) BY <1>2 DEF Similar
<1>5. Similar(b, a, t) <=> n > 0 /\ 100 * n >= t * (l + k - n) BY <1>1, <1>2 DEF Similar
<1> QED BY <1>3, <1>4, <1>5

\* What is closed under similarity has a closed complement.
LEMMA ClosedComplement ==
  ASSUME NEW ws, NEW partners, FinitePartners(ws, partners), NEW threshold,
         NEW S \in SUBSET ws, Closed(S, ws, partners, threshold)
  PROVE  Closed(ws \ S, ws, partners, threshold)
<1> SUFFICES ASSUME NEW v \in ws \ S, NEW w \in ws \ (ws \ S)
             PROVE  ~Similar(partners[v], partners[w], threshold)
  BY DEF Closed
<1>1. w \in S /\ v \in ws \ S OBVIOUS
<1>2. ~Similar(partners[w], partners[v], threshold) BY <1>1 DEF Closed
<1>3. IsFiniteSet(partners[v]) /\ IsFiniteSet(partners[w]) BY DEF FinitePartners
<1> QED BY <1>2, <1>3, SimilarSymmetric

\* Connection is an equivalence, and what is similar is connected.
LEMMA ConnectedEquivalence ==
  ASSUME NEW ws, NEW partners, FinitePartners(ws, partners), NEW threshold
  PROVE  /\ \A v \in ws : Connected(v, v, ws, partners, threshold)
         /\ \A v, w \in ws : Connected(v, w, ws, partners, threshold)
                               => Connected(w, v, ws, partners, threshold)
         /\ \A u, v, w \in ws : /\ Connected(u, v, ws, partners, threshold)
                                /\ Connected(v, w, ws, partners, threshold)
                                => Connected(u, w, ws, partners, threshold)
         /\ \A v, w \in ws : Similar(partners[v], partners[w], threshold)
                               => Connected(v, w, ws, partners, threshold)
<1>1. \A v \in ws : Connected(v, v, ws, partners, threshold) BY DEF Connected
<1>2. ASSUME NEW v \in ws, NEW w \in ws, Connected(v, w, ws, partners, threshold),
             NEW S \in SUBSET ws, w \in S, Closed(S, ws, partners, threshold)
      PROVE  v \in S
  <2> SUFFICES ASSUME v \notin S PROVE FALSE OBVIOUS
  <2>1. Closed(ws \ S, ws, partners, threshold) BY <1>2, ClosedComplement
  <2>2. w \in ws \ S BY <1>2, <2>1 DEF Connected
  <2> QED BY <1>2, <2>2
<1>3. \A u, v, w \in ws : /\ Connected(u, v, ws, partners, threshold)
                          /\ Connected(v, w, ws, partners, threshold)
                          => Connected(u, w, ws, partners, threshold)
  BY DEF Connected
<1>4. \A v, w \in ws : Similar(partners[v], partners[w], threshold)
                         => Connected(v, w, ws, partners, threshold)
  BY DEF Connected, Closed
<1>5. \A v, w \in ws : Connected(v, w, ws, partners, threshold)
                         => Connected(w, v, ws, partners, threshold)
  BY <1>2 DEF Connected
<1> QED BY <1>1, <1>3, <1>4, <1>5

-----------------------------------------------------------------------------
(* The forest.                                                             *)

\* A forest on the nodes ws: every node and its parent have one root, roots are
\* their own parents, and the height grows along every path.
Rooted(parent, root, height, ws) ==
  /\ parent \in [ws -> ws] /\ root \in [ws -> ws] /\ height \in [ws -> Nat]
  /\ \A x \in ws : /\ root[parent[x]] = root[x]
                   /\ parent[root[x]] = root[x]
                   /\ parent[x] = x => root[x] = x
                   /\ parent[x] # x => height[x] < height[parent[x]]

IsForest(parent, ws) == \E root, height : Rooted(parent, root, height, ws)

RootOf(parent, w) == Find(parent, w).at

\* Two addresses are in one tree.
Joined(parent, v, w) == RootOf(parent, v) = RootOf(parent, w)

\* Halving a path moves no node to another root, keeps the heights in order, and
\* takes the walk upwards unless it is at a root.
LEMMA HalveKeeps ==
  ASSUME NEW ws, NEW s, NEW root, NEW height,
         Rooted(s.parent, root, height, ws), s.at \in ws
  PROVE  LET t == Halve(s)
         IN  /\ Rooted(t.parent, root, height, ws)
             /\ t.at \in ws /\ root[t.at] = root[s.at]
             /\ root[s.at] = s.at => t.at = s.at
             /\ root[s.at] # s.at => height[s.at] < height[t.at]
<1> DEFINE x == s.at
           p == s.parent
           up == p[p[x]]
           q == [p EXCEPT ![x] = up]
<1>1. Halve(s).parent = q /\ Halve(s).at = up BY DEF Halve
<1>2. p \in [ws -> ws] /\ root \in [ws -> ws] /\ height \in [ws -> Nat] /\ x \in ws
      /\ \A z \in ws : /\ root[p[z]] = root[z] /\ p[root[z]] = root[z]
                       /\ p[z] = z => root[z] = z
                       /\ p[z] # z => height[z] < height[p[z]]
  BY DEF Rooted
<1>3. q \in [ws -> ws] /\ q[x] = up /\ \A z \in ws : z # x => q[z] = p[z] BY <1>2
<1> HIDE DEF x, p, q
<1>4. up \in ws /\ p[x] \in ws /\ root[up] = root[x] BY <1>2
<1>5. root[x] = x => p[x] = x /\ up = x BY <1>2
<1>6. root[x] # x => p[x] # x /\ height[x] < height[p[x]] BY <1>2
<1>7. height[p[x]] <= height[up]
  <2>1. p[p[x]] # p[x] => height[p[x]] < height[up] BY <1>2, <1>4
  <2>2. height[p[x]] \in Nat /\ height[up] \in Nat BY <1>2, <1>4
  <2> QED BY <2>1, <2>2
<1>8. root[x] # x => height[x] < height[up]
  <2>1. height[x] \in Nat /\ height[p[x]] \in Nat /\ height[up] \in Nat BY <1>2, <1>4
  <2> QED BY <1>6, <1>7, <2>1
<1>9. ASSUME NEW z \in ws
      PROVE  /\ root[q[z]] = root[z] /\ q[root[z]] = root[z]
             /\ q[z] = z => root[z] = z
             /\ q[z] # z => height[z] < height[q[z]]
  <2>1. root[q[z]] = root[z] BY <1>2, <1>3, <1>4
  <2>2. q[root[z]] = root[z]
    <3>1. CASE root[z] = x
      <4>1. p[x] = x BY <1>2, <3>1
      <4> QED BY <1>3, <3>1, <4>1
    <3>2. CASE root[z] # x
      <4>1. root[z] \in ws BY <1>2
      <4> QED BY <1>2, <1>3, <3>2, <4>1
    <3> QED BY <3>1, <3>2
  <2>3. ASSUME q[z] = z PROVE root[z] = z
    <3>1. CASE z = x
      <4>1. height[x] \in Nat /\ up = x BY <1>2, <1>3, <2>3, <3>1
      <4> QED BY <1>8, <3>1, <4>1
    <3>2. CASE z # x BY <1>2, <1>3, <2>3, <3>2
    <3> QED BY <3>1, <3>2
  <2>4. ASSUME q[z] # z PROVE height[z] < height[q[z]]
    <3>1. CASE z = x BY <1>3, <1>5, <1>8, <2>4, <3>1
    <3>2. CASE z # x BY <1>2, <1>3, <2>4, <3>2
    <3> QED BY <3>1, <3>2
  <2> QED BY <2>1, <2>2, <2>3, <2>4
<1> HIDE DEF up
<1>10. Rooted(q, root, height, ws) BY <1>2, <1>3, <1>9 DEF Rooted
<1> QED BY <1>1, <1>4, <1>5, <1>8, <1>10 DEF x

\* find returns the root after at most as many turns as there are nodes, and
\* leaves every node under the root it had.
THEOREM FindWorks ==
  ASSUME NEW ws, IsFiniteSet(ws), NEW parent, NEW root, NEW height,
         Rooted(parent, root, height, ws), NEW x \in ws
  PROVE  RootOf(parent, x) = root[x] /\ Rooted(Find(parent, x).parent, root, height, ws)
<1> DEFINE n == Cardinality(DOMAIN parent)
           base == [parent |-> parent, at |-> x]
           Runs(g) == g = [k \in 0..n |-> IF k = 0 THEN base ELSE Halve(g[k - 1])]
           walk == CHOOSE g : Runs(g)
           States == [parent : [ws -> ws], at : ws]
           Good(s) == /\ Rooted(s.parent, root, height, ws)
                      /\ s.at \in ws /\ root[s.at] = root[x]
<1>1. n \in Nat /\ n = Cardinality(ws)
  <2>1. DOMAIN parent = ws BY DEF Rooted
  <2> QED BY <2>1, FS_CardinalityType
<1>2. Find(parent, x) = walk[n] BY DEF Find
<1>3. base \in States /\ base.parent = parent /\ base.at = x BY DEF Rooted
<1> HIDE DEF n
<1>4. Runs(walk)
  <2> DEFINE Ok == {s \in States : Good(s)}
             step == [k \in 1..n |-> [s \in Ok |-> Halve(s)]]
  <2>1. ASSUME NEW s \in Ok PROVE Halve(s) \in Ok
    <3>1. Good(s) OBVIOUS
    <3>2. Good(Halve(s)) BY <3>1, HalveKeeps
    <3>3. Halve(s).parent \in [ws -> ws] /\ Halve(s).at \in ws BY <3>2 DEF Rooted
    <3>4. Halve(s) \in States BY <3>3 DEF Halve
    <3> HIDE DEF Good, States
    <3> QED BY <3>2, <3>4
  <2>2. base \in Ok BY <1>3
  <2>3. step \in Steps(Ok, n)
    <3> HIDE DEF Ok
    <3> QED BY <2>1 DEF Steps
  <2>4. \A k \in 1..n : \A s \in Ok : step[k][s] = Halve(s) OBVIOUS
  <2> HIDE DEF step, base, Ok
  <2>5. PICK f : IsRun(f, Ok, base, step, n) BY <1>1, <2>2, <2>3, LoopHasRun
  <2>6. \A k \in 0..n : k # 0 => k \in 1..n /\ f[k - 1] \in Ok BY <1>1, <2>5 DEF IsRun
  <2>7. \A k \in 0..n : f[k] = IF k = 0 THEN base ELSE Halve(f[k - 1])
    BY <2>4, <2>5, <2>6 DEF IsRun
  <2>8. Runs(f)
    <3>1. f = [k \in 0..n |-> f[k]] BY <2>5 DEF IsRun
    <3> QED BY <2>7, <3>1
  <2> HIDE DEF Runs
  <2> QED BY <2>8
<1> HIDE DEF walk
<1>5. walk[0] = base /\ \A k \in 1..n : walk[k] = Halve(walk[k - 1])
  <2> HIDE DEF base
  <2>1. \A k \in 0..n : walk[k] = IF k = 0 THEN base ELSE Halve(walk[k - 1]) BY <1>4
  <2> QED BY <1>1, <2>1
<1> DEFINE Under(k) == {z \in ws : height[z] <= height[walk[k].at]}
           Far(k) == root[walk[k].at] # walk[k].at => Cardinality(Under(k)) >= k + 1
           S == {k \in 0..n : Good(walk[k]) /\ Far(k)}
<1>6. \A z \in ws : height[z] \in Nat BY DEF Rooted
<1>7. ASSUME NEW k
      PROVE  IsFiniteSet(Under(k)) /\ Cardinality(Under(k)) \in Nat /\ Cardinality(Under(k)) <= n
  <2>1. Under(k) \in SUBSET ws OBVIOUS
  <2> HIDE DEF Under
  <2> QED BY <1>1, <2>1, FS_Subset, FS_CardinalityType
<1>8. 0 \in S
  <2>1. Good(walk[0]) BY <1>3, <1>5
  <2>2. Cardinality(Under(0)) # 0
    <3>1. x \in Under(0) BY <1>3, <1>5, <1>6
    <3> HIDE DEF Under
    <3> QED BY <1>7, <3>1, FS_EmptySet
  <2>3. Cardinality(Under(0)) >= 0 + 1
    <3>1. PICK c \in Nat : c = Cardinality(Under(0)) BY <1>7
    <3> HIDE DEF Under
    <3> QED BY <2>2, <3>1
  <2> HIDE DEF Good, Under
  <2> QED BY <1>1, <2>1, <2>3
<1>9. ASSUME NEW k \in 1..n, k - 1 \in S PROVE k \in S
  <2> DEFINE a == walk[k - 1].at
             b == walk[k].at
  <2>1. Good(walk[k - 1]) /\ Far(k - 1) BY <1>9
  <2>2. Good(walk[k]) /\ (root[a] = a => b = a) /\ (root[a] # a => height[a] < height[b])
    <3>1. walk[k] = Halve(walk[k - 1]) BY <1>5
    <3> HIDE DEF Far
    <3> QED BY <2>1, <3>1, HalveKeeps
  <2>3. ASSUME root[b] # b PROVE Cardinality(Under(k)) >= k + 1
    <3>1. root[a] # a BY <2>2, <2>3
    <3>2. height[a] < height[b] /\ a \in ws /\ b \in ws BY <2>1, <2>2, <3>1
    <3>3. Under(k - 1) \in SUBSET Under(k) /\ b \in Under(k) /\ b \notin Under(k - 1)
      <4>1. height[a] \in Nat /\ height[b] \in Nat BY <1>6, <3>2
      <4> QED BY <1>6, <3>2, <4>1
    <3>4. Cardinality(Under(k - 1)) >= k BY <1>1, <2>1, <3>1
    <3> HIDE DEF Under, a, b
    <3>5. PICK c \in Nat, d \in Nat : c = Cardinality(Under(k - 1)) /\ d = Cardinality(Under(k))
      BY <1>7
    <3>6. c <= d /\ c # d BY <1>7, <3>3, <3>5, FS_Subset
    <3> QED BY <3>4, <3>5, <3>6
  <2>4. Far(k) BY <2>3
  <2> HIDE DEF Good, Far
  <2> QED BY <1>1, <2>2, <2>4
<1>10. Good(walk[n]) /\ Far(n)
  <2> HIDE DEF S
  <2>1. \A k \in 0..n : k \in S BY <1>1, <1>8, <1>9, Ladder
  <2> QED BY <1>1, <2>1 DEF S
<1>11. root[walk[n].at] = walk[n].at
  <2> SUFFICES ASSUME root[walk[n].at] # walk[n].at PROVE FALSE OBVIOUS
  <2>1. Cardinality(Under(n)) >= n + 1 BY <1>10
  <2> HIDE DEF Under
  <2>2. PICK c \in Nat : c = Cardinality(Under(n)) BY <1>7
  <2> QED BY <1>1, <1>7, <2>1, <2>2
<1> QED BY <1>2, <1>10, <1>11 DEF RootOf

\* union puts the tree of x under the root of y, and moves no other node.
LEMMA UnionWorks ==
  ASSUME NEW ws, IsFiniteSet(ws), NEW parent, IsForest(parent, ws), NEW x \in ws, NEW y \in ws
  PROVE  /\ IsForest(Union(parent, x, y), ws)
         /\ \A z \in ws : RootOf(Union(parent, x, y), z) =
              IF RootOf(parent, z) = RootOf(parent, x) THEN RootOf(parent, y) ELSE RootOf(parent, z)
<1>1. PICK root, height : Rooted(parent, root, height, ws) BY DEF IsForest
<1> DEFINE fx == Find(parent, x)
           fy == Find(fx.parent, y)
           p == fy.parent
           rx == root[x]
           ry == root[y]
           q == [p EXCEPT ![rx] = ry]
           newRoot == [z \in ws |-> IF root[z] = rx THEN ry ELSE root[z]]
           newHeight == [z \in ws |-> IF z = ry THEN height[ry] + height[rx] + 1 ELSE height[z]]
<1>2. fx.at = rx /\ Rooted(fx.parent, root, height, ws) BY <1>1, FindWorks DEF RootOf
<1>3. fy.at = ry /\ Rooted(p, root, height, ws) BY <1>2, FindWorks DEF RootOf
<1>4. Union(parent, x, y) = q BY <1>2, <1>3 DEF Union
<1>5. p \in [ws -> ws] /\ root \in [ws -> ws] /\ height \in [ws -> Nat]
      /\ \A z \in ws : /\ root[p[z]] = root[z] /\ p[root[z]] = root[z]
                       /\ p[z] = z => root[z] = z
                       /\ p[z] # z => height[z] < height[p[z]]
  BY <1>3 DEF Rooted
<1> HIDE DEF p, fx, fy
<1>6. rx \in ws /\ ry \in ws /\ root[rx] = rx /\ root[ry] = ry /\ p[rx] = rx /\ p[ry] = ry
  BY <1>5
<1> HIDE DEF rx, ry
<1>7. /\ q \in [ws -> ws] /\ q[rx] = ry /\ \A z \in ws : z # rx => q[z] = p[z]
      /\ newRoot \in [ws -> ws] /\ newHeight \in [ws -> Nat]
      /\ \A z \in ws : newRoot[z] = IF root[z] = rx THEN ry ELSE root[z]
      /\ \A z \in ws : newHeight[z] = IF z = ry THEN height[ry] + height[rx] + 1 ELSE height[z]
  BY <1>5, <1>6
<1> HIDE DEF q, newRoot, newHeight
<1>8. ASSUME rx # ry PROVE Rooted(q, newRoot, newHeight, ws)
  <2>1. ASSUME NEW z \in ws
        PROVE  /\ newRoot[q[z]] = newRoot[z] /\ q[newRoot[z]] = newRoot[z]
               /\ q[z] = z => newRoot[z] = z
               /\ q[z] # z => newHeight[z] < newHeight[q[z]]
    <3>1. newRoot[q[z]] = newRoot[z] BY <1>5, <1>6, <1>7
    <3>2. q[newRoot[z]] = newRoot[z] BY <1>5, <1>6, <1>7, <1>8
    <3>3. q[z] = z => newRoot[z] = z BY <1>5, <1>6, <1>7, <1>8
    <3>4. ASSUME q[z] # z PROVE newHeight[z] < newHeight[q[z]]
      <4>1. height[rx] \in Nat /\ height[ry] \in Nat /\ height[z] \in Nat BY <1>5, <1>6
      <4>2. CASE z = rx BY <1>6, <1>7, <1>8, <4>1, <4>2
      <4>3. CASE z # rx
        <5>1. q[z] = p[z] /\ p[z] # z /\ p[z] \in ws /\ z # ry BY <1>5, <1>6, <1>7, <3>4, <4>3
        <5>2. height[z] < height[p[z]] /\ height[p[z]] \in Nat BY <1>5, <5>1
        <5>3. newHeight[p[z]] >= height[p[z]] /\ newHeight[p[z]] \in Nat
          <6>1. newHeight[p[z]] = IF p[z] = ry THEN height[ry] + height[rx] + 1 ELSE height[p[z]]
            BY <1>7, <5>1
          <6> QED BY <4>1, <5>2, <6>1
        <5>4. newHeight[z] = height[z] BY <1>7, <5>1
        <5> QED BY <4>1, <5>1, <5>2, <5>3, <5>4
      <4> QED BY <4>2, <4>3
    <3> QED BY <3>1, <3>2, <3>3, <3>4
  <2> QED BY <1>7, <2>1 DEF Rooted
<1>9. ASSUME rx = ry PROVE Rooted(q, newRoot, height, ws)
  <2>1. q = p
    <3>1. \A z \in ws : q[z] = p[z] BY <1>6, <1>7, <1>9
    <3> QED BY <1>5, <1>7, <3>1
  <2>2. newRoot = root
    <3>1. \A z \in ws : newRoot[z] = root[z] BY <1>7, <1>9
    <3> QED BY <1>5, <1>7, <3>1
  <2> QED BY <1>3, <2>1, <2>2
<1>10. PICK h : Rooted(q, newRoot, h, ws) BY <1>8, <1>9
<1>11. IsForest(q, ws) BY <1>10 DEF IsForest
<1>12. \A z \in ws : RootOf(q, z) = newRoot[z] BY <1>10, FindWorks
<1>13. \A z \in ws : RootOf(parent, z) = root[z] BY <1>1, FindWorks
<1> QED BY <1>4, <1>7, <1>11, <1>12, <1>13 DEF rx, ry
-----------------------------------------------------------------------------
(* The loops of leiden_cluster.                                            *)

\* The pairs of positions are all pairs of positions.
LEMMA PairsAreAll ==
  ASSUME NEW n \in Nat
  PROVE  /\ n * n \in Nat /\ DOMAIN PairsOf(n) = 1..(n * n) /\ Len(PairsOf(n)) = n * n
         /\ \A k \in 1..(n * n) : PairsOf(n)[k][1] \in 1..n /\ PairsOf(n)[k][2] \in 1..n
         /\ \A i, j \in 1..n : \E k \in 1..(n * n) : PairsOf(n)[k][1] = i /\ PairsOf(n)[k][2] = j
<1>1. n * n \in Nat OBVIOUS
<1>2. /\ DOMAIN PairsOf(n) = 1..(n * n)
      /\ \A k \in 1..(n * n) : /\ PairsOf(n)[k][1] = 1 + ((k - 1) \div n)
                               /\ PairsOf(n)[k][2] = 1 + ((k - 1) % n)
  BY DEF PairsOf
<1>3. Len(PairsOf(n)) = n * n
  BY <1>1 DEF PairsOf
<1>4. ASSUME NEW k \in 1..(n * n)
      PROVE  1 + ((k - 1) \div n) \in 1..n /\ 1 + ((k - 1) % n) \in 1..n
  <2>1. n \in Nat \ {0} /\ k - 1 \in Nat /\ k - 1 < n * n
    <3>1. CASE n = 0 BY <3>1
    <3>2. CASE n # 0 BY <1>1, <3>2
    <3> QED BY <3>1, <3>2
  <2> DEFINE q == (k - 1) \div n
             r == (k - 1) % n
  <2>2. q \in Int /\ r \in 0..(n - 1) /\ k - 1 = n * q + r BY <2>1
  <2> HIDE DEF q, r
  <2>3. q >= 0
    <3> SUFFICES ASSUME q <= -1 PROVE FALSE BY <2>2
    <3>1. n * q <= -n BY <2>1, <2>2
    <3> QED BY <2>1, <2>2, <3>1
  <2>4. q < n
    <3> SUFFICES ASSUME q >= n PROVE FALSE BY <2>1, <2>2
    <3>1. n * q >= n * n BY <2>1, <2>2
    <3> QED BY <2>1, <2>2, <3>1
  <2> QED BY <2>1, <2>2, <2>3, <2>4 DEF q, r
<1>5. ASSUME NEW i \in 1..n, NEW j \in 1..n
      PROVE  \E k \in 1..(n * n) : 1 + ((k - 1) \div n) = i /\ 1 + ((k - 1) % n) = j
  <2> DEFINE q == i - 1
             r == j - 1
             a == q * n + r
  <2>0. n \in Nat \ {0} /\ q \in 0..(n - 1) /\ r \in 0..(n - 1) OBVIOUS
  <2> HIDE DEF q, r
  <2>1. a \in Nat /\ a < n * n
    <3>1. q * n \in Nat /\ q * n <= (n - 1) * n BY <2>0
    <3>2. (n - 1) * n = n * n - n BY <2>0
    <3> QED BY <1>1, <2>0, <3>1, <3>2
  <2>2. a \div n = q /\ a % n = r
    <3>1. a \div n \in Int /\ a % n \in 0..(n - 1) /\ a = n * (a \div n) + (a % n) BY <2>0, <2>1
    <3> QED BY <2>0, <3>1
  <2> HIDE DEF a
  <2>3. a + 1 \in 1..(n * n) /\ (a + 1) - 1 = a BY <1>1, <2>1
  <2>4. 1 + q = i /\ 1 + r = j BY DEF q, r
  <2> QED BY <2>2, <2>3, <2>4
<1>6. \A k \in 1..(n * n) : PairsOf(n)[k][1] \in 1..n /\ PairsOf(n)[k][2] \in 1..n
  BY <1>2, <1>4
<1>7. \A i, j \in 1..n : \E k \in 1..(n * n) : PairsOf(n)[k][1] = i /\ PairsOf(n)[k][2] = j
  <2> TAKE i, j \in 1..n
  <2>1. PICK k \in 1..(n * n) : 1 + ((k - 1) \div n) = i /\ 1 + ((k - 1) % n) = j BY <1>5
  <2>2. PairsOf(n)[k][1] = i /\ PairsOf(n)[k][2] = j BY <1>2, <2>1
  <2> QED BY <2>2
<1> QED BY <1>1, <1>2, <1>3, <1>6, <1>7


\* A step of the loops keeps a forest, parts no two addresses, joins a pair that
\* is similar, and joins none that are not connected.
LEMMA VisitKeeps ==
  ASSUME NEW A, NEW order \in Seq(A), NEW i \in DOMAIN order, NEW j \in DOMAIN order,
         NEW p, p[1] = i, p[2] = j,
         NEW partners, FinitePartners(ToSet(order), partners), NEW threshold,
         NEW parent, IsForest(parent, ToSet(order)), IsFiniteSet(ToSet(order))
  PROVE  LET ws    == ToSet(order)
             after == Visit(parent, p, order, partners, threshold)
         IN  /\ IsForest(after, ws)
             /\ \A x, y \in ws : Joined(parent, x, y) => Joined(after, x, y)
             /\ i < j /\ Similar(partners[order[i]], partners[order[j]], threshold)
                  => Joined(after, order[i], order[j])
             /\ (\A x, y \in ws : Joined(parent, x, y) => Connected(x, y, ws, partners, threshold))
                  => \A x, y \in ws : Joined(after, x, y) => Connected(x, y, ws, partners, threshold)
<1> DEFINE ws == ToSet(order)
           v == order[i]
           w == order[j]
           after == Visit(parent, p, order, partners, threshold)
           C(x, y) == Connected(x, y, ws, partners, threshold)
           Like == i < j /\ Similar(partners[v], partners[w], threshold)
<1>1. v \in ws /\ w \in ws /\ IsFiniteSet(ws) BY DEF ToSet
<1>2. after = IF Like THEN Union(parent, v, w) ELSE parent BY DEF Visit
<1>3. Like => C(v, w) /\ C(w, v) BY <1>1, ConnectedEquivalence
<1>4. \A x, y, z \in ws : C(x, y) /\ C(y, z) => C(x, z) BY ConnectedEquivalence
<1>5. \A x, y \in ws : C(x, y) => C(y, x) BY ConnectedEquivalence
<1> SUFFICES /\ IsForest(after, ws)
             /\ \A x, y \in ws : Joined(parent, x, y) => Joined(after, x, y)
             /\ Like => Joined(after, v, w)
             /\ (\A x, y \in ws : Joined(parent, x, y) => C(x, y))
                  => \A x, y \in ws : Joined(after, x, y) => C(x, y)
  OBVIOUS
<1>6. IsForest(parent, ws) OBVIOUS
<1> HIDE DEF ws, v, w, after, C, Like
<1>7. CASE ~Like BY <1>2, <1>6, <1>7
<1>8. CASE Like
  <2> DEFINE R(z) == RootOf(parent, z)
  <2>1. after = Union(parent, v, w) BY <1>2, <1>8
  <2>2. /\ IsForest(after, ws)
        /\ \A z \in ws : RootOf(after, z) = IF R(z) = R(v) THEN R(w) ELSE R(z)
    BY <1>1, <1>6, <2>1, UnionWorks
  <2>3. \A x, y \in ws : Joined(parent, x, y) => Joined(after, x, y) BY <2>2 DEF Joined
  <2>4. Joined(after, v, w) BY <1>1, <2>2 DEF Joined
  <2>5. ASSUME \A x, y \in ws : Joined(parent, x, y) => C(x, y),
               NEW x \in ws, NEW y \in ws, Joined(after, x, y)
        PROVE  C(x, y)
    <3>1. \/ R(x) = R(y)
          \/ R(x) = R(v) /\ R(y) = R(w)
          \/ R(y) = R(v) /\ R(x) = R(w)
      BY <2>2, <2>5 DEF Joined
    <3>2. CASE R(x) = R(y) BY <2>5, <3>2 DEF Joined
    <3>3. CASE R(x) = R(v) /\ R(y) = R(w)
      <4>1. C(x, v) /\ C(v, w) /\ C(w, y) BY <1>1, <1>3, <1>8, <2>5, <3>3 DEF Joined
      <4>2. C(x, w) BY <1>1, <1>4, <4>1
      <4> QED BY <1>1, <1>4, <4>1, <4>2
    <3>4. CASE R(y) = R(v) /\ R(x) = R(w)
      <4>1. C(x, w) /\ C(w, v) /\ C(v, y) BY <1>1, <1>3, <1>8, <2>5, <3>4 DEF Joined
      <4>2. C(x, v) BY <1>1, <1>4, <4>1
      <4> QED BY <1>1, <1>4, <4>1, <4>2
    <3> QED BY <3>1, <3>2, <3>3, <3>4
  <2> QED BY <2>2, <2>3, <2>4, <2>5
<1> QED BY <1>7, <1>8

\* After the loops two addresses have one root just when they are connected.
LEMMA RootsAreComponents ==
  ASSUME NEW A, NEW order \in Seq(A), NEW partners,
         FinitePartners(ToSet(order), partners), NEW threshold
  PROVE  LET ws     == ToSet(order)
             parent == Forest(order, partners, threshold)
         IN  /\ DOMAIN parent = ws
             /\ \A v, w \in ws : Joined(parent, v, w) <=> Connected(v, w, ws, partners, threshold)
<1> DEFINE ws == ToSet(order)
           pairs == PairsOf(Len(order))
           n == Len(pairs)
           start == [w \in ws |-> w]
           Body(parent, k) == Visit(parent, pairs[k], order, partners, threshold)
           Runs(g) == g = [k \in 0..n |-> IF k = 0 THEN start ELSE Body(g[k - 1], k)]
           after == CHOOSE g : Runs(g)
           C(x, y) == Connected(x, y, ws, partners, threshold)
           Like(k) == /\ pairs[k][1] < pairs[k][2]
                      /\ Similar(partners[order[pairs[k][1]]], partners[order[pairs[k][2]]], threshold)
           Forests == {parent \in [ws -> ws] : IsForest(parent, ws)}
<1>1. /\ n \in Nat /\ DOMAIN order = 1..Len(order) /\ Len(order) \in Nat
      /\ \A k \in 1..n : pairs[k][1] \in DOMAIN order /\ pairs[k][2] \in DOMAIN order
      /\ \A i, j \in DOMAIN order : \E k \in 1..n : pairs[k][1] = i /\ pairs[k][2] = j
  <2>1. DOMAIN order = 1..Len(order) /\ Len(order) \in Nat OBVIOUS
  <2>2. PICK m \in Nat : m = Len(order) OBVIOUS
  <2>3. pairs = PairsOf(m) /\ DOMAIN order = 1..m BY <2>1, <2>2
  <2>4. n = m * m /\ n \in Nat BY <2>3, PairsAreAll
  <2> HIDE DEF pairs, n
  <2>5. \A k \in 1..n : pairs[k][1] \in DOMAIN order /\ pairs[k][2] \in DOMAIN order
    BY <2>3, <2>4, PairsAreAll
  <2>6. \A i, j \in DOMAIN order : \E k \in 1..n : pairs[k][1] = i /\ pairs[k][2] = j
    <3> TAKE i, j \in DOMAIN order
    <3>1. i \in 1..m /\ j \in 1..m BY <2>3
    <3>2. PICK k \in 1..(m * m) : PairsOf(m)[k][1] = i /\ PairsOf(m)[k][2] = j
      BY <3>1, PairsAreAll
    <3> QED BY <2>3, <2>4, <3>2
  <2> QED BY <2>1, <2>4, <2>5, <2>6
<1>2. Forest(order, partners, threshold) = after[n] BY DEF Forest
<1>3. IsFiniteSet(ws)
  <2>1. PICK m \in Nat : DOMAIN order = 1..m BY <1>1
  <2>2. IsFiniteSet(1..m) BY FS_Interval
  <2>3. IsFiniteSet({order[i] : i \in DOMAIN order}) BY <2>1, <2>2, FiniteRange
  <2> QED BY <2>3 DEF ToSet
<1>4. IsForest(start, ws) /\ start \in [ws -> ws] /\ \A w \in ws : RootOf(start, w) = w
  <2> DEFINE height == [w \in ws |-> 0]
  <2>1. start \in [ws -> ws] /\ height \in [ws -> Nat] /\ \A w \in ws : start[w] = w OBVIOUS
  <2> HIDE DEF start, height, ws
  <2>2. Rooted(start, start, height, ws) BY <2>1 DEF Rooted
  <2>3. \A w \in ws : RootOf(start, w) = start[w] BY <1>3, <2>2, FindWorks
  <2> QED BY <2>1, <2>2, <2>3 DEF IsForest
<1>5. ASSUME NEW k \in 1..n, NEW parent, IsForest(parent, ws)
      PROVE  /\ IsForest(Body(parent, k), ws)
             /\ \A x, y \in ws : Joined(parent, x, y) => Joined(Body(parent, k), x, y)
             /\ Like(k) => Joined(Body(parent, k), order[pairs[k][1]], order[pairs[k][2]])
             /\ (\A x, y \in ws : Joined(parent, x, y) => C(x, y))
                  => \A x, y \in ws : Joined(Body(parent, k), x, y) => C(x, y)
  <2>1. PICK i \in DOMAIN order, j \in DOMAIN order : pairs[k][1] = i /\ pairs[k][2] = j
    BY <1>1
  <2>2. PICK p : p = pairs[k] OBVIOUS
  <2>3. p[1] = i /\ p[2] = j /\ Body(parent, k) = Visit(parent, p, order, partners, threshold)
    BY <2>1, <2>2
  <2>4. Like(k) <=> i < j /\ Similar(partners[order[i]], partners[order[j]], threshold)
    BY <2>1
  <2> HIDE DEF pairs, n, Body, Like
  <2> QED BY <1>3, <1>5, <2>1, <2>3, <2>4, VisitKeeps
<1>6. \A parent : IsForest(parent, ws) => parent \in Forests BY DEF IsForest, Rooted
<1> HIDE DEF pairs, n, Body, Forests
<1>7. Runs(after)
  <2> DEFINE step == [k \in 1..n |-> [parent \in Forests |-> Body(parent, k)]]
  <2>1. step \in Steps(Forests, n)
    <3>1. \A k \in 1..n : \A parent \in Forests : Body(parent, k) \in Forests
      BY <1>5, <1>6 DEF Forests
    <3> QED BY <3>1 DEF Steps
  <2>2. \A k \in 1..n : \A parent \in Forests : step[k][parent] = Body(parent, k) OBVIOUS
  <2>3. start \in Forests BY <1>4, <1>6
  <2> HIDE DEF step, start
  <2>4. PICK f : IsRun(f, Forests, start, step, n) BY <1>1, <2>1, <2>3, LoopHasRun
  <2>5. \A k \in 0..n : k # 0 => k \in 1..n /\ f[k - 1] \in Forests BY <1>1, <2>4 DEF IsRun
  <2>6. \A k \in 0..n : f[k] = IF k = 0 THEN start ELSE Body(f[k - 1], k)
    BY <2>2, <2>4, <2>5 DEF IsRun
  <2>7. Runs(f)
    <3>1. f = [k \in 0..n |-> f[k]] BY <2>4 DEF IsRun
    <3> QED BY <2>6, <3>1
  <2> HIDE DEF Runs
  <2> QED BY <2>7
<1> HIDE DEF after
<1>8. after[0] = start /\ \A k \in 1..n : after[k] = Body(after[k - 1], k)
  <2> HIDE DEF start
  <2>1. \A k \in 0..n : after[k] = IF k = 0 THEN start ELSE Body(after[k - 1], k) BY <1>7
  <2> QED BY <1>1, <2>1
<1> DEFINE Good(k) == /\ IsForest(after[k], ws)
                      /\ \A x, y \in ws : Joined(after[k], x, y) => C(x, y)
                      /\ \A m \in 1..k : Like(m) =>
                           Joined(after[k], order[pairs[m][1]], order[pairs[m][2]])
           S == {k \in 0..n : Good(k)}
<1>9. 0 \in S
  <2>1. \A x, y \in ws : Joined(after[0], x, y) => x = y BY <1>4, <1>8 DEF Joined
  <2>2. \A x \in ws : C(x, x) BY ConnectedEquivalence
  <2>3. Good(0) BY <1>4, <1>8, <2>1, <2>2
  <2> HIDE DEF Good
  <2> QED BY <1>1, <2>3
<1>i. \A k \in 1..n : order[pairs[k][1]] \in ws /\ order[pairs[k][2]] \in ws
  BY <1>1 DEF ToSet
<1> HIDE DEF C, Like, ws
<1>10. ASSUME NEW k \in 1..n, k - 1 \in S PROVE k \in S
  <2>1. Good(k - 1) BY <1>10
  <2>2. after[k] = Body(after[k - 1], k) BY <1>8
  <2>3. \A m \in 1..k : m \in 1..n /\ (m \in 1..(k - 1) \/ m = k) BY <1>1
  <2>4. /\ IsForest(after[k], ws)
        /\ \A x, y \in ws : Joined(after[k - 1], x, y) => Joined(after[k], x, y)
        /\ Like(k) => Joined(after[k], order[pairs[k][1]], order[pairs[k][2]])
        /\ \A x, y \in ws : Joined(after[k], x, y) => C(x, y)
    BY <1>5, <2>1, <2>2
  <2>5. Good(k) BY <1>i, <2>1, <2>3, <2>4
  <2> HIDE DEF Good
  <2> QED BY <1>1, <2>5
<1>11. Good(n)
  <2> HIDE DEF S, Good
  <2>1. \A k \in 0..n : k \in S BY <1>1, <1>9, <1>10, Ladder
  <2>2. n \in 0..n BY <1>1
  <2> QED BY <2>1, <2>2 DEF S
<1> DEFINE last == after[n]
           Of(v) == {w \in ws : Joined(last, v, w)}
<1>12. ASSUME NEW v \in ws PROVE Closed(Of(v), ws, partners, threshold)
  <2> SUFFICES ASSUME NEW x \in Of(v), NEW y \in ws \ Of(v),
                      Similar(partners[x], partners[y], threshold)
               PROVE  FALSE
    BY DEF Closed
  <2>1. x \in ws /\ y \in ws OBVIOUS
  <2>2. PICK i \in DOMAIN order, j \in DOMAIN order : order[i] = x /\ order[j] = y
    BY <2>1 DEF ws, ToSet
  <2>3. Similar(partners[y], partners[x], threshold)
    BY <2>1, SimilarSymmetric DEF FinitePartners, ws
  <2>4. Joined(last, x, y)
    <3>1. i \in Int /\ j \in Int /\ i # j BY <1>1, <2>2
    <3>2. CASE i < j
      <4>1. PICK k \in 1..n : pairs[k][1] = i /\ pairs[k][2] = j BY <1>1
      <4>2. Like(k) BY <2>2, <3>2, <4>1 DEF Like
      <4> QED BY <1>11, <2>2, <4>1, <4>2
    <3>3. CASE j < i
      <4>1. PICK k \in 1..n : pairs[k][1] = j /\ pairs[k][2] = i BY <1>1
      <4>2. Like(k) BY <2>2, <2>3, <3>3, <4>1 DEF Like
      <4>3. Joined(last, y, x) BY <1>11, <2>2, <4>1, <4>2
      <4> QED BY <4>3 DEF Joined
    <3> QED BY <3>1, <3>2, <3>3
  <2>5. Joined(last, v, x) OBVIOUS
  <2>6. Joined(last, v, y) BY <2>4, <2>5 DEF Joined
  <2> QED BY <2>6
<1>13. ASSUME NEW v \in ws, NEW w \in ws, C(v, w) PROVE Joined(last, v, w)
  <2>1. v \in Of(v) /\ Of(v) \in SUBSET ws BY DEF Joined
  <2>2. Closed(Of(v), ws, partners, threshold) BY <1>12
  <2>3. w \in Of(v)
    <3> HIDE DEF Of
    <3> QED BY <1>13, <2>1, <2>2 DEF C, Connected
  <2> QED BY <2>3
<1>14. DOMAIN last = ws BY <1>11 DEF IsForest, Rooted
<1>15. \A v, w \in ws : Joined(last, v, w) <=> C(v, w) BY <1>11, <1>13
<1> QED BY <1>2, <1>14, <1>15 DEF C, ws

\* A partition of ws, and two that are in one part of it.
IsPartition(trees, ws) ==
  {} \notin trees /\ UNION trees = ws /\ \A t, u \in trees : t \intersect u # {} => t = u

Joint(trees, v, w) == \E t \in trees : {v, w} \subseteq t

\* The trees are the connected components of similarity.
THEOREM TreesAreComponents ==
  ASSUME NEW A, NEW order \in Seq(A), NEW partners,
         FinitePartners(ToSet(order), partners), NEW threshold
  PROVE  LET ws    == ToSet(order)
             trees == Trees(order, partners, threshold)
         IN  /\ IsPartition(trees, ws)
             /\ \A v, w \in ws : Joint(trees, v, w) <=> Connected(v, w, ws, partners, threshold)
<1> DEFINE ws == ToSet(order)
           parent == Forest(order, partners, threshold)
           trees == Trees(order, partners, threshold)
           Of(v) == {w \in ws : Joined(parent, w, v)}
           C(v, w) == Connected(v, w, ws, partners, threshold)
<1>1. DOMAIN parent = ws /\ \A v, w \in ws : Joined(parent, v, w) <=> C(v, w)
  BY RootsAreComponents
<1>2. trees = {Of(v) : v \in ws} BY <1>1 DEF Trees, Joined, RootOf
<1>3. \A v \in ws : v \in Of(v) BY DEF Joined
<1>4. \A v, w \in ws : Joined(parent, v, w) => Of(v) = Of(w) BY DEF Joined
<1>5. \A v \in ws : \A w \in Of(v) : w \in ws /\ Joined(parent, w, v) OBVIOUS
<1> HIDE DEF parent, trees, Of, C, ws
<1>6. IsPartition(trees, ws)
  <2>1. {} \notin trees BY <1>2, <1>3
  <2>2. UNION trees = ws BY <1>2, <1>3, <1>5
  <2>3. ASSUME NEW t \in trees, NEW u \in trees, t \intersect u # {} PROVE t = u
    <3>1. PICK v \in ws, w \in ws : t = Of(v) /\ u = Of(w) BY <1>2
    <3>2. PICK x : x \in Of(v) /\ x \in Of(w) BY <2>3, <3>1
    <3>3. Of(x) = Of(v) /\ Of(x) = Of(w) BY <1>4, <1>5, <3>2
    <3> QED BY <3>1, <3>3
  <2> QED BY <2>1, <2>2, <2>3 DEF IsPartition
<1>7. ASSUME NEW v \in ws, NEW w \in ws PROVE Joint(trees, v, w) <=> Joined(parent, v, w)
  <2>1. ASSUME Joint(trees, v, w) PROVE Joined(parent, v, w)
    <3>1. PICK u \in ws : v \in Of(u) /\ w \in Of(u) BY <1>2, <2>1 DEF Joint
    <3> QED BY <1>5, <3>1 DEF Joined
  <2>2. ASSUME Joined(parent, v, w) PROVE Joint(trees, v, w)
    <3>1. v \in Of(v) /\ w \in Of(v) BY <1>3, <1>4, <2>2
    <3> QED BY <1>2, <3>1 DEF Joint
  <2> QED BY <2>1, <2>2
<1>8. IsPartition(trees, ws) /\ \A v, w \in ws : Joint(trees, v, w) <=> C(v, w)
  BY <1>1, <1>6, <1>7
<1> QED BY <1>8 DEF trees, C, ws

-----------------------------------------------------------------------------
(* Orders.                                                                 *)

\* s names every member of S once.
Lists(s, S) ==
  /\ s \in Seq(S) /\ ToSet(s) = S
  /\ \A i, j \in DOMAIN s : s[i] = s[j] => i = j

\* Sorting by distinct keys lists the set.
LEMMA SortedByLists ==
  ASSUME NEW ws, IsFiniteSet(ws), NEW key, \A w \in ws : key[w] \in Nat,
         \A v, w \in ws : key[v] = key[w] => v = w
  PROVE  Lists(SortedBy(ws, key), ws)
<1> DEFINE Below(w) == {v \in ws : key[v] <= key[w]}
           n == Cardinality(ws)
           rank == [w \in ws |-> Cardinality(Below(w))]
           s == SortedBy(ws, key)
<1>1. n \in Nat /\ IsFiniteSet(1..n) /\ Cardinality(1..n) = n
  <2>1. n \in Nat BY FS_CardinalityType
  <2> HIDE DEF n
  <2>2. n \in Int /\ 1 \in Int /\ (1 > n => n = 0) BY <2>1
  <2> QED BY <2>1, <2>2, FS_Interval
<1>2. ASSUME NEW w \in ws
      PROVE  IsFiniteSet(Below(w)) /\ Cardinality(Below(w)) \in 1..n
  <2>1. Below(w) \in SUBSET ws /\ w \in Below(w) OBVIOUS
  <2> HIDE DEF Below
  <2>2. IsFiniteSet(Below(w)) /\ Cardinality(Below(w)) <= n BY <2>1, FS_Subset
  <2>3. Cardinality(Below(w)) \in Nat /\ Cardinality(Below(w)) # 0
    BY <2>1, <2>2, FS_CardinalityType, FS_EmptySet
  <2> QED BY <1>1, <2>2, <2>3
<1>3. rank \in [ws -> 1..n] BY <1>2
<1>4. ASSUME NEW v \in ws, NEW w \in ws, key[v] < key[w] PROVE rank[v] # rank[w]
  <2>1. Below(v) \in SUBSET Below(w) /\ w \in Below(w) /\ w \notin Below(v)
    BY <1>4
  <2>2. IsFiniteSet(Below(w)) BY <1>2
  <2>3. rank[v] = Cardinality(Below(v)) /\ rank[w] = Cardinality(Below(w)) OBVIOUS
  <2> HIDE DEF Below, rank
  <2>4. Cardinality(Below(w)) # Cardinality(Below(v)) BY <2>1, <2>2, FS_Subset
  <2> QED BY <2>3, <2>4
<1>5. ASSUME NEW v \in ws, NEW w \in ws, rank[v] = rank[w] PROVE v = w
  <2>1. ~(key[v] < key[w]) /\ ~(key[w] < key[v]) BY <1>4, <1>5
  <2>2. key[v] \in Nat /\ key[w] \in Nat OBVIOUS
  <2>3. key[v] = key[w] BY <2>1, <2>2
  <2> QED BY <2>3
<1>6. \A i \in 1..n : \E w \in ws : rank[w] = i
  <2> DEFINE T == 1..n
  <2>1. IsFiniteSet(T) /\ Cardinality(ws) = Cardinality(T) BY <1>1
  <2>2. OneToOne(rank, ws, T) BY <1>3, <1>5 DEF OneToOne
  <2> HIDE DEF n, rank, T
  <2>3. \A i \in T : \E w \in ws : rank[w] = i BY <2>1, <2>2, InjectiveIsOnto
  <2> QED BY <2>3 DEF T
<1>7. \A w \in ws : rank[w] = Cardinality(Below(w)) OBVIOUS
<1>8. \A i \in 1..n : s[i] \in ws /\ rank[s[i]] = i
  <2> TAKE i \in 1..n
  <2>1. s[i] = CHOOSE w \in ws : Cardinality(Below(w)) = i BY DEF SortedBy
  <2> HIDE DEF Below, rank, s
  <2>2. \E w \in ws : Cardinality(Below(w)) = i BY <1>6, <1>7
  <2>3. s[i] \in ws /\ Cardinality(Below(s[i])) = i BY <2>1, <2>2
  <2> QED BY <1>7, <2>3
<1>9. DOMAIN s = 1..n /\ s = [i \in DOMAIN s |-> s[i]]
  <2> HIDE DEF rank, Below
  <2> DEFINE At(i) == CHOOSE w \in ws : Cardinality({v \in ws : key[v] <= key[w]}) = i
  <2>1. s = [i \in 1..n |-> At(i)] BY DEF SortedBy
  <2> HIDE DEF At, s
  <2> QED BY <2>1
<1> HIDE DEF s, rank, n
<1>10. s \in Seq(ws)
  <2>1. s \in [1..n -> ws] BY <1>8, <1>9
  <2> QED BY <1>1, <2>1
<1>11. \A w \in ws : \E i \in DOMAIN s : s[i] = w
  <2> TAKE w \in ws
  <2>1. rank[w] \in 1..n BY <1>3
  <2>2. s[rank[w]] \in ws /\ rank[s[rank[w]]] = rank[w] BY <1>8, <2>1
  <2>3. s[rank[w]] = w BY <1>5, <2>2
  <2> QED BY <1>9, <2>1, <2>3
<1>12. ToSet(s) = ws BY <1>8, <1>9, <1>11 DEF ToSet
<1>13. \A i, j \in DOMAIN s : s[i] = s[j] => i = j BY <1>8, <1>9
<1> QED BY <1>10, <1>12, <1>13 DEF Lists, s

\* Two addresses do not appear first at the same place of an answer.
LEMMA AppearanceDistinct ==
  ASSUME NEW edges, IsFiniteSet(edges), NEW answer \in Answers(edges)
  PROVE  /\ \A w \in Parties(edges) : Appearance(answer, w) \in Nat
         /\ \A v, w \in Parties(edges) : Appearance(answer, v) = Appearance(answer, w) => v = w
<1> DEFINE At(w) == {2 * i - 1 : i \in {j \in DOMAIN answer : answer[j][1] = w}}
                    \union {2 * i : i \in {j \in DOMAIN answer : answer[j][2] = w}}
<1>1. DOMAIN answer \subseteq Nat \ {0} /\ ToSet(answer) = edges
  <2>1. DOMAIN answer = 1..Cardinality(edges) /\ ToSet(answer) = edges BY DEF Answers
  <2>2. Cardinality(edges) \in Nat BY FS_CardinalityType
  <2> QED BY <2>1, <2>2
<1>2. ASSUME NEW w \in Parties(edges) PROVE Appearance(answer, w) \in At(w) /\ At(w) \subseteq Nat
  <2>1. PICK r \in edges : w = r[1] \/ w = r[2] BY DEF Parties
  <2>2. PICK j \in DOMAIN answer : answer[j] = r BY <1>1 DEF ToSet
  <2>3. At(w) # {}
    <3>1. CASE w = r[1] BY <2>2, <3>1
    <3>2. CASE w = r[2] BY <2>2, <3>2
    <3> QED BY <2>1, <3>1, <3>2
  <2>4. At(w) \in SUBSET Nat BY <1>1
  <2>5. Appearance(answer, w) = CHOOSE n \in At(w) : \A m \in At(w) : n <= m BY DEF Appearance
  <2> HIDE DEF At
  <2>6. \E n \in At(w) : \A m \in At(w) : n <= m BY <2>3, <2>4, Least
  <2> QED BY <2>4, <2>5, <2>6
<1>3. ASSUME NEW v \in Parties(edges), NEW w \in Parties(edges),
             Appearance(answer, v) = Appearance(answer, w)
      PROVE  v = w
  <2>1. PICK n : n \in At(v) /\ n \in At(w) BY <1>2, <1>3
  <2>2. \/ \E i \in DOMAIN answer : n = 2 * i - 1 /\ answer[i][1] = v
        \/ \E i \in DOMAIN answer : n = 2 * i /\ answer[i][2] = v
    BY <2>1
  <2>3. \/ \E i \in DOMAIN answer : n = 2 * i - 1 /\ answer[i][1] = w
        \/ \E i \in DOMAIN answer : n = 2 * i /\ answer[i][2] = w
    BY <2>1
  <2>4. \A i, j \in DOMAIN answer : /\ 2 * i - 1 # 2 * j
                                    /\ 2 * i - 1 = 2 * j - 1 => i = j
                                    /\ 2 * i = 2 * j => i = j
    BY <1>1
  <2> QED BY <2>2, <2>3, <2>4
<1> HIDE DEF At
<1> QED BY <1>2, <1>3

\* Whatever the order of the answer, the addresses are listed.
LEMMA DictOrderLists ==
  ASSUME NEW edges, IsFiniteSet(edges), NEW answer \in Answers(edges),
         NEW ws \in SUBSET Parties(edges), IsFiniteSet(ws)
  PROVE  Lists(InDictOrder(answer, ws), ws)
<1> DEFINE key == [w \in ws |-> Appearance(answer, w)]
<1>1. \A w \in ws : key[w] = Appearance(answer, w) OBVIOUS
<1>2. InDictOrder(answer, ws) = SortedBy(ws, key) BY DEF InDictOrder
<1> HIDE DEF key
<1>3. \A w \in ws : key[w] \in Nat BY <1>1, AppearanceDistinct
<1>4. \A v, w \in ws : key[v] = key[w] => v = w BY <1>1, AppearanceDistinct
<1>5. Lists(SortedBy(ws, key), ws) BY <1>3, <1>4, SortedByLists
<1> QED BY <1>2, <1>5

\* The clusters are the trees, each once.
LEMMA ClusteringLists ==
  ASSUME NEW A, NEW order \in Seq(A), NEW partners,
         FinitePartners(ToSet(order), partners), NEW threshold
  PROVE  Lists(Clustering(order, partners, threshold), Trees(order, partners, threshold))
<1> DEFINE ws == ToSet(order)
           trees == Trees(order, partners, threshold)
           Starts(t) == {i \in DOMAIN order : order[i] \in t}
           First(t) == CHOOSE i \in DOMAIN order :
                         order[i] \in t /\ \A j \in 1..(i - 1) : order[j] \notin t
           key == [t \in trees |-> First(t)]
<1>1. DOMAIN order = 1..Len(order) /\ Len(order) \in Nat OBVIOUS
<1>2. IsPartition(trees, ws) BY TreesAreComponents
<1>3. IsFiniteSet(trees)
  <2>1. PICK m \in Nat : DOMAIN order = 1..m BY <1>1
  <2>2. IsFiniteSet({order[i] : i \in DOMAIN order})
    <3>1. IsFiniteSet(1..m) BY FS_Interval
    <3> QED BY <2>1, <3>1, FiniteRange
  <2>3. IsFiniteSet(ws) BY <2>2 DEF ToSet
  <2>4. trees \in SUBSET SUBSET ws BY <1>2 DEF IsPartition
  <2> HIDE DEF ws, trees
  <2>5. IsFiniteSet(SUBSET ws) BY <2>3, FS_SUBSET
  <2> QED BY <2>4, <2>5, FS_Subset
<1>4. Clustering(order, partners, threshold) = SortedBy(trees, key) BY DEF Clustering
<1> HIDE DEF trees
<1>5. ASSUME NEW t \in trees PROVE First(t) \in DOMAIN order /\ order[First(t)] \in t
  <2>1. PICK w : w \in t /\ w \in ws
    <3>1. {} \notin trees /\ UNION trees = ws BY <1>2 DEF IsPartition
    <3>2. t # {} BY <3>1
    <3>3. t \subseteq ws BY <3>1
    <3> QED BY <3>2, <3>3
  <2>2. PICK i \in DOMAIN order : order[i] = w BY <2>1 DEF ToSet
  <2>3. Starts(t) # {} BY <2>1, <2>2
  <2>4. Starts(t) \in SUBSET Nat BY <1>1
  <2> HIDE DEF Starts
  <2>5. PICK k \in Starts(t) : \A j \in Starts(t) : k <= j BY <2>3, <2>4, Least
  <2>6. k \in DOMAIN order /\ order[k] \in t BY <2>5 DEF Starts
  <2>7. \A j \in 1..(k - 1) : j \in DOMAIN order /\ ~(k <= j) BY <1>1, <2>6
  <2>8. \A j \in 1..(k - 1) : order[j] \notin t BY <2>5, <2>7 DEF Starts
  <2>9. \E n \in DOMAIN order : order[n] \in t /\ \A j \in 1..(n - 1) : order[j] \notin t
    BY <2>6, <2>8
  <2> QED BY <2>9
<1> HIDE DEF First
<1>6. \A t \in trees : key[t] = First(t) OBVIOUS
<1> HIDE DEF key
<1>7. \A t \in trees : key[t] \in Nat BY <1>1, <1>5, <1>6
<1>8. \A t, u \in trees : key[t] = key[u] => t = u BY <1>2, <1>5, <1>6 DEF IsPartition
<1> QED BY <1>3, <1>4, <1>7, <1>8, SortedByLists DEF trees

-----------------------------------------------------------------------------
(* The inductive invariant.                                                *)

Types ==
  /\ wallets \subseteq Addrs /\ clusters \subseteq Nat \ {0} /\ entities \subseteq Uids
  /\ clusterOf \in [Addrs -> Nat] /\ entityOf \in [Addrs -> Uids \union {NoEntity}]
  /\ sdn \in Seq(Entry)
  /\ DOMAIN found \subseteq Nat \ {0}

\* A wallet's cluster and entity have rows.
Rowed ==
  \A a \in Addrs : /\ clusterOf[a] # 0 => clusterOf[a] \in clusters
                   /\ entityOf[a] # NoEntity => entityOf[a] \in entities

\* What the list in hand names was listed, and has its rows before the links.
ListInv ==
  /\ Addresses \subseteq everListed
  /\ pc = "link" => Named \subseteq entities

IInv == Types /\ Rowed /\ ListInv /\ LinkedWasListed

LEMMA RowedIsNames == Rowed <=> NamesHaveRows
BY DEF Rowed, NamesHaveRows, Tables!NamesHaveRows

LEMMA ListTypes ==
  ASSUME sdn \in Seq(Entry)
  PROVE  Named \subseteq Uids /\ Addresses \subseteq Addrs
<1>1. \A i \in DOMAIN sdn : sdn[i] \in Entry OBVIOUS
<1>2. ToSet(sdn) \subseteq Entry BY <1>1 DEF ToSet
<1>3. \A e \in Entry : e.uid \in Uids /\ e.address \in Addrs BY DEF Entry
<1> QED BY <1>2, <1>3 DEF Named, Addresses

LEMMA InitInv == Init => IInv
<1> SUFFICES ASSUME Init PROVE IInv OBVIOUS
<1>1. <<>> \in Seq(Entry) /\ DOMAIN <<>> = {} /\ ToSet(<<>>) = {} BY DEF ToSet
<1>2. Types BY <1>1, EntityAssumption DEF Init, Types
<1>3. Rowed BY DEF Init, Rowed
<1>4. ListInv BY <1>1 DEF Init, ListInv, Addresses, Named
<1>5. LinkedWasListed BY DEF Init, LinkedWasListed
<1> QED BY <1>2, <1>3, <1>4, <1>5 DEF IInv

-----------------------------------------------------------------------------
(* Every step keeps it, and is a step of the tables or none.               *)

TablesStep == Tables!TablesNext \/ UNCHANGED Tables!riskTables

\* A step that leaves the tables and the list in hand alone, on the way to
\* another statement than the links.
LEMMA Aside ==
  ASSUME IInv, UNCHANGED <<tables, everListed>>,
         sdn' = sdn \/ sdn' = <<>>, DOMAIN found' \subseteq Nat \ {0}, pc' = pc \/ pc' # "link"
  PROVE  IInv' /\ TablesStep
<1>1. <<>> \in Seq(Entry) /\ ToSet(<<>>) = {} BY DEF ToSet
<1>2. Types' /\ Rowed' /\ LinkedWasListed'
  BY <1>1 DEF IInv, tables, Types, Rowed, LinkedWasListed
<1>3. ListInv'
  <2>1. CASE sdn' = sdn BY <2>1 DEF IInv, tables, ListInv, Addresses, Named
  <2>2. CASE sdn' = <<>> BY <1>1, <2>2 DEF ListInv, Addresses, Named
  <2> QED BY <2>1, <2>2
<1>4. TablesStep BY DEF TablesStep, tables, Tables!riskTables
<1> QED BY <1>2, <1>3, <1>4 DEF IInv

LEMMA FetchKeeps ==
  ASSUME IInv, FetchOfac
  PROVE  IInv' /\ TablesStep
<1>1. PICK s \in SdnListings \union {<<>>}, a \in AddListings \union {<<>>} : sdn' = s \o a
  BY DEF FetchOfac
<1>2. sdn' \in Seq(Entry)
  <2>1. s \in Seq(Entry) /\ a \in Seq(Entry)
    <3>1. <<>> \in Seq(Entry) OBVIOUS
    <3> QED BY <3>1, EntityAssumption
  <2> QED BY <1>1, <2>1
<1>3. /\ UNCHANGED <<tables, found>> /\ pc' # "link"
      /\ everListed' = everListed \union Addresses'
  BY DEF FetchOfac, graph, Addresses
<1>4. Types' /\ Rowed' BY <1>2, <1>3 DEF IInv, tables, Types, Rowed
<1>5. ListInv' /\ LinkedWasListed' BY <1>3 DEF IInv, tables, ListInv, LinkedWasListed
<1>6. TablesStep BY <1>3 DEF TablesStep, tables, Tables!riskTables
<1> QED BY <1>4, <1>5, <1>6 DEF IInv

LEMMA EntitiesKeep ==
  ASSUME IInv, UpsertEntities
  PROVE  IInv' /\ TablesStep
<1>0. Types /\ Rowed /\ ListInv /\ LinkedWasListed BY DEF IInv
<1>1. /\ entities' = entities \union Named
      /\ UNCHANGED <<wallets, clusterOf, entityOf, clusters, sdn, found, everListed>>
  BY DEF UpsertEntities, graph, ghosts
<1>2. Named \subseteq Uids BY <1>0, ListTypes DEF Types
<1>3. Types' /\ Rowed' BY <1>0, <1>1, <1>2 DEF Types, Rowed
<1>4. ListInv' /\ LinkedWasListed'
  BY <1>0, <1>1 DEF ListInv, LinkedWasListed, Addresses, Named
<1>5. Tables!AddEntities BY <1>0, <1>1, <1>2 DEF Tables!AddEntities, Types
<1> QED BY <1>3, <1>4, <1>5 DEF IInv, TablesStep, Tables!TablesNext

LEMMA LinkKeeps ==
  ASSUME IInv, LinkWallets
  PROVE  IInv' /\ TablesStep
<1>0. Types /\ Rowed /\ ListInv /\ LinkedWasListed BY DEF IInv
<1> DEFINE Hit == wallets \intersect Addresses
<1>1. PICK pick \in [Hit -> Named] :
        entityOf' = [a \in Addrs |-> IF a \in Hit THEN pick[a] ELSE entityOf[a]]
  BY DEF LinkWallets
<1>2. /\ pc = "link" /\ pc' = "graph" /\ sdn' = <<>>
      /\ UNCHANGED <<wallets, clusterOf, clusters, entities, found, everListed>>
  BY DEF LinkWallets, graph, ghosts
<1>3. Named \subseteq Uids /\ Named \subseteq entities BY <1>0, <1>2, ListTypes DEF Types, ListInv
<1>4. \A a \in Hit : pick[a] \in Named /\ a \in wallets /\ a \in everListed
  BY <1>0, <1>1 DEF ListInv
<1>5. \A a \in Addrs : \/ a \in Hit /\ entityOf'[a] = pick[a]
                       \/ a \notin Hit /\ entityOf'[a] = entityOf[a]
  BY <1>1
<1>6. entityOf' \in [Addrs -> Uids \union {NoEntity}]
  <2>1. \A a \in Addrs : entityOf'[a] \in Uids \union {NoEntity}
    BY <1>0, <1>3, <1>4, <1>5 DEF Types
  <2>2. entityOf' = [a \in Addrs |-> entityOf'[a]] BY <1>1
  <2> HIDE DEF Hit
  <2> QED BY <2>1, <2>2
<1> HIDE DEF Hit
<1>7. <<>> \in Seq(Entry) /\ ToSet(<<>>) = {} BY DEF ToSet
<1>8. Types' BY <1>0, <1>2, <1>6, <1>7 DEF Types
<1>9. Rowed' BY <1>0, <1>2, <1>3, <1>4, <1>5 DEF Rowed
<1>10. ListInv' BY <1>2, <1>7 DEF ListInv, Addresses, Named
<1>11. LinkedWasListed' BY <1>0, <1>2, <1>4, <1>5 DEF LinkedWasListed
<1>12. Tables!Relabel
  <2>1. \A a \in Addrs : Tables!Label(a, entityOf'[a])
    BY <1>3, <1>4, <1>5 DEF Tables!Label
  <2> QED BY <1>2, <1>6, <2>1 DEF Tables!Relabel
<1> QED BY <1>8, <1>9, <1>10, <1>11, <1>12 DEF IInv, TablesStep, Tables!TablesNext

LEMMA ClusterKeeps ==
  ASSUME IInv, ClusterCandidates
  PROVE  IInv' /\ TablesStep
<1>1. PICK answer \in Answers(rows) :
        found' = Clustering(InDictOrder(answer, Candidates), Partners, best.threshold)
  BY DEF ClusterCandidates
<1>2. DOMAIN found' \subseteq Nat \ {0}
  <2>1. \A n : 1..n \subseteq Nat \ {0} OBVIOUS
  <2>2. \A ws, key : DOMAIN SortedBy(ws, key) = 1..Cardinality(ws) BY DEF SortedBy
  <2>3. \A ws, key : DOMAIN SortedBy(ws, key) \subseteq Nat \ {0} BY <2>1, <2>2
  <2> QED BY <1>1, <2>3 DEF Clustering
<1>3. UNCHANGED <<tables, everListed, sdn>> /\ pc' # "link"
  BY DEF ClusterCandidates, ghosts
<1> QED BY <1>2, <1>3, Aside

LEMMA PersistKeeps ==
  ASSUME IInv, PersistClusters
  PROVE  IInv' /\ TablesStep
<1>0. Types /\ Rowed /\ ListInv /\ LinkedWasListed BY DEF IInv
<1> DEFINE In(a) == a \in wallets /\ \E i \in Kept : a \in found[i]
           Of(a) == CHOOSE i \in Kept : a \in found[i]
<1>1. /\ clusters' = clusters \union Kept
      /\ clusterOf' = [a \in Addrs |-> IF In(a) THEN Of(a) ELSE clusterOf[a]]
      /\ found' = <<>> /\ pc' = "asleep"
      /\ UNCHANGED <<wallets, entityOf, entities, sdn, everListed>>
  BY DEF PersistClusters, IdOf
<1>2. Kept \subseteq Nat \ {0} BY <1>0 DEF Kept, Types
<1>3. \A a \in Addrs : In(a) => a \in wallets /\ Of(a) \in Kept OBVIOUS
<1>4. \A a \in Addrs : \/ In(a) /\ clusterOf'[a] = Of(a)
                       \/ ~In(a) /\ clusterOf'[a] = clusterOf[a]
  BY <1>1
<1>5. clusterOf' = [a \in Addrs |-> clusterOf'[a]] BY <1>1
<1> HIDE DEF In, Of
<1>6. \A a \in Addrs : clusterOf'[a] = clusterOf[a] \/ (a \in wallets /\ clusterOf'[a] \in clusters')
  BY <1>1, <1>3, <1>4
<1>7. \A a \in Addrs : clusterOf'[a] \in clusters' \union {0}
  BY <1>0, <1>1, <1>6 DEF Rowed
<1>8. clusters' \subseteq Nat \ {0} BY <1>0, <1>1, <1>2 DEF Types
<1>9. clusterOf' \in [Addrs -> clusters' \union {0}] /\ clusterOf' \in [Addrs -> Nat]
  BY <1>5, <1>7, <1>8
<1>10. DOMAIN found' \subseteq Nat \ {0}
  <2>1. DOMAIN <<>> = {} OBVIOUS
  <2> QED BY <1>1, <2>1
<1>11. Types' BY <1>0, <1>1, <1>8, <1>9, <1>10 DEF Types
<1>12. Rowed' BY <1>0, <1>1, <1>7 DEF Rowed
<1>13. ListInv' /\ LinkedWasListed' BY <1>0, <1>1 DEF ListInv, LinkedWasListed, Addresses, Named
<1>14. Tables!Recluster BY <1>1, <1>6, <1>8, <1>9 DEF Tables!Recluster
<1> QED BY <1>11, <1>12, <1>13, <1>14 DEF IInv, TablesStep, Tables!TablesNext

LEMMA NewWalletKeeps ==
  ASSUME IInv, NewWallet
  PROVE  IInv' /\ TablesStep
<1>0. Types /\ Rowed /\ ListInv /\ LinkedWasListed BY DEF IInv
<1>1. PICK a \in LateWallets \ wallets : wallets' = wallets \union {a} BY DEF NewWallet
<1>2. UNCHANGED <<clusterOf, entityOf, clusters, entities, sdn, found, everListed, pc>>
  BY DEF NewWallet, graph, ghosts
<1>3. wallets' \subseteq Addrs BY <1>0, <1>1, EntityAssumption DEF Types
<1>4. Types' /\ Rowed' BY <1>0, <1>2, <1>3 DEF Types, Rowed
<1>5. ListInv' /\ LinkedWasListed' BY <1>0, <1>2 DEF ListInv, LinkedWasListed, Addresses, Named
<1>6. Tables!AddWallets BY <1>1, <1>2, <1>3 DEF Tables!AddWallets
<1> QED BY <1>4, <1>5, <1>6 DEF IInv, TablesStep, Tables!TablesNext

LEMMA NextKeeps ==
  ASSUME IInv, [Next]_vars
  PROVE  IInv' /\ TablesStep
<1>0. DOMAIN found \subseteq Nat \ {0} BY DEF IInv, Types
<1>e. DOMAIN <<>> \subseteq Nat \ {0}
  <2>1. DOMAIN <<>> = {} OBVIOUS
  <2> QED BY <2>1
<1>1. CASE UNCHANGED vars
  <2>1. UNCHANGED <<tables, everListed, sdn, found, pc>> BY <1>1 DEF vars, ghosts, graph
  <2> QED BY <1>0, <2>1, Aside
<1>2. CASE UpsertOfac \/ BuildGraph \/ ReadGold \/ DrawAndEvaluate \/ DrawRaises
  <2>1. UNCHANGED <<tables, everListed, sdn, found>> /\ pc' # "link"
    BY <1>2 DEF UpsertOfac, BuildGraph, ReadGold, DrawAndEvaluate, DrawRaises, ghosts, graph
  <2> QED BY <1>0, <2>1, Aside
<1>3. CASE NewTransfer \/ Expire
  <2>1. UNCHANGED <<tables, everListed, sdn, found, pc>>
    BY <1>3 DEF NewTransfer, Expire, ghosts, graph
  <2> QED BY <1>0, <2>1, Aside
<1>4. CASE RoundFails
  <2>1. UNCHANGED <<tables, everListed>> /\ sdn' = <<>> /\ found' = <<>> /\ pc' # "link"
    BY <1>4 DEF RoundFails, ghosts
  <2> QED BY <1>e, <2>1, Aside
<1> QED
  BY <1>1, <1>2, <1>3, <1>4, FetchKeeps, EntitiesKeep, LinkKeeps, ClusterKeeps, PersistKeeps,
     NewWalletKeeps DEF Next, RunPipeline

\* The invariant is inductive.
THEOREM Inductive == Spec => []IInv
<1>1. IInv /\ [Next]_vars => IInv' BY NextKeeps
<1> QED BY <1>1, InitInv, PTL DEF Spec

-----------------------------------------------------------------------------
(* The round: what the pipeline holds between two steps, and what it has   *)
(* written last.                                                           *)

WindowInv == oldest \in Nat /\ newest \in 0..Len(Transfers) /\ oldest <= newest

SanctionsInv ==
  /\ listed \in [Uids -> Addrs \union {0}] /\ everListed \subseteq Addrs
  /\ pc \in Phases /\ (sdn # <<>> <=> pc \in {"ofac", "entities", "link"})

\* A threshold is left to try whenever pairs are drawn.
TrialInv ==
  /\ tried \in 0..Len(Thresholds) /\ (tried > 0 => pc \in {"gold", "draw", "persist"})
  /\ pc = "draw" => tried < Len(Thresholds)
  /\ pool \subseteq wallets /\ (pool # {} => pc = "draw")
  /\ best.threshold \in Nat

GraphInv == IsFiniteSet(rows) /\ \A r \in rows : r[1] \in Addrs /\ r[2] \in Addrs

\* No two clusters share a wallet.
Apart == \A i, j \in DOMAIN found : found[i] \intersect found[j] # {} => i = j

FoundInv ==
  /\ found \in Seq(SUBSET Addrs) /\ (found # <<>> => pc = "persist")
  /\ Apart

WrittenInv == parts \subseteq SUBSET Addrs /\ LatestRoundAgrees

RoundInv ==
  /\ WindowInv /\ SanctionsInv /\ TrialInv /\ GraphInv /\ FoundInv
  /\ ClustersAreComponents /\ WrittenInv

LEMMA TransferEnds == Len(Transfers) \in Nat /\ \A i \in 1..Len(Transfers) : Transfers[i] \in Addrs \X Addrs
BY EntityAssumption

LEMMA WindowKeeps ==
  ASSUME WindowInv, [Next]_vars
  PROVE  WindowInv'
<1>1. CASE NewTransfer BY <1>1, TransferEnds DEF NewTransfer, WindowInv
<1>2. CASE Expire BY <1>2 DEF Expire, WindowInv
<1>3. CASE UNCHANGED window BY <1>3 DEF window, WindowInv
<1>4. UNCHANGED window \/ NewTransfer \/ Expire
  BY DEF Next, RunPipeline, FetchOfac, UpsertOfac, UpsertEntities, LinkWallets, BuildGraph,
         ReadGold, DrawAndEvaluate, DrawRaises, ClusterCandidates, PersistClusters, RoundFails,
         NewWallet, vars
<1> QED BY <1>1, <1>2, <1>3, <1>4

LEMMA SanctionsKeep ==
  ASSUME IInv, SanctionsInv, [Next]_vars
  PROVE  SanctionsInv'
<1>1. CASE FetchOfac
  <2>1. PICK s \in SdnListings \union {<<>>}, a \in AddListings \union {<<>>} : sdn' = s \o a
    BY <1>1 DEF FetchOfac
  <2>2. sdn' \in Seq(Entry)
    <3>1. <<>> \in Seq(Entry) OBVIOUS
    <3>2. s \in Seq(Entry) /\ a \in Seq(Entry) BY <3>1, EntityAssumption
    <3> QED BY <2>1, <3>2
  <2>3. Addresses' \subseteq Addrs
    <3>1. \A i \in DOMAIN sdn' : sdn'[i] \in Entry BY <2>2
    <3>2. \A e \in Entry : e.address \in Addrs BY DEF Entry
    <3> QED BY <3>1, <3>2 DEF Addresses, ToSet
  <2>4. everListed' = everListed \union Addresses' /\ UNCHANGED listed
    BY <1>1 DEF FetchOfac, Addresses
  <2>5. pc' = IF sdn' = <<>> THEN "graph" ELSE "ofac" BY <1>1 DEF FetchOfac
  <2> QED BY <2>3, <2>4, <2>5 DEF SanctionsInv, Phases
<1>2. CASE UpsertOfac
  <2> DEFINE Mine(u) == {i \in DOMAIN sdn : sdn[i].uid = u}
             last(u) == CHOOSE i \in DOMAIN sdn : sdn[i].uid = u /\
                          \A j \in DOMAIN sdn : sdn[j].uid = u => j <= i
             next(u) == IF u \notin Named THEN listed[u] ELSE sdn[last(u)].address
  <2>1. listed' = [u \in Uids |-> next(u)] BY <1>2 DEF UpsertOfac
  <2>2. sdn \in Seq(Entry) /\ DOMAIN sdn = 1..Len(sdn) /\ Len(sdn) \in Nat BY DEF IInv, Types
  <2>3. ASSUME NEW u \in Uids PROVE next(u) \in Addrs \union {0}
    <3>1. CASE u \notin Named BY <3>1 DEF SanctionsInv
    <3>2. CASE u \in Named
      <4>1. PICK k \in DOMAIN sdn : sdn[k].uid = u BY <3>2 DEF Named, ToSet
      <4>2. Mine(u) # {} BY <4>1
      <4>3. Mine(u) \in SUBSET (0..Len(sdn)) BY <2>2
      <4> HIDE DEF Mine
      <4>4. PICK i \in Mine(u) : \A j \in Mine(u) : j <= i BY <2>2, <4>2, <4>3, Greatest
      <4>5. \E i0 \in DOMAIN sdn : sdn[i0].uid = u /\ \A j \in DOMAIN sdn : sdn[j].uid = u => j <= i0
        BY <4>4 DEF Mine
      <4>6. last(u) \in DOMAIN sdn BY <4>5
      <4> HIDE DEF last
      <4>7. sdn[last(u)] \in Entry BY <2>2, <4>6
      <4>8. sdn[last(u)].address \in Addrs BY <4>7 DEF Entry
      <4> QED BY <3>2, <4>8
    <3> QED BY <3>1, <3>2
  <2> HIDE DEF next
  <2>4. listed' \in [Uids -> Addrs \union {0}] BY <2>1, <2>3
  <2>5. pc = "ofac" /\ pc' = "entities" /\ UNCHANGED <<sdn, everListed>>
    BY <1>2 DEF UpsertOfac, ghosts
  <2> QED BY <2>4, <2>5 DEF SanctionsInv, Phases
<1>3. CASE UpsertEntities
  BY <1>3 DEF UpsertEntities, SanctionsInv, Phases, ghosts
<1>4. CASE LinkWallets
  BY <1>4 DEF LinkWallets, SanctionsInv, Phases, ghosts
<1>5. CASE RoundFails
  BY <1>5 DEF RoundFails, SanctionsInv, Phases, ghosts
<1>6. CASE \/ BuildGraph \/ ReadGold \/ DrawAndEvaluate \/ DrawRaises \/ ClusterCandidates
           \/ PersistClusters
  <2>1. UNCHANGED <<listed, sdn, everListed>>
    BY <1>6 DEF BuildGraph, ReadGold, DrawAndEvaluate, DrawRaises, ClusterCandidates,
                PersistClusters, ghosts
  <2>2. /\ pc \in {"graph", "gold", "draw", "persist"}
        /\ pc' \in {"gold", "draw", "persist", "asleep"}
    BY <1>6 DEF BuildGraph, ReadGold, DrawAndEvaluate, DrawRaises, ClusterCandidates,
                PersistClusters
  <2> QED BY <2>1, <2>2 DEF SanctionsInv, Phases
<1>7. CASE NewTransfer \/ Expire \/ NewWallet \/ UNCHANGED vars
  <2>1. UNCHANGED <<listed, sdn, everListed, pc>>
    BY <1>7 DEF NewTransfer, Expire, NewWallet, vars, ghosts
  <2> QED BY <2>1 DEF SanctionsInv
<1> QED BY <1>1, <1>2, <1>3, <1>4, <1>5, <1>6, <1>7 DEF Next, RunPipeline

LEMMA TrialKeeps ==
  ASSUME IInv, TrialInv, [Next]_vars
  PROVE  TrialInv'
<1>0. Len(Thresholds) \in Nat /\ Fallback \in Nat
      /\ \A i \in 1..Len(Thresholds) : Thresholds[i] \in Nat
  BY EntityAssumption
<1>1. CASE ReadGold
  <2>1. /\ pc = "gold" /\ tried < Len(Thresholds) /\ pc' = "draw" /\ pool' = wallets
        /\ UNCHANGED <<wallets, tried, best>>
    BY <1>1 DEF ReadGold, tables
  <2> QED BY <2>1 DEF TrialInv
<1>2. CASE DrawAndEvaluate
  <2>1. /\ pc = "draw" /\ pc' = "gold" /\ tried' = tried + 1 /\ pool' = {}
        /\ best' = best \/ \E f : best' = [f1 |-> f, threshold |-> Thresholds[tried + 1]]
    BY <1>2 DEF DrawAndEvaluate
  <2>2. tried + 1 \in 1..Len(Thresholds) BY <1>0, <2>1 DEF TrialInv
  <2>3. best'.threshold \in Nat BY <1>0, <2>1, <2>2 DEF TrialInv
  <2> QED BY <2>1, <2>2, <2>3 DEF TrialInv
<1>3. CASE BuildGraph \/ DrawRaises \/ RoundFails
  <2>1. /\ tried' = 0 /\ best' = NoF1 /\ pc' # "draw"
        /\ pool' = {} \/ (pool' = pool /\ pc = "graph")
        /\ UNCHANGED wallets
    BY <1>3 DEF BuildGraph, DrawRaises, RoundFails, tables
  <2>2. pool' = {} BY <2>1 DEF TrialInv
  <2>3. best'.threshold \in Nat BY <1>0, <2>1 DEF NoF1
  <2> QED BY <1>0, <2>1, <2>2, <2>3 DEF TrialInv
<1>4. CASE ClusterCandidates
  <2>1. pc = "gold" /\ pc' = "persist" /\ UNCHANGED <<tried, pool, best, wallets>>
    BY <1>4 DEF ClusterCandidates, tables
  <2> QED BY <2>1 DEF TrialInv
<1>5. CASE PersistClusters
  <2>1. /\ pc = "persist" /\ pc' = "asleep" /\ tried' = 0 /\ best' = NoF1
        /\ UNCHANGED <<pool, wallets>>
    BY <1>5 DEF PersistClusters
  <2>2. best'.threshold \in Nat BY <1>0, <2>1 DEF NoF1
  <2> QED BY <1>0, <2>1, <2>2 DEF TrialInv
<1>6. CASE FetchOfac \/ UpsertOfac \/ UpsertEntities \/ LinkWallets
  <2>1. /\ pc \in {"asleep", "ofac", "entities", "link"} /\ pc' # "draw"
        /\ UNCHANGED <<tried, pool, best, wallets>>
    BY <1>6 DEF FetchOfac, UpsertOfac, UpsertEntities, LinkWallets, graph, tables
  <2>2. tried = 0 /\ pool = {} BY <2>1 DEF TrialInv
  <2> QED BY <2>1, <2>2 DEF TrialInv
<1>7. CASE NewWallet
  <2>1. wallets \subseteq wallets' /\ UNCHANGED <<tried, pool, best, pc>>
    BY <1>7 DEF NewWallet, graph
  <2> QED BY <2>1 DEF TrialInv
<1>8. CASE NewTransfer \/ Expire \/ UNCHANGED vars
  <2>1. UNCHANGED <<tried, pool, best, pc, wallets>>
    BY <1>8 DEF NewTransfer, Expire, vars, graph, tables
  <2> QED BY <2>1 DEF TrialInv
<1> QED BY <1>1, <1>2, <1>3, <1>4, <1>5, <1>6, <1>7, <1>8 DEF Next, RunPipeline

LEMMA RowsFinite ==
  ASSUME WindowInv
  PROVE  IsFiniteSet(Rows) /\ \A r \in Rows : r[1] \in Addrs /\ r[2] \in Addrs
<1> DEFINE pairs == {Transfers[i] : i \in Recent}
           row(p) == <<p[1], p[2], Cardinality({i \in Recent : Transfers[i] = p})>>
<1>1. Recent \in SUBSET (1..newest) /\ newest \in Nat /\ newest <= Len(Transfers)
  BY TransferEnds DEF WindowInv, Recent
<1>2. IsFiniteSet(Recent)
  <2>1. IsFiniteSet(1..newest) BY <1>1, FS_Interval
  <2> QED BY <1>1, <2>1, FS_Subset
<1>3. \A i \in Recent : Transfers[i] \in Addrs \X Addrs BY <1>1, TransferEnds
<1>4. IsFiniteSet(pairs)
  <2> DEFINE f == [i \in Recent |-> Transfers[i]]
  <2>1. IsFiniteSet({f[i] : i \in Recent}) BY <1>2, FiniteRange
  <2>2. pairs = {f[i] : i \in Recent} OBVIOUS
  <2> QED BY <2>1, <2>2
<1>5. Rows = {row(p) : p \in pairs} BY DEF Rows
<1>6. \A p \in pairs : p[1] \in Addrs /\ p[2] \in Addrs BY <1>3
<1>7. \A p : row(p)[1] = p[1] /\ row(p)[2] = p[2] OBVIOUS
<1> HIDE DEF pairs, row
<1>8. IsFiniteSet(Rows)
  <2> DEFINE f == [p \in pairs |-> row(p)]
  <2>1. IsFiniteSet({f[p] : p \in pairs}) BY <1>4, FiniteRange
  <2>2. Rows = {f[p] : p \in pairs} BY <1>5
  <2> QED BY <2>1, <2>2
<1> QED BY <1>5, <1>6, <1>7, <1>8

LEMMA GraphKeeps ==
  ASSUME WindowInv, GraphInv, [Next]_vars
  PROVE  GraphInv'
<1>1. rows' = rows \/ rows' = {} \/ rows' = Rows
  BY DEF Next, RunPipeline, FetchOfac, UpsertOfac, UpsertEntities, LinkWallets, BuildGraph,
         ReadGold, DrawAndEvaluate, DrawRaises, ClusterCandidates, PersistClusters, RoundFails,
         NewTransfer, Expire, NewWallet, vars, graph
<1>2. IsFiniteSet({}) BY FS_EmptySet
<1> QED BY <1>1, <1>2, RowsFinite DEF GraphInv

\* The candidates are addresses, and have finitely many counterparties.
LEMMA CandidateTypes ==
  ASSUME GraphInv
  PROVE  /\ Candidates \subseteq Parties(rows) /\ Candidates \subseteq Addrs
         /\ IsFiniteSet(Candidates) /\ FinitePartners(Candidates, Partners)
<1>1. Parties(rows) \subseteq Addrs BY DEF GraphInv, Parties
<1>2. Candidates \in SUBSET Parties(rows) BY DEF Candidates
<1>3. Candidates \in SUBSET Addrs BY <1>1, <1>2
<1>4. \A w : Counterparties(rows, w) \in SUBSET Addrs BY DEF GraphInv, Counterparties
<1>5. \A S \in SUBSET Addrs : IsFiniteSet(S) BY EntityAssumption, FS_Subset
<1>6. \A w \in Candidates : Partners[w] = Counterparties(rows, w) BY DEF Partners
<1> QED BY <1>2, <1>3, <1>4, <1>5, <1>6 DEF FinitePartners

\* What a clustering lists: sets of addresses, apart, each a component.
LEMMA ClusteringWorks ==
  ASSUME GraphInv, ClusterCandidates
  PROVE  /\ found' \in Seq(SUBSET Addrs) /\ Apart'
         /\ \A v, w \in Candidates :
              (\E i \in DOMAIN found' : {v, w} \subseteq found'[i])
                <=> Connected(v, w, Candidates, Partners, best.threshold)
<1>1. PICK answer \in Answers(rows) :
        found' = Clustering(InDictOrder(answer, Candidates), Partners, best.threshold)
  BY DEF ClusterCandidates
<1> DEFINE order == InDictOrder(answer, Candidates)
           trees == Trees(order, Partners, best.threshold)
<1>2. Lists(order, Candidates) BY CandidateTypes, DictOrderLists DEF GraphInv
<1>3. order \in Seq(Candidates) /\ ToSet(order) = Candidates BY <1>2 DEF Lists
<1>4. FinitePartners(ToSet(order), Partners) BY <1>3, CandidateTypes
<1> HIDE DEF order
<1>5. Lists(found', trees) BY <1>1, <1>3, <1>4, ClusteringLists DEF order
<1>6. /\ IsPartition(trees, Candidates)
      /\ \A v, w \in Candidates :
           Joint(trees, v, w) <=> Connected(v, w, Candidates, Partners, best.threshold)
  BY <1>3, <1>4, TreesAreComponents
<1> HIDE DEF trees
<1>7. trees \subseteq SUBSET Addrs BY <1>6, CandidateTypes DEF IsPartition
<1>8. found' \in Seq(trees) /\ (\A i \in DOMAIN found' : found'[i] \in trees)
      /\ \A t \in trees : \E i \in DOMAIN found' : found'[i] = t
  BY <1>5 DEF Lists, ToSet
<1>9. found' \in Seq(SUBSET Addrs) BY <1>7, <1>8
<1>10. Apart' BY <1>5, <1>6, <1>8 DEF Apart, Lists, IsPartition
<1>11. ASSUME NEW v, NEW w
       PROVE  (\E i \in DOMAIN found' : {v, w} \subseteq found'[i]) <=> Joint(trees, v, w)
  BY <1>8 DEF Joint
<1> QED BY <1>6, <1>9, <1>10, <1>11

LEMMA FoundKeeps ==
  ASSUME GraphInv, FoundInv, [Next]_vars
  PROVE  FoundInv'
<1>1. CASE ClusterCandidates
  <2>1. pc' = "persist" BY <1>1 DEF ClusterCandidates
  <2> QED BY <1>1, <2>1, ClusteringWorks DEF FoundInv
<1>2. CASE PersistClusters \/ RoundFails
  <2>1. found' = <<>> BY <1>2 DEF PersistClusters, RoundFails
  <2>2. <<>> \in Seq(SUBSET Addrs) /\ DOMAIN <<>> = {} OBVIOUS
  <2>3. DOMAIN found' = {} BY <2>1, <2>2
  <2> QED BY <2>1, <2>2, <2>3 DEF FoundInv, Apart
<1>3. CASE \/ FetchOfac \/ UpsertOfac \/ UpsertEntities \/ LinkWallets \/ BuildGraph \/ ReadGold
           \/ DrawAndEvaluate \/ DrawRaises
  <2>1. pc # "persist" /\ UNCHANGED found
    BY <1>3 DEF FetchOfac, UpsertOfac, UpsertEntities, LinkWallets, BuildGraph, ReadGold,
                DrawAndEvaluate, DrawRaises, graph
  <2> QED BY <2>1 DEF FoundInv, Apart
<1>4. CASE NewTransfer \/ Expire \/ NewWallet \/ UNCHANGED vars
  <2>1. UNCHANGED <<pc, found>> BY <1>4 DEF NewTransfer, Expire, NewWallet, vars, graph
  <2> QED BY <2>1 DEF FoundInv, Apart
<1> QED BY <1>1, <1>2, <1>3, <1>4 DEF Next, RunPipeline

LEMMA ComponentsKeep ==
  ASSUME GraphInv, ClustersAreComponents, [Next]_vars
  PROVE  ClustersAreComponents'
<1>1. CASE ClusterCandidates
  <2>1. UNCHANGED <<rows, best>> BY <1>1 DEF ClusterCandidates
  <2>2. Candidates' = Candidates /\ Partners' = Partners BY <2>1 DEF Candidates, Partners
  <2> QED BY <1>1, <2>1, <2>2, ClusteringWorks DEF ClustersAreComponents
<1>2. CASE pc' = "persist" /\ ~ClusterCandidates
  <2>1. pc = "persist" /\ UNCHANGED <<rows, best, found>>
    BY <1>2 DEF Next, RunPipeline, FetchOfac, UpsertOfac, UpsertEntities, LinkWallets, BuildGraph,
                ReadGold, DrawAndEvaluate, DrawRaises, PersistClusters, RoundFails, NewTransfer,
                Expire, NewWallet, vars, graph
  <2>2. Candidates' = Candidates /\ Partners' = Partners BY <2>1 DEF Candidates, Partners
  <2> QED BY <2>1, <2>2 DEF ClustersAreComponents
<1>3. CASE pc' # "persist" BY <1>3 DEF ClustersAreComponents
<1> QED BY <1>1, <1>2, <1>3

\* Of disjoint clusters a wallet is in one, and that is the one it is given.
LEMMA WrittenKeeps ==
  ASSUME IInv, FoundInv, WrittenInv, [Next]_vars
  PROVE  WrittenInv'
<1>1. CASE PersistClusters /\ Kept # {}
  <2> DEFINE Of(a) == CHOOSE i \in Kept : a \in found[i]
             In(a) == a \in wallets /\ \E i \in Kept : a \in found[i]
  <2>1. /\ parts' = {found[i] \intersect wallets : i \in Kept}
        /\ clusterOf' = [a \in Addrs |-> IF In(a) THEN Of(a) ELSE clusterOf[a]]
    BY <1>1 DEF PersistClusters, IdOf
  <2>2. Kept \subseteq DOMAIN found /\ wallets \subseteq Addrs BY DEF Kept, IInv, Types
  <2>3. \A i \in Kept : found[i] \in SUBSET Addrs BY <2>2 DEF FoundInv
  <2>4. parts' \subseteq SUBSET Addrs BY <2>1, <2>3
  <2>5. ASSUME NEW i \in Kept, NEW a \in found[i] \intersect wallets
        PROVE  a \in Addrs /\ clusterOf'[a] = i
    <3>1. a \in Addrs /\ In(a) BY <2>2
    <3>2. Of(a) \in Kept /\ a \in found[Of(a)] OBVIOUS
    <3>3. clusterOf'[a] = Of(a) BY <2>1, <3>1
    <3> HIDE DEF Of
    <3>4. found[Of(a)] \intersect found[i] # {} BY <3>2
    <3>5. Of(a) = i BY <2>2, <3>2, <3>4 DEF FoundInv, Apart
    <3> QED BY <3>1, <3>3, <3>5
  <2> HIDE DEF Of, In
  <2>6. ASSUME NEW a \in UNION parts', NEW b \in UNION parts'
        PROVE  clusterOf'[a] = clusterOf'[b] <=> \E c \in parts' : {a, b} \subseteq c
    <3>1. PICK i \in Kept : a \in found[i] \intersect wallets BY <2>1
    <3>2. PICK j \in Kept : b \in found[j] \intersect wallets BY <2>1
    <3>3. clusterOf'[a] = i /\ clusterOf'[b] = j BY <2>5, <3>1, <3>2
    <3>4. ASSUME i = j PROVE \E c \in parts' : {a, b} \subseteq c
      BY <2>1, <3>1, <3>2, <3>4
    <3>5. ASSUME NEW c \in parts', {a, b} \subseteq c PROVE i = j
      <4>1. PICK k \in Kept : c = found[k] \intersect wallets BY <2>1, <3>5
      <4>2. clusterOf'[a] = k /\ clusterOf'[b] = k BY <2>5, <3>5, <4>1
      <4> QED BY <3>3, <4>2
    <3> QED BY <3>3, <3>4, <3>5
  <2>7. LatestRoundAgrees' BY <2>6 DEF LatestRoundAgrees
  <2> QED BY <2>4, <2>7 DEF WrittenInv
<1>2. CASE PersistClusters /\ Kept = {}
  <2>1. parts' = parts /\ clusterOf' = [a \in Addrs |-> clusterOf[a]]
    BY <1>2 DEF PersistClusters
  <2>2. clusterOf' = clusterOf BY <2>1 DEF IInv, Types
  <2> QED BY <2>1, <2>2 DEF WrittenInv, LatestRoundAgrees
<1>3. CASE ~PersistClusters
  <2>1. UNCHANGED <<parts, clusterOf>>
    BY <1>3 DEF Next, RunPipeline, FetchOfac, UpsertOfac, UpsertEntities, LinkWallets, BuildGraph,
                ReadGold, DrawAndEvaluate, DrawRaises, ClusterCandidates, RoundFails, NewTransfer,
                Expire, NewWallet, vars, tables, ghosts
  <2> QED BY <2>1 DEF WrittenInv, LatestRoundAgrees
<1> QED BY <1>1, <1>2, <1>3

LEMMA RoundStarts == Init => RoundInv
<1> SUFFICES ASSUME Init PROVE RoundInv OBVIOUS
<1>1. <<>> \in Seq(SUBSET Addrs) /\ DOMAIN <<>> = {} OBVIOUS
<1>2. WindowInv BY TransferEnds DEF Init, WindowInv
<1>3. SanctionsInv BY DEF Init, SanctionsInv, Phases
<1>4. TrialInv
  <2>1. Len(Thresholds) \in Nat /\ Fallback \in Nat BY EntityAssumption
  <2>2. best.threshold \in Nat BY <2>1 DEF Init, NoF1
  <2> QED BY <2>1, <2>2 DEF Init, TrialInv
<1>5. GraphInv BY FS_EmptySet DEF Init, GraphInv
<1>6. FoundInv BY <1>1 DEF Init, FoundInv, Apart
<1>7. ClustersAreComponents BY DEF Init, ClustersAreComponents
<1>8. WrittenInv BY DEF Init, WrittenInv, LatestRoundAgrees
<1> QED BY <1>2, <1>3, <1>4, <1>5, <1>6, <1>7, <1>8 DEF RoundInv

\* The second invariant is inductive, beside the first.
THEOREM RoundInductive == Spec => []RoundInv
<1>1. IInv /\ RoundInv /\ [Next]_vars => RoundInv'
  BY WindowKeeps, SanctionsKeep, TrialKeeps, GraphKeeps, FoundKeeps, ComponentsKeep, WrittenKeeps
     DEF RoundInv
<1> QED BY <1>1, RoundStarts, Inductive, PTL DEF Spec

-----------------------------------------------------------------------------
(* The results.                                                            *)

\* No wallet names a cluster or an entity without a row, for every list, graph
\* and gold set, whichever statement of a round fails.
THEOREM NamesTheorem == Spec => []NamesHaveRows
<1>1. IInv => NamesHaveRows BY RowedIsNames DEF IInv
<1> QED BY <1>1, Inductive, PTL

\* A wallet is labelled only if the sanctions list named its address once.
THEOREM LinkedTheorem == Spec => []LinkedWasListed
<1>1. IInv => LinkedWasListed BY DEF IInv
<1> QED BY <1>1, Inductive, PTL

\* The pipeline implements the tables its readers rely on: initial states are
\* initial states, and every step is a step of RiskTables or leaves them alone.
THEOREM ImplementsTables == Spec => TablesSpec
<1>1. Init => Tables!TablesInit BY EntityAssumption DEF Init, Tables!TablesInit
<1>2. IInv /\ [Next]_vars => [Tables!TablesNext]_(Tables!riskTables)
  BY NextKeeps DEF TablesStep
<1> QED BY <1>1, <1>2, Inductive, PTL DEF Spec, TablesSpec, Tables!TablesSpec

\* Types, and a column of the pipeline holds something only in its own phase.
THEOREM TypeCorrect == Spec => []TypeOK
<1>1. ASSUME IInv, RoundInv PROVE TypeOK
  <2>1. Types /\ WindowInv /\ SanctionsInv /\ TrialInv /\ FoundInv /\ WrittenInv
    BY <1>1 DEF IInv, RoundInv
  <2>2. /\ oldest \in Nat /\ newest \in 0..Len(Transfers) /\ oldest <= newest
        /\ tried \in 0..Len(Thresholds) /\ (tried > 0 => pc \in {"gold", "draw", "persist"})
        /\ pool \subseteq wallets /\ (pool # {} => pc = "draw") /\ best.threshold \in Nat
    BY <2>1 DEF WindowInv, TrialInv
  <2>3. /\ wallets \subseteq Addrs /\ clusters \subseteq Nat \ {0} /\ entities \subseteq Uids
        /\ clusterOf \in [Addrs -> Nat] /\ entityOf \in [Addrs -> Uids \union {NoEntity}]
        /\ sdn \in Seq(Entry)
    BY <2>1 DEF Types
  <2>4. /\ listed \in [Uids -> Addrs \union {0}] /\ everListed \subseteq Addrs
        /\ pc \in Phases /\ (sdn # <<>> <=> pc \in {"ofac", "entities", "link"})
        /\ found \in Seq(SUBSET Addrs) /\ (found # <<>> => pc = "persist")
        /\ parts \subseteq SUBSET Addrs
    BY <2>1 DEF SanctionsInv, FoundInv, WrittenInv
  <2> QED BY <2>2, <2>3, <2>4 DEF TypeOK
<1> QED BY <1>1, Inductive, RoundInductive, PTL

\* The clusters of a round are the connected components of similarity among its
\* candidates, for every graph, threshold and order of the database's answer.
THEOREM ComponentsTheorem == Spec => []ClustersAreComponents
<1>1. RoundInv => ClustersAreComponents BY DEF RoundInv
<1> QED BY <1>1, RoundInductive, PTL

\* Of the wallets the last written round clustered, two have the same id just
\* when they are in one cluster, however many rounds failed since.
THEOREM LatestRoundTheorem == Spec => []LatestRoundAgrees
<1>1. RoundInv => LatestRoundAgrees BY DEF RoundInv, WrittenInv
<1> QED BY <1>1, RoundInductive, PTL

\* The order in which a database answers numbers the clusters and decides
\* nothing else: what is clustered together is the same for every order.
THEOREM OrderDecidesNumbersOnly ==
  ASSUME NEW A, NEW first \in Seq(A), NEW second \in Seq(A), ToSet(first) = ToSet(second),
         NEW partners, FinitePartners(ToSet(first), partners), NEW threshold
  PROVE  Trees(first, partners, threshold) = Trees(second, partners, threshold)
<1> DEFINE ws == ToSet(first)
           C(v, w) == Connected(v, w, ws, partners, threshold)
           classes == {{w \in ws : C(v, w)} : v \in ws}
<1>1. ASSUME NEW order \in Seq(A), ToSet(order) = ws
      PROVE  Trees(order, partners, threshold) = classes
  <2> DEFINE trees == Trees(order, partners, threshold)
  <2>1. IsPartition(trees, ws) /\ \A v, w \in ws : Joint(trees, v, w) <=> C(v, w)
    BY <1>1, TreesAreComponents
  <2> HIDE DEF trees, C, ws
  <2>2. ASSUME NEW t \in trees, NEW v \in t PROVE v \in ws /\ t = {w \in ws : C(v, w)}
    <3>1. t \in SUBSET ws BY <2>1 DEF IsPartition
    <3>2. \A w \in t : C(v, w) BY <2>1, <3>1 DEF Joint
    <3>3. \A w \in ws : C(v, w) => w \in t BY <2>1, <3>1 DEF Joint, IsPartition
    <3> QED BY <3>1, <3>2, <3>3
  <2>3. \A t \in trees : t \in classes
    <3>1. ASSUME NEW t \in trees PROVE \E v : v \in t
      <4>1. t # {} BY <2>1 DEF IsPartition
      <4> QED BY <4>1
    <3> QED BY <2>2, <3>1
  <2>4. ASSUME NEW v \in ws PROVE {w \in ws : C(v, w)} \in trees
    <3>1. PICK t \in trees : v \in t BY <2>1 DEF IsPartition
    <3> QED BY <2>2, <3>1
  <2>5. \A c \in classes : c \in trees BY <2>4
  <2> QED BY <2>3, <2>5 DEF trees
<1> HIDE DEF classes
<1> QED BY <1>1
=============================================================================
