----------------------- MODULE MarketCuration_proofs -----------------------
(***************************************************************************)
(* Proofs about the curated basket, for every set of markets, every figure *)
(* Gamma may list and every limit.                                         *)
(***************************************************************************)
EXTENDS MarketCuration, Iteration, TLAPS

-----------------------------------------------------------------------------
(* The inductive invariant: types, and what a rebuild carries from one     *)
(* statement to the next.  BasketIsOneSelection alone is not inductive:    *)
(* Mark adds what is in chosen, and Reset makes the selection in hand the  *)
(* basket's.                                                               *)

Part(s) == /\ curated \subseteq Range(s)
           /\ cpc = "mark" => Range(chosen) \subseteq Range(s)

RebuildInv ==
  /\ cpc = "reset" => chosen \in Selections(read)
  /\ \E s \in Selections(basis) : Part(s)

IInv == TypeOK /\ RebuildInv

-----------------------------------------------------------------------------
(* Lemmas                                                                  *)

\* A selection is a sequence of the markets it selects from.
LEMMA SelectionIsSeq ==
  ASSUME NEW t, NEW s \in Selections(t)
  PROVE  s \in Seq(DOMAIN t) /\ Range(s) \subseteq DOMAIN t
<1>1. PICK n \in 0..Limit : s \in [1..n -> Candidates(t)]
  BY DEF Selections
<1>2. Candidates(t) \subseteq DOMAIN t
  BY DEF Candidates
<1>3. n \in Nat /\ s \in [1..n -> DOMAIN t]
  BY <1>1, <1>2, CurationAssumption DEF CurationAssumption
<1> QED
  BY <1>3 DEF Range

\* Without candidates the empty sequence is the selection.
LEMMA EmptySelection == <<>> \in Selections(NoRows)
<1>1. DOMAIN NoRows = {}
  BY DEF NoRows
<1>2. Candidates(NoRows) = {}
  BY <1>1 DEF Candidates
<1>3. /\ 0 \in 0..Limit
      /\ <<>> \in [1..0 -> Candidates(NoRows)]
  BY CurationAssumption DEF CurationAssumption
<1>4. DOMAIN << >> = {}
  OBVIOUS
<1> QED
  BY <1>2, <1>3, <1>4 DEF Selections

\* Taking the head off a sequence leaves its range in the old one, and the head
\* was in it.
LEMMA HeadAndTail ==
  ASSUME NEW S, NEW s \in Seq(S), s # <<>>
  PROVE  /\ Head(s) \in Range(s) /\ Tail(s) \in Seq(S)
         /\ Range(Tail(s)) \subseteq Range(s)
<1>1. Len(s) \in Nat \ {0} /\ DOMAIN s = 1..Len(s)
  OBVIOUS
<1>2. Head(s) = s[1] /\ 1 \in DOMAIN s
  BY <1>1
<1>3. Tail(s) \in Seq(S) /\ Len(Tail(s)) = Len(s) - 1
  BY <1>1
<1>4. ASSUME NEW i \in DOMAIN Tail(s)
      PROVE  Tail(s)[i] = s[i + 1] /\ i + 1 \in DOMAIN s
  BY <1>1, <1>3
<1> QED
  BY <1>2, <1>3, <1>4 DEF Range

\* What Gamma lists, restricted to some markets, is a table.
LEMMA FetchedIsTable ==
  ASSUME TypeOK, NEW S \in SUBSET Markets
  PROVE  [m \in S |-> gamma[m]] \in Tables
  BY DEF TypeOK, Tables

\* An upsert makes a table of two, and keeps every row.
LEMMA UpsertedIsTable ==
  ASSUME TypeOK
  PROVE  Upserted \in Tables /\ DOMAIN rows \subseteq DOMAIN Upserted
<1>1. PICK S \in SUBSET Markets : rows \in [S -> Listings]
  BY DEF TypeOK, Tables
<1>2. PICK F \in SUBSET Markets : fetched \in [F -> Listings]
  BY DEF TypeOK, Tables
<1>3. Upserted \in [S \union F -> Listings]
  BY <1>1, <1>2 DEF Upserted
<1>4. S \union F \in SUBSET Markets
  OBVIOUS
<1> QED
  BY <1>1, <1>3, <1>4 DEF Tables

LEMMA NoRowsIsTable == NoRows \in Tables
<1>1. NoRows \in [{} -> Listings]
  BY DEF NoRows
<1> QED
  BY <1>1 DEF Tables

\* Sequences over the rows stay sequences over the rows when rows are added.
LEMMA SeqGrows ==
  ASSUME NEW S, NEW T, S \subseteq T, NEW s \in Seq(S)
  PROVE  s \in Seq(T)
  OBVIOUS

-----------------------------------------------------------------------------
(* Types                                                                   *)

LEMMA InitType == Init => TypeOK
<1> SUFFICES ASSUME Init PROVE TypeOK
  OBVIOUS
<1>1. gamma \in [Markets -> Listings]
  BY DEF Init
<1>2. DOMAIN NoRows = {} /\ << >> \in Seq({})
  BY DEF NoRows
<1> QED
  BY <1>1, <1>2, NoRowsIsTable DEF Init, TypeOK

LEMMA TypeStep == TypeOK /\ [Next]_vars => TypeOK'
<1> SUFFICES ASSUME TypeOK, [Next]_vars PROVE TypeOK'
  OBVIOUS
<1> USE DEF TypeOK, sync, cure, socket
<1>1. ASSUME NEW m \in Markets, Change(m) PROVE TypeOK'
  BY <1>1 DEF Change
<1>2. CASE Fetch
  <2>1. fetched' \in Tables
    BY <1>2, FetchedIsTable DEF Fetch, Open
  <2>2. gpc' \in {"fetch", "upsert"} /\ up' \in BOOLEAN
    BY <1>2 DEF Fetch
  <2>3. faults' \in Nat
    BY <1>2 DEF Fetch, Fault
  <2>4. UNCHANGED <<gamma, rows, curated, file, cpc, read, chosen, target, subscribed,
                    basis, changes, restarts>>
    BY <1>2 DEF Fetch
  <2> QED
    BY <2>1, <2>2, <2>3, <2>4
<1>3. CASE Upsert
  <2>1. rows' \in Tables /\ DOMAIN rows \subseteq DOMAIN rows'
    BY <1>3, UpsertedIsTable DEF Upsert
  <2>2. chosen' \in Seq(DOMAIN rows')
    BY <1>3, <2>1, SeqGrows DEF Upsert
  <2> QED
    BY <1>3, <2>1, <2>2, NoRowsIsTable DEF Upsert
<1>4. CASE UpsertFails
  <2>1. rows' \in Tables /\ DOMAIN rows \subseteq DOMAIN rows'
    BY <1>4, UpsertedIsTable DEF UpsertFails
  <2>2. chosen' \in Seq(DOMAIN rows')
    BY <1>4, <2>1, SeqGrows DEF UpsertFails
  <2> QED
    BY <1>4, <2>1, <2>2, NoRowsIsTable DEF UpsertFails, Fault
<1>5. CASE Select
  <2>1. chosen' \in Seq(DOMAIN rows) /\ file' \subseteq DOMAIN rows
    BY <1>5, SelectionIsSeq DEF Select
  <2>2. DOMAIN rows \subseteq Markets
    BY DEF Tables
  <2> QED
    BY <1>5, <2>1, <2>2 DEF Select
<1>6. CASE Reset
  BY <1>6, NoRowsIsTable DEF Reset
<1>7. CASE Mark
  <2>1. Head(chosen) \in DOMAIN rows /\ chosen' \in Seq(DOMAIN rows)
    BY <1>7, HeadAndTail DEF Mark
  <2> QED
    BY <1>7, <2>1 DEF Mark
<1>8. CASE CurationFails
  <2>1. file' \subseteq Markets
    BY <1>8, SelectionIsSeq DEF CurationFails, Tables
  <2>2. curated' \subseteq DOMAIN rows /\ basis' \in Tables
    BY <1>8, HeadAndTail DEF CurationFails
  <2>3. << >> \in Seq(DOMAIN rows)
    OBVIOUS
  <2> QED
    BY <1>8, <2>1, <2>2, <2>3, NoRowsIsTable DEF CurationFails, Fault
<1>9. CASE RefreshTarget
  BY <1>9 DEF RefreshTarget, Tables
<1>10. CASE Connect
  BY <1>10 DEF Connect
<1>11. CASE Disconnect
  BY <1>11 DEF Disconnect
<1>12. CASE GateThin
  BY <1>12 DEF GateThin
<1>13. CASE Restart
  <2>1. chosen' \in Seq(DOMAIN rows') /\ cpc' = "select"
    BY <1>13 DEF Restart
  <2>2. fetched' \in Tables /\ read' \in Tables
    BY <1>13, NoRowsIsTable DEF Restart
  <2>3. restarts' \in Nat /\ target' \subseteq Markets /\ subscribed' \subseteq Markets
    BY <1>13 DEF Restart
  <2>4. up' \in BOOLEAN /\ gpc' = "fetch"
    BY <1>13 DEF Restart
  <2>5. UNCHANGED <<gamma, rows, curated, file, basis, changes, faults>>
    BY <1>13 DEF Restart
  <2> QED
    BY <2>1, <2>2, <2>3, <2>4, <2>5
<1>14. CASE UNCHANGED vars
  BY <1>14 DEF vars
<1> QED
  BY <1>1, <1>2, <1>3, <1>4, <1>5, <1>6, <1>7, <1>8, <1>9, <1>10, <1>11, <1>12,
     <1>13, <1>14 DEF Next, Sync, Curate

\* The type invariant holds whatever Gamma lists, fails or forgets, and however
\* often the collector dies (lines 403-523).
THEOREM TypeCorrect == Spec => []TypeOK
<1>1. Init => TypeOK
  BY InitType
<1>2. TypeOK /\ [Next]_vars => TypeOK'
  BY TypeStep
<1> QED
  BY <1>1, <1>2, PTL DEF Spec

-----------------------------------------------------------------------------
(* The basket                                                              *)

LEMMA InitRebuild == Init => RebuildInv
<1> SUFFICES ASSUME Init PROVE RebuildInv
  OBVIOUS
<1>1. << >> \in Selections(basis)
  BY EmptySelection DEF Init
<1>2. Part(<< >>)
  BY DEF Init, Part
<1> QED
  BY <1>1, <1>2 DEF Init, RebuildInv

\* A step that takes markets out of the basket at most, and neither starts nor
\* continues a rebuild, keeps the invariant.
LEMMA Shrinks ==
  ASSUME RebuildInv, curated' \subseteq curated, basis' = basis,
         \/ cpc' = "select"
         \/ cpc' = cpc /\ chosen' = chosen /\ read' = read
  PROVE  RebuildInv'
<1>1. PICK s \in Selections(basis) : Part(s)
  BY DEF RebuildInv
<1>2. s \in Selections(basis') /\ Part(s)'
  BY <1>1 DEF Part
<1>3. cpc' = "reset" => chosen' \in Selections(read')
  BY DEF RebuildInv
<1> QED
  BY <1>2, <1>3 DEF RebuildInv

\* An emptied basket is part of the selection it was emptied for.
LEMMA Resets ==
  ASSUME RebuildInv, cpc = "reset", curated' = {}, basis' = read,
         cpc' \in {"select", "mark"}, chosen' = chosen \/ cpc' = "select"
  PROVE  RebuildInv'
<1>1. chosen \in Selections(basis')
  BY DEF RebuildInv
<1>2. Part(chosen)'
  BY DEF Part
<1>3. PICK s \in Selections(basis') : s = chosen
  BY <1>1
<1>4. curated' \subseteq Range(s) /\ (cpc' = "mark" => Range(chosen') \subseteq Range(s))
  BY <1>3
<1> QED
  BY <1>3, <1>4 DEF RebuildInv, Part

\* Marking the next market of the selection in hand.
LEMMA Marks ==
  ASSUME TypeOK, RebuildInv, cpc = "mark", basis' = basis,
         curated' \subseteq curated \union {Head(chosen)},
         cpc' \in {"select", "mark"}, cpc' = "mark" => chosen' = Tail(chosen)
  PROVE  RebuildInv'
<1>1. PICK s \in Selections(basis) : Part(s)
  BY DEF RebuildInv
<1>2. Head(chosen) \in Range(chosen) /\ Range(Tail(chosen)) \subseteq Range(chosen)
  BY HeadAndTail DEF TypeOK
<1>3. s \in Selections(basis') /\ Part(s)'
  BY <1>1, <1>2 DEF Part
<1> QED
  BY <1>3 DEF RebuildInv

LEMMA RebuildStep == TypeOK /\ RebuildInv /\ [Next]_vars => RebuildInv'
<1> SUFFICES ASSUME TypeOK, RebuildInv, [Next]_vars PROVE RebuildInv'
  OBVIOUS
<1> USE DEF sync, cure, socket
<1>1. ASSUME NEW m \in Markets, Change(m) PROVE RebuildInv'
  BY <1>1, Shrinks DEF Change
<1>2. CASE Fetch
  BY <1>2, Shrinks DEF Fetch
<1>3. CASE Upsert
  BY <1>3, Shrinks DEF Upsert
<1>4. CASE UpsertFails
  BY <1>4, Shrinks DEF UpsertFails
<1>5. CASE Select
  <2>1. chosen' \in Selections(read') /\ cpc' = "reset"
    BY <1>5 DEF Select
  <2>2. PICK s \in Selections(basis) : Part(s)
    BY DEF RebuildInv
  <2>3. s \in Selections(basis') /\ Part(s)'
    BY <1>5, <2>1, <2>2 DEF Select, Part
  <2> QED
    BY <2>1, <2>3 DEF RebuildInv
<1>6. CASE Reset
  <2>1. cpc' \in {"select", "mark"} /\ chosen' = chosen
    BY <1>6 DEF Reset
  <2> QED
    BY <1>6, <2>1, Resets DEF Reset
<1>7. CASE Mark
  <2>1. cpc' \in {"select", "mark"} /\ chosen' = Tail(chosen)
    BY <1>7 DEF Mark
  <2> QED
    BY <1>7, <2>1, Marks DEF Mark
<1>8. CASE CurationFails
  <2>1. cpc' = "select"
    BY <1>8 DEF CurationFails
  <2>2. CASE curated' = curated /\ basis' = basis
    BY <2>1, <2>2, Shrinks
  <2>3. CASE cpc = "reset" /\ curated' = {} /\ basis' = read
    BY <2>1, <2>3, Resets
  <2>4. CASE cpc = "mark" /\ curated' = curated \union {Head(chosen)} /\ basis' = basis
    BY <2>1, <2>4, Marks
  <2> QED
    BY <1>8, <2>2, <2>3, <2>4 DEF CurationFails
<1>9. CASE RefreshTarget
  BY <1>9, Shrinks DEF RefreshTarget
<1>10. CASE Connect
  BY <1>10, Shrinks DEF Connect
<1>11. CASE Disconnect
  BY <1>11, Shrinks DEF Disconnect
<1>12. CASE GateThin
  <2>1. curated' \subseteq curated
    BY <1>12 DEF GateThin
  <2> QED
    BY <1>12, <2>1, Shrinks DEF GateThin
<1>13. CASE Restart
  BY <1>13, Shrinks DEF Restart
<1>14. CASE UNCHANGED vars
  BY <1>14, Shrinks DEF vars
<1> QED
  BY <1>1, <1>2, <1>3, <1>4, <1>5, <1>6, <1>7, <1>8, <1>9, <1>10, <1>11, <1>12,
     <1>13, <1>14 DEF Next, Sync, Curate

\* The basket is always part of one selection made of one read of the table
\* (curation_loop, lines 407-421), for every table, limit and fault.
THEOREM BasketTheorem == Spec => []BasketIsOneSelection
<1>1. Init => IInv
  BY InitType, InitRebuild DEF IInv
<1>2. IInv /\ [Next]_vars => IInv'
  BY TypeStep, RebuildStep DEF IInv
<1>3. IInv => BasketIsOneSelection
  BY DEF IInv, RebuildInv, Part, BasketIsOneSelection
<1> QED
  BY <1>1, <1>2, <1>3, PTL DEF Spec

\* Gamma syncs write the rows the basket is a column of, and never change the
\* basket (upsert_markets); nothing else writes those rows' other columns.
THEOREM SyncTheorem == Spec => SyncKeepsBasket
<1>1. [Next]_vars => [rows' # rows => curated' = curated]_vars
  <2> SUFFICES ASSUME Next, rows' # rows PROVE curated' = curated
    BY DEF vars
  <2>1. CASE Upsert
    BY <2>1 DEF Upsert
  <2>2. CASE UpsertFails
    BY <2>2 DEF UpsertFails
  <2>3. CASE Fetch
    BY <2>3 DEF Fetch
  <2>4. CASE Curate
    BY <2>4 DEF Curate, Select, Reset, Mark, CurationFails
  <2>5. CASE RefreshTarget \/ Connect \/ Disconnect \/ GateThin \/ Restart
    BY <2>5 DEF RefreshTarget, Connect, Disconnect, GateThin, Restart
  <2>6. ASSUME NEW m \in Markets, Change(m) PROVE curated' = curated
    BY <2>6 DEF Change
  <2> QED
    BY <2>1, <2>2, <2>3, <2>4, <2>5, <2>6 DEF Next, Sync
<1> QED
  BY <1>1, PTL DEF Spec, SyncKeepsBasket

-----------------------------------------------------------------------------
(* The selection.                                                          *)

Sorted(t, s) == \A i, j \in DOMAIN s : i < j => s[i] # s[j] /\ ~Above(t[s[j]], t[s[i]])

\* What s leaves out is not above what it has.
Tops(t, s) ==
  \A m \in Candidates(t) \ Range(s) : \A i \in DOMAIN s : ~Above(t[m], t[s[i]])

LEMMA AboveIsOrder ==
  ASSUME NEW k \in Listings, NEW l \in Listings, NEW m \in Listings
  PROVE  ~Above(k, k) /\ (Above(k, l) /\ Above(l, m) => Above(k, m))
<1>1. \A x \in Listings : OrZero(x.liq) \in Nat /\ OrZero(x.vol24) \in Nat
  BY CurationAssumption DEF Listings, OrZero, Null
<1>2. PICK a \in Nat, b \in Nat : a = OrZero(k.liq) /\ b = OrZero(k.vol24) BY <1>1
<1>3. PICK c \in Nat, d \in Nat : c = OrZero(l.liq) /\ d = OrZero(l.vol24) BY <1>1
<1>4. PICK e \in Nat, f \in Nat : e = OrZero(m.liq) /\ f = OrZero(m.vol24) BY <1>1
<1> QED BY <1>2, <1>3, <1>4 DEF Above

\* Of finitely many markets one has no other above it: the one with the fewest.
LEMMA BestExists ==
  ASSUME NEW t \in Tables, NEW S \in SUBSET DOMAIN t, IsFiniteSet(S), S # {}
  PROVE  \E m \in S : \A x \in S : ~Above(t[x], t[m])
<1> DEFINE Better(m) == {x \in S : Above(t[x], t[m])}
           Counts == {Cardinality(Better(m)) : m \in S}
<1>1. ASSUME NEW m
      PROVE  IsFiniteSet(Better(m)) /\ Cardinality(Better(m)) \in Nat
  <2>1. Better(m) \in SUBSET S OBVIOUS
  <2> HIDE DEF Better
  <2> QED BY <2>1, FS_Subset, FS_CardinalityType
<1>2. Counts \in SUBSET Nat /\ Counts # {} BY <1>1
<1>3. PICK m \in S : \A x \in S : Cardinality(Better(m)) <= Cardinality(Better(x))
  <2> HIDE DEF Better
  <2>1. PICK c \in Counts : \A d \in Counts : c <= d
    <3> HIDE DEF Counts
    <3> QED BY <1>2, Least
  <2> QED BY <2>1
<1>4. \A x \in S : t[x] \in Listings BY DEF Tables
<1>5. ASSUME NEW x \in S, Above(t[x], t[m]) PROVE FALSE
  <2>1. x \in Better(m) /\ x \notin Better(x) BY <1>4, <1>5, AboveIsOrder
  <2>2. Better(x) \in SUBSET Better(m) BY <1>4, <1>5, AboveIsOrder
  <2>3. PICK c \in Nat, d \in Nat : c = Cardinality(Better(m)) /\ d = Cardinality(Better(x)) BY <1>1
  <2>4. c <= d BY <1>3, <2>3
  <2> HIDE DEF Better
  <2>5. d <= c /\ d # c BY <1>1, <2>1, <2>2, <2>3, FS_Subset
  <2> QED BY <2>4, <2>5
<1> QED BY <1>5

\* A sequence without a repetition that has fewer markets than there are
\* candidates leaves one out, one with as many has them all.
LEMMA SortedCounts ==
  ASSUME NEW t, IsFiniteSet(Candidates(t)), NEW n \in Nat, NEW s \in [1..n -> Candidates(t)],
         Sorted(t, s)
  PROVE  /\ n <= Cardinality(Candidates(t))
         /\ n < Cardinality(Candidates(t)) <=> Candidates(t) \ Range(s) # {}
<1> DEFINE C == Candidates(t)
           T == 1..n
<1>1. DOMAIN s = T OBVIOUS
<1>2. PICK c \in Nat : c = Cardinality(C) BY FS_CardinalityType
<1>3. IsFiniteSet(T) /\ Cardinality(T) = n
  <2>1. IsFiniteSet(1..n) BY FS_Interval
  <2>2. ExistsBijection(1..n, 1..n)
    <3> DEFINE id == [i \in 1..n |-> i]
    <3>1. id \in [1..n -> 1..n] /\ (\A i, j \in 1..n : id[i] = id[j] => i = j)
          /\ \A j \in 1..n : \E i \in 1..n : id[i] = j
      OBVIOUS
    <3> HIDE DEF id
    <3> QED BY <3>1 DEF ExistsBijection, Bijection, Injection, IsInjective, Surjection
  <2> QED BY <2>1, <2>2, FS_CountingElements
<1>4. \A i, j \in T : s[i] = s[j] => i = j
  <2> SUFFICES ASSUME NEW i \in T, NEW j \in T, s[i] = s[j] PROVE i = j OBVIOUS
  <2>1. ~(i < j) /\ ~(j < i) BY <1>1 DEF Sorted
  <2> QED BY <2>1
<1>5. s \in Injection(T, C) BY <1>4 DEF Injection, IsInjective
<1> HIDE DEF C, T
<1>6. n <= c /\ (n = c <=> s \in Surjection(T, C))
  <2>1. IsFiniteSet(C) BY DEF C
  <2> QED BY <1>2, <1>3, <1>5, <2>1, FS_Injection
<1>7. s \in Surjection(T, C) <=> C \ Range(s) = {}
  BY <1>1, <1>5 DEF Surjection, Injection, Range
<1> QED BY <1>2, <1>6, <1>7 DEF C

\* select_curated_markets always has an answer, however many rows have equal
\* figures, and it is as long as the limit and the candidates allow.
THEOREM SelectionTheorem ==
  ASSUME NEW t \in Tables, IsFiniteSet(DOMAIN t)
  PROVE  /\ Selections(t) # {}
         /\ \A s \in Selections(t) :
              Len(s) = IF Cardinality(Candidates(t)) < Limit THEN Cardinality(Candidates(t)) ELSE Limit
<1> DEFINE C == Candidates(t)
<1>1. C \in SUBSET DOMAIN t BY DEF Candidates
<1>2. IsFiniteSet(C) BY <1>1, FS_Subset
<1>3. PICK c \in Nat : c = Cardinality(C) BY <1>2, FS_CardinalityType
<1>4. Limit \in Nat BY CurationAssumption
<1> HIDE DEF C
<1>5. PICK size \in Nat : size = IF c < Limit THEN c ELSE Limit BY <1>4
<1> DEFINE Good(k, s) == s \in [1..k -> C] /\ Sorted(t, s) /\ Tops(t, s)
           S == {k \in 0..size : \E s : Good(k, s)}
<1>6. 0 \in S
  <2>1. <<>> \in [1..0 -> C] /\ DOMAIN <<>> = {} OBVIOUS
  <2>2. Good(0, <<>>) BY <2>1 DEF Sorted, Tops
  <2> HIDE DEF Good
  <2> QED BY <1>5, <2>2
<1>7. ASSUME NEW k \in 1..size, k - 1 \in S PROVE k \in S
  <2>1. PICK s : Good(k - 1, s) BY <1>7
  <2>2. k - 1 \in Nat /\ k - 1 < c BY <1>4, <1>5
  <2>3. C \ Range(s) # {} BY <1>2, <1>3, <2>1, <2>2, SortedCounts DEF C
  <2>4. C \ Range(s) \in SUBSET DOMAIN t /\ IsFiniteSet(C \ Range(s)) BY <1>1, <1>2, FS_Subset
  <2>5. PICK m \in C \ Range(s) : \A x \in C \ Range(s) : ~Above(t[x], t[m])
    BY <2>3, <2>4, BestExists
  <2> DEFINE r == [i \in 1..k |-> IF i = k THEN m ELSE s[i]]
  <2>6. /\ DOMAIN r = 1..k /\ DOMAIN s = 1..(k - 1) /\ r[k] = m
        /\ \A i \in 1..k : i = k \/ (i \in 1..(k - 1) /\ r[i] = s[i])
        /\ \A i \in 1..(k - 1) : i \in 1..k /\ r[i] = s[i] /\ s[i] \in C
    BY <2>1
  <2>7. r \in [1..k -> C]
    <3>1. \A i \in 1..k : r[i] \in C BY <2>6
    <3> QED BY <3>1
  <2> HIDE DEF r
  <2>8. Range(r) = Range(s) \union {m}
    <3>1. \A i \in 1..k : r[i] \in Range(s) \union {m} BY <2>6 DEF Range
    <3>2. m \in Range(r) BY <2>6 DEF Range
    <3>3. \A x \in Range(s) : x \in Range(r) BY <2>6 DEF Range
    <3>4. \A x \in Range(r) : x \in Range(s) \union {m} BY <2>6, <3>1 DEF Range
    <3> QED BY <3>2, <3>3, <3>4
  <2>9. Sorted(t, r)
    <3> SUFFICES ASSUME NEW i \in 1..k, NEW j \in 1..k, i < j
                 PROVE  r[i] # r[j] /\ ~Above(t[r[j]], t[r[i]])
      BY <2>6 DEF Sorted
    <3>1. i \in 1..(k - 1) /\ r[i] = s[i] /\ s[i] \in Range(s) BY <2>6 DEF Range
    <3>2. CASE j = k BY <2>1, <2>5, <2>6, <3>1, <3>2 DEF Tops, C
    <3>3. CASE j # k BY <2>1, <2>6, <3>1, <3>3 DEF Sorted
    <3> QED BY <3>2, <3>3
  <2>10. Tops(t, r)
    <3> SUFFICES ASSUME NEW x \in C \ Range(r), NEW i \in 1..k PROVE ~Above(t[x], t[r[i]])
      BY <2>6 DEF Tops, C
    <3>1. x \in C \ Range(s) BY <2>8
    <3>2. CASE i = k BY <2>5, <2>6, <3>1, <3>2
    <3>3. CASE i # k BY <2>1, <2>6, <3>1, <3>3 DEF Tops, C
    <3> QED BY <3>2, <3>3
  <2>11. Good(k, r) BY <2>7, <2>9, <2>10
  <2> HIDE DEF Good
  <2>12. k \in 0..size OBVIOUS
  <2> QED BY <2>11, <2>12
<1> HIDE DEF S
<1>8. PICK s : Good(size, s)
  <2>1. \A k \in 0..size : k \in S BY <1>6, <1>7, Ladder
  <2>2. size \in 0..size BY <1>5
  <2> QED BY <2>1, <2>2 DEF S
<1>9. s \in Selections(t)
  <2>1. DOMAIN s = 1..size /\ size \in 0..Limit /\ Len(s) = size BY <1>4, <1>5, <1>8
  <2>2. C \ Range(s) # {} => size = Limit
    <3>1. size < c <=> C \ Range(s) # {} BY <1>2, <1>3, <1>8, SortedCounts DEF C
    <3> QED BY <1>4, <1>5, <3>1
  <2>3. s \in UNION {[1..n -> C] : n \in 0..Limit} BY <1>8, <2>1
  <2>4. \A i, j \in DOMAIN s : i < j => s[i] # s[j] /\ ~Above(t[s[j]], t[s[i]])
    BY <1>8 DEF Sorted
  <2>5. \A m \in C \ Range(s) : Len(s) = Limit /\ \A i \in DOMAIN s : ~Above(t[m], t[s[i]])
    BY <1>8, <2>1, <2>2 DEF Tops, C
  <2> QED BY <2>3, <2>4, <2>5 DEF Selections, C
<1>10. ASSUME NEW r \in Selections(t) PROVE Len(r) = size
  <2>1. PICK n \in 0..Limit : r \in [1..n -> C] BY DEF Selections, C
  <2>2. n \in Nat /\ n <= Limit /\ Len(r) = n BY <1>4, <2>1
  <2>3. Sorted(t, r) BY DEF Selections, Sorted
  <2>4. n <= c /\ (n < c <=> C \ Range(r) # {}) BY <1>2, <1>3, <2>1, <2>2, <2>3, SortedCounts DEF C
  <2>5. C \ Range(r) # {} => n = Limit BY <2>2 DEF Selections, C
  <2> QED BY <1>4, <1>5, <2>2, <2>4, <2>5
<1> QED BY <1>3, <1>5, <1>9, <1>10 DEF C
============================================================================
