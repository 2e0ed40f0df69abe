--------------------------- MODULE RollingSeries ---------------------------
(***************************************************************************)
(* The RollingSeries of the risk engine, one key of it, and how two of     *)
(* them are compared.  A point is its timestamp: which points are kept and *)
(* counted depends on nothing else.                                        *)
(***************************************************************************)
EXTENDS Integers, Sequences, FiniteSets, SequencesExt

CONSTANTS
  Window, Bucket,  \* in units of time
  MinSeries,       \* MIN_BUCKETS, the shortest series that is compared
  MaxSeries,       \* buckets a series is read for
  MaxLag,          \* LEAD_LAG_BUCKETS
  MinOverlap       \* points two shifted series must share

ASSUME SeriesAssumption ==
  /\ Window \in Nat /\ Bucket \in Nat \ {0}
  /\ MinSeries \in Nat /\ MaxSeries \in Nat /\ MaxLag \in Nat /\ MinOverlap \in Nat
  /\ MinSeries <= MaxSeries /\ MinSeries >= MaxLag + MinOverlap

Fresh(points, cutoff) == {i \in DOMAIN points : points[i] >= cutoff}
From(points, S) ==
  IF S = {} THEN <<>> ELSE SubSeq(points, CHOOSE i \in S : \A j \in S : i <= j, Len(points))

\* Mutant: drops the point at the cutoff too.
PruneEqual(points, cutoff) == From(points, Fresh(points, cutoff + 1))

\* Mutant: if for while.
PruneOne(points, cutoff) ==
  IF points # <<>> /\ points[1] < cutoff THEN Tail(points) ELSE points

\* _prune: from the left, for as long as the first point is old
Prune(points, cutoff) == From(points, Fresh(points, cutoff))

\* add: the time of the new point decides what is old
Add(points, ts) == Append(Prune(points, ts - Window), ts)

Smaller(m, n) == IF m < n THEN m ELSE n

\* rolling_buckets: how many buckets a series is read as
Buckets(points)   == {points[i] \div Bucket : i \in DOMAIN points}
SeriesLen(points) == Smaller(Cardinality(Buckets(points)), MaxSeries)

\* Mutant: cuts the flow only.
TrimFlow(m, f) == [market |-> m, flow |-> Smaller(m, f)]

\* Both series are cut to the shorter one, from the left; the cut of the
\* market's stays for the clusters that come later.
Trim(m, f) == IF m # f THEN [market |-> Smaller(m, f), flow |-> Smaller(m, f)]
                       ELSE [market |-> m, flow |-> f]

\* one cluster of the loop: a short flow is skipped, a longer one is compared
\* with the market's series as the comparisons before left it
Compare(m, done, f) ==
  IF f < MinSeries THEN done
  ELSE Append(done, Trim(IF done = <<>> THEN m ELSE Last(done).market, f))

\* the comparisons of evaluate, for flow lengths in the order of the loop
Comparisons(m, flows) ==
  LET after[k \in 0..Len(flows)] ==
        IF k = 0 THEN <<>> ELSE Compare(m, after[k - 1], flows[k])
  IN  after[Len(flows)]

\* lead_lag_confidence: the shifts it correlates
LagsTried(pair) ==
  IF pair.market # pair.flow \/ pair.market < MinOverlap THEN {}
  ELSE {lag \in -MaxLag..MaxLag : pair.market - (IF lag < 0 THEN -lag ELSE lag) >= MinOverlap}
=============================================================================
