--------------------------- MODULE TickFeed_proofs ---------------------------
(***************************************************************************)
(* Proofs about the hot path, for every window, feed and number of deaths. *)
(***************************************************************************)
EXTENDS TickFeed, Iteration, TLAPS

-----------------------------------------------------------------------------
(* The pruning of a series.                                                *)

\* What is left of a series: nothing when all is old, else all from the first
\* point that is not.
LEMMA PruneShape ==
  ASSUME NEW points \in Seq(Nat), NEW cutoff \in Int
  PROVE  \/ Prune(points, cutoff) = <<>> /\ \A i \in DOMAIN points : points[i] < cutoff
         \/ \E k \in DOMAIN points :
              /\ Prune(points, cutoff) = SubSeq(points, k, Len(points))
              /\ points[k] >= cutoff
              /\ \A i \in DOMAIN points : i < k => points[i] < cutoff
<1> DEFINE F == Fresh(points, cutoff)
<1>1. F \in SUBSET Nat /\ F \subseteq DOMAIN points /\ \A i \in DOMAIN points : points[i] \in Nat
  BY DEF Fresh
<1>2. CASE F = {}
  BY <1>1, <1>2 DEF Prune, From, Fresh
<1>3. CASE F # {}
  <2> DEFINE k == CHOOSE i \in F : \A j \in F : i <= j
  <2>1. k \in F /\ \A j \in F : k <= j
    <3>1. \E i \in F : \A j \in F : i <= j BY <1>1, <1>3, Least
    <3> QED BY <3>1
  <2>2. Prune(points, cutoff) = SubSeq(points, k, Len(points))
    BY <1>3 DEF Prune, From
  <2> HIDE DEF k
  <2>3. k \in DOMAIN points /\ points[k] >= cutoff BY <2>1 DEF Fresh
  <2>4. \A i \in DOMAIN points : i < k => points[i] < cutoff
    BY <1>1, <2>1, <2>3 DEF Fresh
  <2> QED BY <2>2, <2>3, <2>4
<1> QED BY <1>2, <1>3

\* Nothing within the window is dropped; the first point left is within it;
\* a series that starts within it is left alone.
LEMMA PruneKeeps ==
  ASSUME NEW points \in Seq(Nat), NEW cutoff \in Int
  PROVE  /\ Prune(points, cutoff) \in Seq(Nat)
         /\ ToSet(Prune(points, cutoff)) \subseteq ToSet(points)
         /\ \A ts \in ToSet(points) : ts >= cutoff => ts \in ToSet(Prune(points, cutoff))
         /\ Prune(points, cutoff) # <<>> => Prune(points, cutoff)[1] >= cutoff
         /\ points # <<>> /\ points[1] >= cutoff => Prune(points, cutoff) = points
<1>1. CASE Prune(points, cutoff) = <<>> /\ \A i \in DOMAIN points : points[i] < cutoff
  BY <1>1 DEF ToSet
<1>2. ASSUME NEW k \in DOMAIN points,
             Prune(points, cutoff) = SubSeq(points, k, Len(points)),
             points[k] >= cutoff,
             \A i \in DOMAIN points : i < k => points[i] < cutoff
      PROVE  /\ Prune(points, cutoff) \in Seq(Nat)
             /\ ToSet(Prune(points, cutoff)) \subseteq ToSet(points)
             /\ \A ts \in ToSet(points) : ts >= cutoff => ts \in ToSet(Prune(points, cutoff))
             /\ Prune(points, cutoff) # <<>> => Prune(points, cutoff)[1] >= cutoff
             /\ points # <<>> /\ points[1] >= cutoff => Prune(points, cutoff) = points
  <2> DEFINE P == SubSeq(points, k, Len(points))
  <2>1. /\ Len(P) = Len(points) - k + 1 /\ P \in Seq(Nat) /\ DOMAIN P = 1..Len(P)
        /\ \A i \in 1..Len(P) : P[i] = points[k + i - 1]
        /\ k \in 1..Len(points) /\ DOMAIN points = 1..Len(points)
    OBVIOUS
  <2> HIDE DEF P
  <2>2. Prune(points, cutoff) = P BY <1>2 DEF P
  <2>0. \A i \in DOMAIN points : points[i] \in Nat OBVIOUS
  <2>3. ToSet(P) \subseteq ToSet(points)
    <3>1. \A i \in 1..Len(P) : k + i - 1 \in DOMAIN points BY <2>1
    <3>2. \A i \in DOMAIN P : P[i] = points[k + i - 1] /\ k + i - 1 \in DOMAIN points
      BY <2>1, <3>1
    <3> QED BY <3>2 DEF ToSet
  <2>4. ASSUME NEW i \in DOMAIN points, points[i] >= cutoff PROVE points[i] \in ToSet(P)
    <3>1. points[i] \in Nat /\ (i < k => points[i] < cutoff) BY <1>2, <2>0
    <3>2. ~(i < k) BY <2>4, <3>1
    <3>3. i - k + 1 \in 1..Len(P) BY <2>1, <3>2
    <3>4. P[i - k + 1] = points[i]
      <4>1. P[i - k + 1] = points[k + (i - k + 1) - 1] BY <2>1, <3>3
      <4>2. k + (i - k + 1) - 1 = i BY <2>1
      <4> QED BY <4>1, <4>2
    <3> QED BY <2>1, <3>3, <3>4 DEF ToSet
  <2>5. P[1] >= cutoff
    <3>1. 1 \in 1..Len(P) /\ k + 1 - 1 = k BY <2>1
    <3>2. P[1] = points[k] BY <2>1, <3>1
    <3> QED BY <1>2, <3>2
  <2>6. ASSUME points # <<>>, points[1] >= cutoff PROVE P = points
    <3>1. 1 \in DOMAIN points BY <2>1
    <3>2. points[1] \in Nat /\ (1 < k => points[1] < cutoff) BY <1>2, <2>0, <3>1
    <3>3. ~(1 < k) BY <2>6, <3>2
    <3>4. k = 1 BY <2>1, <3>3
    <3> QED BY <3>4 DEF P
  <2>7. P \in Seq(Nat) BY <2>1
  <2>8. \A ts \in ToSet(points) : ts >= cutoff => ts \in ToSet(P)
    <3> SUFFICES ASSUME NEW ts \in ToSet(points), ts >= cutoff PROVE ts \in ToSet(P) OBVIOUS
    <3>1. PICK i \in DOMAIN points : ts = points[i] BY DEF ToSet
    <3> QED BY <2>4, <3>1
  <2> QED BY <2>2, <2>3, <2>5, <2>6, <2>7, <2>8
<1> QED BY <1>1, <1>2, PruneShape

\* What add leaves and adds.
LEMMA AddKeeps ==
  ASSUME NEW points \in Seq(Nat), NEW ts \in Nat
  PROVE  /\ Add(points, ts) \in Seq(Nat) /\ Add(points, ts) # <<>>
         /\ ts \in ToSet(Add(points, ts))
         /\ \A u \in ToSet(points) : u >= ts - Window => u \in ToSet(Add(points, ts))
         /\ Add(points, ts)[1] >= ts - Window
         /\ points # <<>> /\ points[1] >= ts - Window => Add(points, ts)[1] = points[1]
<1> DEFINE P == Prune(points, ts - Window)
           A == Append(P, ts)
<1>0. Window \in Nat /\ ts - Window \in Int BY SeriesAssumption
<1>1. /\ P \in Seq(Nat)
      /\ \A u \in ToSet(points) : u >= ts - Window => u \in ToSet(P)
      /\ P # <<>> => P[1] >= ts - Window
      /\ points # <<>> /\ points[1] >= ts - Window => P = points
  BY <1>0, PruneKeeps
<1> HIDE DEF P
<1>2. /\ A \in Seq(Nat) /\ A # <<>> /\ DOMAIN A = 1..(Len(P) + 1)
      /\ A[Len(P) + 1] = ts /\ \A i \in 1..Len(P) : A[i] = P[i]
      /\ DOMAIN P = 1..Len(P) /\ Len(P) \in Nat
      /\ P # <<>> => 1 \in 1..Len(P)
      /\ P = <<>> => Len(P) = 0
  <2>1. P \in Seq(Nat) BY <1>1
  <2>2. A \in Seq(Nat) /\ Len(A) = Len(P) + 1 /\ DOMAIN A = 1..(Len(P) + 1) BY <2>1
  <2>3. A[Len(P) + 1] = ts /\ \A i \in 1..Len(P) : A[i] = P[i] BY <2>1
  <2>4. DOMAIN P = 1..Len(P) /\ Len(P) \in Nat BY <2>1
  <2>5. P # <<>> => 1 \in 1..Len(P) BY <2>1
  <2> QED BY <2>2, <2>3, <2>4, <2>5
<1>3. Add(points, ts) = A BY DEF Add, P
<1> HIDE DEF A
<1>4. 1..Len(P) \subseteq DOMAIN A /\ Len(P) + 1 \in DOMAIN A BY <1>2
<1>5. ts \in ToSet(A) BY <1>2, <1>4 DEF ToSet
<1>6. ToSet(P) \subseteq ToSet(A) BY <1>2, <1>4 DEF ToSet
<1>7. A[1] >= ts - Window
  <2>1. CASE P = <<>> BY <1>0, <1>2, <2>1
  <2>2. CASE P # <<>> BY <1>1, <1>2, <2>2
  <2> QED BY <2>1, <2>2
<1>8. points # <<>> /\ points[1] >= ts - Window => A[1] = points[1]
  BY <1>1, <1>2
<1> QED BY <1>1, <1>2, <1>3, <1>5, <1>6, <1>7, <1>8

-----------------------------------------------------------------------------
(* The loop of evaluate over the clusters.                                 *)

Cut == [market : Nat, flow : Nat]

\* A list of comparisons of series of one length, which is long enough.
EvenCuts == {done \in Seq(Cut) :
               \A i \in DOMAIN done : done[i].market = done[i].flow /\ done[i].market >= MinSeries}

\* One more cluster leaves such a list such a list.
LEMMA CompareKeeps ==
  ASSUME NEW m \in Nat, m >= MinSeries, NEW done \in EvenCuts, NEW f \in Nat
  PROVE  Compare(m, done, f) \in EvenCuts
<1>0. MinSeries \in Nat BY SeriesAssumption
<1>1. done \in Seq(Cut) /\ \A i \in DOMAIN done : done[i] \in Cut /\ done[i].market >= MinSeries
  BY DEF EvenCuts
<1>2. CASE f < MinSeries BY <1>2 DEF Compare
<1>3. CASE ~(f < MinSeries)
  <2> DEFINE left == IF done = <<>> THEN m ELSE Last(done).market
             cut == Trim(left, f)
  <2>1. left \in Nat /\ left >= MinSeries
    <3>1. CASE done = <<>> BY <3>1
    <3>2. CASE done # <<>>
      <4>1. Len(done) \in DOMAIN done BY <1>1, <3>2
      <4>2. done[Len(done)] \in Cut /\ done[Len(done)].market >= MinSeries BY <1>1, <4>1
      <4> QED BY <3>2, <4>2 DEF Last, Cut
    <3> QED BY <3>1, <3>2
  <2> HIDE DEF left
  <2>2. cut \in Cut /\ cut.market = cut.flow /\ cut.market >= MinSeries
    BY <1>0, <1>3, <2>1 DEF Trim, Smaller, Cut
  <2>3. Compare(m, done, f) = Append(done, cut) BY <1>3 DEF Compare, left
  <2> HIDE DEF cut
  <2>4. /\ Append(done, cut) \in Seq(Cut)
        /\ DOMAIN done = 1..Len(done) /\ Len(done) \in Nat
        /\ DOMAIN Append(done, cut) = 1..(Len(done) + 1)
        /\ \A i \in 1..Len(done) : Append(done, cut)[i] = done[i]
        /\ Append(done, cut)[Len(done) + 1] = cut
    BY <1>1, <2>2
  <2>5. \A i \in 1..(Len(done) + 1) : i \in 1..Len(done) \/ i = Len(done) + 1 BY <2>4
  <2> QED BY <2>2, <2>3, <2>4, <2>5 DEF EvenCuts
<1> QED BY <1>2, <1>3

\* Whatever the lengths and the order of the flows, every comparison is of two
\* series of one length that is long enough.
LEMMA ComparisonsEven ==
  ASSUME NEW m \in Nat, m >= MinSeries, NEW flows \in Seq(Nat)
  PROVE  Comparisons(m, flows) \in EvenCuts
<1> DEFINE n == Len(flows)
           Runs(g) == g = [k \in 0..n |-> IF k = 0 THEN <<>> ELSE Compare(m, g[k - 1], flows[k])]
           after == CHOOSE g : Runs(g)
<1>0. n \in Nat /\ \A k \in 1..n : flows[k] \in Nat OBVIOUS
<1>2. Comparisons(m, flows) = after[n] BY DEF Comparisons
<1> HIDE DEF n
<1>e. <<>> \in EvenCuts
  <2>1. <<>> \in Seq(Cut) /\ DOMAIN <<>> = {} OBVIOUS
  <2> QED BY <2>1 DEF EvenCuts
<1>1. Runs(after)
  <2> DEFINE step == [k \in 1..n |-> [done \in EvenCuts |-> Compare(m, done, flows[k])]]
  <2>1. step \in [1..n -> [EvenCuts -> EvenCuts]]
    <3>1. \A k \in 1..n : \A done \in EvenCuts : Compare(m, done, flows[k]) \in EvenCuts
      BY <1>0, CompareKeeps
    <3> QED BY <3>1
  <2>2. \A k \in 1..n : \A done \in EvenCuts : step[k][done] = Compare(m, done, flows[k])
    OBVIOUS
  <2> HIDE DEF step
  <2>3. PICK f : IsRun(f, EvenCuts, <<>>, step, n)
    <3>1. step \in Steps(EvenCuts, n) BY <2>1 DEF Steps
    <3> QED BY <1>0, <1>e, <3>1, LoopHasRun
  <2>4. \A k \in 0..n : k # 0 => k \in 1..n /\ f[k - 1] \in EvenCuts BY <1>0, <2>3 DEF IsRun
  <2>5. \A k \in 0..n : f[k] = IF k = 0 THEN <<>> ELSE Compare(m, f[k - 1], flows[k])
    BY <2>2, <2>3, <2>4 DEF IsRun
  <2>6. Runs(f)
    <3>1. f = [k \in 0..n |-> f[k]] BY <2>3 DEF IsRun
    <3> QED BY <2>5, <3>1
  <2> HIDE DEF Runs
  <2> QED BY <2>6
<1> HIDE DEF after
<1>3. after[0] = <<>> /\ \A k \in 1..n : after[k] = Compare(m, after[k - 1], flows[k])
  <2>1. \A k \in 0..n : after[k] = IF k = 0 THEN <<>> ELSE Compare(m, after[k - 1], flows[k])
    BY <1>1
  <2> QED BY <1>0, <2>1
<1> DEFINE S == {k \in 0..n : after[k] \in EvenCuts}
<1>4. 0 \in S BY <1>0, <1>e, <1>3
<1>5. ASSUME NEW k \in 1..n, k - 1 \in S PROVE k \in S
  BY <1>0, <1>3, <1>5, CompareKeeps
<1>6. \A k \in 0..n : k \in S
  <2> HIDE DEF S
  <2> QED BY <1>0, <1>4, <1>5, Ladder
<1> QED BY <1>0, <1>2, <1>6

\* A series is read as a number of buckets.
LEMMA SeriesLenType ==
  ASSUME NEW points \in Seq(Nat)
  PROVE  SeriesLen(points) \in Nat
<1> DEFINE D == DOMAIN points
           bucket == [i \in D |-> points[i] \div Bucket]
<1>1. IsFiniteSet(D)
  <2>1. D = 1..Len(points) /\ Len(points) \in Int OBVIOUS
  <2> QED BY <2>1, FS_Interval
<1>2. Buckets(points) = {bucket[i] : i \in D} BY DEF Buckets
<1>3. DOMAIN bucket = D OBVIOUS
<1> HIDE DEF bucket, D
<1>4. Cardinality(Buckets(points)) \in Nat BY <1>1, <1>2, <1>3, FiniteRange, FS_CardinalityType
<1> QED BY <1>4, SeriesAssumption DEF SeriesLen, Smaller

\* A pair of one length that is long enough is correlated at every shift.
LEMMA EvenCutHasEveryLag ==
  ASSUME NEW pair \in Cut, pair.market = pair.flow, pair.market >= MinSeries
  PROVE  LagsTried(pair) = -MaxLag..MaxLag
<1>1. /\ pair.market \in Nat /\ MaxLag \in Nat /\ MinOverlap \in Nat
      /\ pair.market >= MaxLag + MinOverlap
  BY SeriesAssumption DEF Cut
<1>2. \A lag \in -MaxLag..MaxLag : pair.market - (IF lag < 0 THEN -lag ELSE lag) >= MinOverlap
  BY <1>1
<1>3. ~(pair.market # pair.flow \/ pair.market < MinOverlap) BY <1>1
<1> QED BY <1>2, <1>3 DEF LagsTried

-----------------------------------------------------------------------------
(* The inductive invariant.                                                *)

\* A message's rows come before its sends; the series starts with what is seen.
IInv ==
  /\ TypeOK
  /\ AnnouncedIsStored
  /\ conn = "send" => ToSet(batch) \subseteq stored
  /\ prob = <<>> <=> seen = {}
  /\ WindowKept
  /\ FrontIsFresh

\* The types of what the websocket and what the engine keeps.
WebTypes ==
  /\ conn \in {"down", "up", "insert", "send"}
  /\ batch \in Seq(Nat) /\ (batch # <<>> <=> conn \in {"insert", "send"})
  /\ stored \subseteq Nat /\ messages \in 0..MaxMessages

EngineTypes ==
  /\ seen \subseteq Nat /\ handled \subseteq Nat /\ ticks \in Seq(Nat) /\ prob \in Seq(Nat)
  /\ position \in 0..Len(ticks) /\ committed \in 0..position /\ busy \in BOOLEAN
  /\ committed # 0 => committed = (IF busy THEN position - 1 ELSE position)
  /\ deaths \in 0..MaxDeaths

LEMMA TwoTypes ==
  /\ TypeOK <=> WebTypes /\ EngineTypes
  /\ TypeOK' <=> WebTypes' /\ EngineTypes'
BY DEF TypeOK, WebTypes, EngineTypes

LEMMA InitInv == Init => IInv
<1> SUFFICES ASSUME Init PROVE IInv OBVIOUS
<1>1. WebTypes BY FeedAssumption DEF Init, WebTypes
<1>0. <<>> \in Seq(Nat) /\ Len(<<>>) = 0 OBVIOUS
<1>2. EngineTypes
  <2>1. position \in 0..Len(ticks) /\ committed \in 0..position BY <1>0 DEF Init
  <2>2. ticks \in Seq(Nat) /\ prob \in Seq(Nat) BY <1>0 DEF Init
  <2>3. deaths \in 0..MaxDeaths BY FeedAssumption DEF Init
  <2>4. seen \subseteq Nat /\ handled \subseteq Nat /\ busy \in BOOLEAN /\ committed = 0
    BY DEF Init
  <2> QED BY <2>1, <2>2, <2>3, <2>4 DEF EngineTypes
<1>3. AnnouncedIsStored BY DEF Init, AnnouncedIsStored, ToSet
<1>4. WindowKept /\ FrontIsFresh BY DEF Init, WindowKept, FrontIsFresh
<1> QED BY <1>1, <1>2, <1>3, <1>4, TwoTypes DEF IInv, Init

\* The steps of the websocket leave the engine alone.
LEMMA WebsocketKeeps ==
  ASSUME IInv, Websocket
  PROVE  IInv'
<1>0. /\ WebTypes /\ EngineTypes /\ AnnouncedIsStored
      /\ conn = "send" => ToSet(batch) \subseteq stored
  BY TwoTypes DEF IInv
<1>1. UNCHANGED <<engine, deaths>>
  BY DEF Websocket, Connect, Receive, InsertTicks, SendTick, Disconnect
<1>2. (prob = <<>> <=> seen = {})' /\ WindowKept' /\ FrontIsFresh'
  BY <1>1 DEF engine, IInv, WindowKept, FrontIsFresh
<1> DEFINE Quiet == UNCHANGED ticks /\ stored \subseteq stored'
<1>q. Quiet => EngineTypes' /\ AnnouncedIsStored'
  BY <1>0, <1>1 DEF EngineTypes, AnnouncedIsStored, engine
<1>3. CASE Connect \/ Disconnect
  <2>0. <<>> \in Seq(Nat) OBVIOUS
  <2>1. WebTypes' /\ conn' # "send"
    <3>1. CASE Connect BY <1>0, <3>1 DEF Connect, WebTypes
    <3>2. CASE Disconnect BY <1>0, <2>0, <3>2 DEF Disconnect, WebTypes
    <3> QED BY <1>3, <3>1, <3>2
  <2>2. Quiet BY <1>3 DEF Connect, Disconnect
  <2> QED BY <1>q, <1>2, <2>1, <2>2, TwoTypes DEF IInv
<1>4. CASE Receive
  <2>1. PICK n \in 1..2 : batch' \in [1..n -> Times] BY <1>4 DEF Receive
  <2>2. batch' \in [1..n -> Nat] /\ n \in Nat /\ n # 0
    <3>1. n \in Nat /\ n # 0 OBVIOUS
    <3>2. batch' = [i \in 1..n |-> batch'[i]] /\ \A i \in 1..n : batch'[i] \in Nat
      BY <2>1, FeedAssumption
    <3>3. [i \in 1..n |-> batch'[i]] \in [1..n -> Nat] BY <3>2
    <3> QED BY <3>1, <3>2, <3>3
  <2>3. batch' \in Seq(Nat) /\ Len(batch') = n /\ batch' # <<>> BY <2>2
  <2>4. messages' \in 0..MaxMessages
    BY <1>0, <1>4, FeedAssumption DEF Receive, WebTypes
  <2>5. WebTypes' /\ conn' # "send" BY <1>0, <1>4, <2>3, <2>4 DEF Receive, WebTypes
  <2>6. Quiet BY <1>4 DEF Receive
  <2> QED BY <1>q, <1>2, <2>5, <2>6, TwoTypes DEF IInv
<1>5. CASE InsertTicks
  <2>1. ToSet(batch) \subseteq Nat BY <1>0 DEF WebTypes, ToSet
  <2>2. WebTypes' BY <1>0, <1>5, <2>1 DEF InsertTicks, WebTypes
  <2>3. Quiet /\ ToSet(batch') \subseteq stored' BY <1>5 DEF InsertTicks
  <2> QED BY <1>q, <1>2, <2>2, <2>3, TwoTypes DEF IInv
<1>6. CASE SendTick
  <2>1. /\ batch # <<>> /\ Head(batch) = batch[1] /\ 1 \in DOMAIN batch /\ batch[1] \in Nat
        /\ Tail(batch) \in Seq(Nat) /\ Len(Tail(batch)) = Len(batch) - 1
        /\ DOMAIN batch = 1..Len(batch) /\ DOMAIN Tail(batch) = 1..Len(Tail(batch))
        /\ \A i \in DOMAIN Tail(batch) : Tail(batch)[i] = batch[i + 1] /\ i + 1 \in DOMAIN batch
    BY <1>0, <1>6 DEF SendTick, WebTypes
  <2>2. ToSet(batch') \subseteq ToSet(batch) BY <1>6, <2>1 DEF SendTick, ToSet
  <2>3. /\ ticks' \in Seq(Nat) /\ Len(ticks') = Len(ticks) + 1
        /\ DOMAIN ticks' = 1..(Len(ticks) + 1) /\ DOMAIN ticks = 1..Len(ticks)
        /\ ticks'[Len(ticks) + 1] = batch[1]
        /\ \A i \in 1..Len(ticks) : ticks'[i] = ticks[i]
        /\ Len(ticks) \in Nat
    BY <1>0, <1>6, <2>1 DEF SendTick, EngineTypes
  <2>4. \A i \in DOMAIN ticks' : i \in DOMAIN ticks \/ i = Len(ticks) + 1 BY <2>3
  <2>5. ToSet(ticks') \subseteq ToSet(ticks) \union {batch[1]} BY <2>3, <2>4 DEF ToSet
  <2>6. batch[1] \in ToSet(batch) BY <2>1 DEF ToSet
  <2>7. batch' \in Seq(Nat) /\ conn' \in {"up", "send"} /\ (batch' # <<>> <=> conn' = "send")
    BY <1>6, <2>1 DEF SendTick
  <2>8. UNCHANGED <<stored, messages>> /\ conn = "send" BY <1>6 DEF SendTick
  <2>9. position' \in 0..Len(ticks') BY <1>0, <1>1, <2>3 DEF engine, EngineTypes
  <2>10. ToSet(ticks') \subseteq stored' /\ ToSet(batch') \subseteq stored'
    BY <1>0, <2>2, <2>5, <2>6, <2>8 DEF AnnouncedIsStored
  <2>11. WebTypes' BY <1>0, <2>7, <2>8 DEF WebTypes
  <2>12. EngineTypes' BY <1>0, <1>1, <2>3, <2>9 DEF EngineTypes, engine
  <2> QED BY <1>2, <2>10, <2>11, <2>12, TwoTypes DEF IInv, AnnouncedIsStored
<1> QED BY <1>3, <1>4, <1>5, <1>6 DEF Websocket

\* A tick that is handled moves the window, forward or back.
LEMMA HandleKeeps ==
  ASSUME IInv, HandleTick
  PROVE  IInv'
<1>0. /\ ticks \in Seq(Nat) /\ prob \in Seq(Nat) /\ seen \subseteq Nat /\ handled \subseteq Nat
      /\ position \in 0..Len(ticks) /\ ~busy /\ position < Len(ticks)
      /\ committed \in 0..position /\ (committed # 0 => committed = position)
      /\ Window \in Nat
  BY SeriesAssumption DEF IInv, TypeOK, HandleTick
<1> DEFINE ts == ticks[position + 1]
<1>1. /\ ts \in Nat
      /\ position' = position + 1 /\ busy' = TRUE
      /\ prob' = Add(prob, ts) /\ seen' = seen \union {ts}
      /\ handled' = handled \union {position + 1}
      /\ UNCHANGED <<conn, batch, stored, ticks, committed, messages, deaths>>
  BY <1>0 DEF HandleTick
<1> HIDE DEF ts
<1>2. /\ prob' \in Seq(Nat) /\ prob' # <<>>
      /\ ts \in ToSet(prob')
      /\ \A u \in ToSet(prob) : u >= ts - Window => u \in ToSet(prob')
      /\ prob'[1] >= ts - Window
      /\ prob # <<>> /\ prob[1] >= ts - Window => prob'[1] = prob[1]
  BY <1>0, <1>1, AddKeeps
<1>3. TypeOK'
  <2>1. position' \in 0..Len(ticks') /\ committed' \in 0..position' BY <1>0, <1>1
  <2>2. committed' # 0 => committed' = position' - 1 BY <1>0, <1>1
  <2>3. seen' \subseteq Nat /\ handled' \subseteq Nat BY <1>0, <1>1
  <2>4. WebTypes /\ EngineTypes BY TwoTypes DEF IInv
  <2>5. WebTypes' BY <1>1, <2>4 DEF WebTypes
  <2>6. EngineTypes' BY <1>1, <1>2, <2>1, <2>2, <2>3, <2>4 DEF EngineTypes
  <2> QED BY <2>5, <2>6, TwoTypes
<1>4. AnnouncedIsStored' /\ (conn = "send" => ToSet(batch) \subseteq stored)'
  BY <1>1 DEF IInv, AnnouncedIsStored
<1>5. WindowKept'
  <2> SUFFICES ASSUME NEW s \in seen', \A u \in seen' : s >= u - Window
               PROVE  s \in ToSet(prob')
    BY DEF WindowKept
  <2>1. CASE s = ts BY <1>2, <2>1
  <2>2. CASE s \in seen
    <3>1. s \in ToSet(prob) BY <1>1, <2>2 DEF IInv, WindowKept
    <3> QED BY <1>1, <1>2, <3>1
  <2> QED BY <1>1, <2>1, <2>2
<1>6. FrontIsFresh'
  <2> SUFFICES ASSUME NEW u \in seen' PROVE prob'[1] >= u - Window
    BY DEF FrontIsFresh
  <2>0. u \in Nat /\ prob'[1] \in Nat BY <1>0, <1>1, <1>2
  <2>1. CASE u = ts BY <1>2, <2>1
  <2>2. CASE u \in seen
    <3>1. prob # <<>> /\ prob[1] >= u - Window /\ prob[1] \in Nat
      BY <1>0, <2>2 DEF IInv, FrontIsFresh
    <3>2. CASE prob[1] >= ts - Window BY <1>2, <3>1, <3>2
    <3>3. CASE ~(prob[1] >= ts - Window)
      <4>1. u - Window <= ts - Window BY <1>0, <1>1, <2>0, <3>1, <3>3
      <4> QED BY <1>0, <1>1, <1>2, <2>0, <4>1
    <3> QED BY <3>2, <3>3
  <2> QED BY <1>1, <2>1, <2>2
<1>7. (prob = <<>> <=> seen = {})' BY <1>1, <1>2
<1> QED BY <1>3, <1>4, <1>5, <1>6, <1>7 DEF IInv

LEMMA EngineKeeps ==
  ASSUME IInv, Commit \/ EngineDies
  PROVE  IInv'
<1>0. WebTypes /\ EngineTypes BY TwoTypes DEF IInv
<1>1. AnnouncedIsStored' /\ (conn = "send" => ToSet(batch) \subseteq stored)'
  BY DEF IInv, AnnouncedIsStored, Commit, EngineDies
<1>2. CASE Commit
  <2>1. WebTypes' BY <1>0, <1>2 DEF Commit, WebTypes
  <2>3. EngineTypes'
    <3>1. position \in Nat /\ position \in 0..position BY <1>0 DEF EngineTypes
    <3> QED BY <1>0, <1>2, <3>1 DEF Commit, EngineTypes
  <2>2. WindowKept' /\ FrontIsFresh' /\ (prob = <<>> <=> seen = {})'
    BY <1>2 DEF Commit, IInv, WindowKept, FrontIsFresh
  <2> QED BY <1>1, <2>1, <2>2, <2>3, TwoTypes DEF IInv
<1>3. CASE EngineDies
  <2>1. position' \in 0..Len(ticks) /\ committed \in 0..position'
        /\ (committed # 0 => committed = position')
    <3>1. CASE committed = 0 BY <1>0, <1>3, <3>1 DEF EngineDies, EngineTypes
    <3>2. CASE committed # 0 BY <1>0, <1>3, <3>2 DEF EngineDies, EngineTypes
    <3> QED BY <3>1, <3>2
  <2>4. WebTypes' BY <1>0, <1>3 DEF EngineDies, WebTypes
  <2>5. deaths' \in 0..MaxDeaths BY <1>0, <1>3, FeedAssumption DEF EngineDies, EngineTypes
  <2>6. prob' \in Seq(Nat) /\ seen' \subseteq Nat /\ busy' = FALSE BY <1>3 DEF EngineDies
  <2>2. EngineTypes' BY <1>0, <1>3, <2>1, <2>5, <2>6 DEF EngineDies, EngineTypes
  <2>3. WindowKept' /\ FrontIsFresh' /\ (prob = <<>> <=> seen = {})'
    BY <1>3 DEF EngineDies, WindowKept, FrontIsFresh
  <2> QED BY <1>1, <2>2, <2>3, <2>4, TwoTypes DEF IInv
<1> QED BY <1>2, <1>3

LEMMA StutterKeeps ==
  ASSUME IInv, UNCHANGED vars
  PROVE  IInv'
BY DEF vars, engine, IInv, TypeOK, AnnouncedIsStored, WindowKept, FrontIsFresh

\* The invariant is inductive.
THEOREM Inductive == Spec => []IInv
<1>1. ASSUME IInv, [Next]_vars PROVE IInv'
  BY <1>1, WebsocketKeeps, HandleKeeps, EngineKeeps, StutterKeeps DEF Next, Consume
<1> QED BY <1>1, InitInv, PTL DEF Spec

-----------------------------------------------------------------------------
(* The results.                                                            *)

\* The type invariant of the hot path, for every feed and number of deaths.
THEOREM TypeCorrect == Spec => []TypeOK
<1>1. IInv => TypeOK BY DEF IInv
<1> QED BY <1>1, Inductive, PTL

\* No tick is on the bus without its row, whatever breaks between the insert
\* and the sends.
THEOREM AnnouncedTheorem == Spec => []AnnouncedIsStored
<1>1. IInv => AnnouncedIsStored BY DEF IInv
<1> QED BY <1>1, Inductive, PTL

\* The series keeps every tick within the window of the newest one, for every
\* window and every order of arrival.
THEOREM WindowTheorem == Spec => []WindowKept
<1>1. IInv => WindowKept BY DEF IInv
<1> QED BY <1>1, Inductive, PTL

\* The first point of the series is within the window of the newest tick, for
\* every window and every order of arrival.
THEOREM FrontTheorem == Spec => []FrontIsFresh
<1>1. IInv => FrontIsFresh BY DEF IInv
<1> QED BY <1>1, Inductive, PTL

\* Every comparison that passes the gates tries every shift, for every series and
\* any number of clusters, with flows of any length in any order: the cut that one cluster leaves on the
\* market's series spoils no later one.
THEOREM LagsTheorem == Spec => []EveryLagTried
<1>1. ASSUME TypeOK PROVE EveryLagTried
  <2>0. prob \in Seq(Nat) BY <1>1 DEF TypeOK
  <2> SUFFICES ASSUME SeriesLen(prob) >= MinSeries,
                      NEW n \in 0..MaxClusters, NEW lens \in [1..n -> 0..MaxSeries],
                      NEW i \in DOMAIN Comparisons(SeriesLen(prob), lens)
               PROVE  LagsTried(Comparisons(SeriesLen(prob), lens)[i]) = -MaxLag..MaxLag
    BY DEF EveryLagTried
  <2> DEFINE done == Comparisons(SeriesLen(prob), lens)
  <2>1. SeriesLen(prob) \in Nat BY <2>0, SeriesLenType
  <2>2. lens \in Seq(Nat)
    <3>1. \A j \in 1..n : lens[j] \in Nat BY SeriesAssumption
    <3>2. lens = [j \in 1..n |-> lens[j]] /\ n \in Nat BY FeedAssumption
    <3>3. [j \in 1..n |-> lens[j]] \in [1..n -> Nat] BY <3>1
    <3> QED BY <3>2, <3>3
  <2>3. done \in EvenCuts BY <2>1, <2>2, ComparisonsEven
  <2> HIDE DEF done
  <2>4. done[i] \in Cut /\ done[i].market = done[i].flow /\ done[i].market >= MinSeries
    BY <2>3 DEF EvenCuts, done
  <2> QED BY <2>4, EvenCutHasEveryLag DEF done
<1> QED BY <1>1, TypeCorrect, PTL

-----------------------------------------------------------------------------
(* What a commit means.  A death goes back to the last commit and nothing   *)
(* is handed out twice ahead of it, so the places an engine has handled     *)
(* have no hole behind a commit.                                            *)

\* All places of the topic from f up to the consumer's have been handled.
DoneFrom(f) == f <= committed /\ f..position \subseteq handled

HandInv ==
  /\ busy => position \in handled
  /\ committed # 0 => DoneFrom(committed)

LEMMA HandKeeps ==
  ASSUME TypeOK, HandInv, [Next]_vars
  PROVE  HandInv'
<1>0. /\ position \in Nat /\ committed \in Nat /\ busy \in BOOLEAN
      /\ committed # 0 => committed = (IF busy THEN position - 1 ELSE position)
  BY DEF TypeOK
<1>1. CASE HandleTick
  <2>1. /\ position' = position + 1 /\ committed' = committed /\ ~busy
        /\ handled' = handled \union {position + 1}
    BY <1>1 DEF HandleTick
  <2> QED BY <1>0, <2>1 DEF HandInv, DoneFrom
<1>2. CASE Commit
  BY <1>0, <1>2 DEF Commit, HandInv, DoneFrom
<1>3. CASE EngineDies
  BY <1>0, <1>3 DEF EngineDies, HandInv, DoneFrom
<1>4. CASE Websocket \/ UNCHANGED vars
  BY <1>4 DEF Websocket, Connect, Receive, InsertTicks, SendTick, Disconnect, engine, vars,
              HandInv, DoneFrom
<1> QED BY <1>1, <1>2, <1>3, <1>4 DEF Next, Consume

LEMMA DoneFromStays ==
  ASSUME NEW f \in Nat \ {0}, TypeOK, HandInv, DoneFrom(f), [Next]_vars
  PROVE  DoneFrom(f)'
<1>0. /\ position \in Nat /\ committed \in Nat /\ committed # 0 /\ busy \in BOOLEAN
      /\ committed = (IF busy THEN position - 1 ELSE position)
  BY DEF TypeOK, DoneFrom
<1>1. CASE HandleTick
  <2>1. /\ position' = position + 1 /\ committed' = committed
        /\ handled' = handled \union {position + 1}
    BY <1>1 DEF HandleTick
  <2> QED BY <1>0, <2>1 DEF DoneFrom
<1>2. CASE Commit
  BY <1>0, <1>2 DEF Commit, DoneFrom
<1>3. CASE EngineDies
  BY <1>0, <1>3 DEF EngineDies, DoneFrom
<1>4. CASE Websocket \/ UNCHANGED vars
  BY <1>4 DEF Websocket, Connect, Receive, InsertTicks, SendTick, Disconnect, engine, vars,
              DoneFrom
<1> QED BY <1>1, <1>2, <1>3, <1>4 DEF Next, Consume

\* Once the group has committed place f, every tick from there up to the
\* consumer's place has been handled, for ever, however often the engine dies:
\* ticks are lost before the first commit only (lines 88-92 of bus.py).
THEOREM NothingSkippedTheorem ==
  ASSUME NEW f \in Nat \ {0}
  PROVE  Spec => [](committed = f => []DoneFrom(f))
<1>1. Init => HandInv
  BY DEF Init, HandInv
<1>2. TypeOK /\ HandInv /\ [Next]_vars => HandInv'
  BY HandKeeps
<1>3. HandInv => (committed = f => DoneFrom(f))
  BY DEF HandInv
<1>4. TypeOK /\ HandInv /\ DoneFrom(f) /\ [Next]_vars => DoneFrom(f)'
  BY DoneFromStays
<1> QED BY <1>1, <1>2, <1>3, <1>4, TypeCorrect, PTL DEF Spec

=============================================================================
