------------------------------ MODULE TickFeed ------------------------------
(***************************************************************************)
(* The hot path, for one market: the websocket of market-collector, the    *)
(* table market_ticks, the bus, and the market's series in the risk        *)
(* engine.  A tick is the time the exchange put on it; ticks may come late, *)
(* and the book sent after a reconnect repeats old ones.                   *)
(***************************************************************************)
EXTENDS RollingSeries

CONSTANTS
  Times,       \* the times a tick may bear; the engine reads 0 as none (`ts or time.time()`)
  MaxClusters,            \* bound: clusters the market is compared with
  MaxMessages, MaxDeaths  \* bounds

ASSUME FeedAssumption ==
  /\ Times \subseteq Nat \ {0}
  /\ MaxClusters \in Nat /\ MaxMessages \in Nat /\ MaxDeaths \in Nat

VARIABLES
  conn,       \* "down", "up", "insert", "send": what run_ws_once is doing
  batch,      \* the ticks of the message in hand, not yet announced
  stored,     \* times of the rows of market_ticks
  ticks,      \* topic market.ticks
  position,   \* of the consumer in the topic
  busy,       \* the message before position is handed out, not committed
  committed,  \* 0: the group never committed
  prob,       \* market_prob of the market
  seen,       \* ghost: the ticks handled since the engine started
  handled,    \* ghost: places in the topic that any engine handled
  messages, deaths

engine == <<position, busy, committed, prob, seen, handled>>
vars == <<conn, batch, stored, ticks, engine, messages, deaths>>

Init ==
  /\ conn = "down" /\ batch = <<>> /\ stored = {} /\ ticks = <<>>
  /\ position = 0 /\ busy = FALSE /\ committed = 0 /\ prob = <<>> /\ seen = {} /\ handled = {}
  /\ messages = 0 /\ deaths = 0

-----------------------------------------------------------------------------
(* run_ws_loop and run_ws_once.                                            *)

Connect ==
  /\ conn = "down" /\ conn' = "up"
  /\ UNCHANGED <<batch, stored, ticks, engine, messages, deaths>>

\* The ticks that could be parsed; a message without one changes nothing.
Receive ==
  /\ conn = "up" /\ conn' = "insert" /\ messages < MaxMessages
  /\ messages' = messages + 1
  /\ \E n \in 1..2 : batch' \in [1..n -> Times]
  /\ UNCHANGED <<stored, ticks, engine, deaths>>

\* one transaction for the ticks of a message
InsertTicks ==
  /\ conn = "insert" /\ conn' = "send"
  /\ stored' = stored \union ToSet(batch)
  /\ UNCHANGED <<batch, ticks, engine, messages, deaths>>

SendTick ==
  /\ conn = "send"
  /\ ticks' = Append(ticks, Head(batch))
  /\ batch' = Tail(batch)
  /\ conn' = IF batch' = <<>> THEN "up" ELSE "send"
  /\ UNCHANGED <<stored, engine, messages, deaths>>

\* The server closes, the budget is used up, a call raises or the process is
\* started again: what is in hand is not taken up again.
Disconnect ==
  /\ conn # "down" /\ conn' = "down" /\ batch' = <<>>
  /\ UNCHANGED <<stored, ticks, engine, messages, deaths>>

-----------------------------------------------------------------------------
(* The engine.  A message is committed when the next one is asked for; a    *)
(* group without a commit starts at the end of the topic.                  *)

\* Mutant: the commit comes first.
HandleCommitted ==
  /\ ~busy /\ position < Len(ticks)
  /\ position' = position + 1 /\ busy' = TRUE /\ committed' = position'
  /\ prob' = Add(prob, ticks[position'])
  /\ seen' = seen \union {ticks[position']}
  /\ handled' = handled \union {position'}
  /\ UNCHANGED <<conn, batch, stored, ticks, messages, deaths>>

HandleTick ==
  /\ ~busy /\ position < Len(ticks)
  /\ position' = position + 1 /\ busy' = TRUE
  /\ prob' = Add(prob, ticks[position'])
  /\ seen' = seen \union {ticks[position']}
  /\ handled' = handled \union {position'}
  /\ UNCHANGED <<conn, batch, stored, ticks, committed, messages, deaths>>

Commit ==
  /\ busy /\ committed' = position /\ busy' = FALSE
  /\ UNCHANGED <<conn, batch, stored, ticks, position, prob, seen, handled, messages, deaths>>

\* Mutant: starts with what is sent next, commit or not.
EngineSkips ==
  /\ deaths < MaxDeaths /\ deaths' = deaths + 1
  /\ position' = Len(ticks) /\ busy' = FALSE /\ prob' = <<>> /\ seen' = {}
  /\ UNCHANGED <<conn, batch, stored, ticks, committed, handled, messages>>

\* The commit raises, or the process is killed; it starts with an empty series
\* at the last commit, or, before the first one, with what is sent next.
EngineDies ==
  /\ deaths < MaxDeaths /\ deaths' = deaths + 1
  /\ position' = IF committed = 0 THEN Len(ticks) ELSE committed
  /\ busy' = FALSE /\ prob' = <<>> /\ seen' = {}
  /\ UNCHANGED <<conn, batch, stored, ticks, committed, handled, messages>>

Websocket == Connect \/ Receive \/ InsertTicks \/ SendTick \/ Disconnect
Consume == HandleTick \/ Commit
Next == Websocket \/ Consume \/ EngineDies

Spec == Init /\ [][Next]_vars

\* The consumer goes on as long as there are messages.
FairSpec == Spec /\ WF_vars(Consume)

-----------------------------------------------------------------------------
(* Properties                                                              *)

\* Types; a message is in hand only between its arrival and its last send, and
\* the consumer is at most one message ahead of its commits.
TypeOK ==
  /\ conn \in {"down", "up", "insert", "send"}
  /\ batch \in Seq(Nat) /\ (batch # <<>> <=> conn \in {"insert", "send"})
  /\ stored \subseteq Nat /\ seen \subseteq Nat /\ handled \subseteq Nat
  /\ ticks \in Seq(Nat) /\ prob \in Seq(Nat)
  /\ position \in 0..Len(ticks) /\ committed \in 0..position /\ busy \in BOOLEAN
  /\ committed # 0 => committed = (IF busy THEN position - 1 ELSE position)
  /\ messages \in 0..MaxMessages /\ deaths \in 0..MaxDeaths

\* Every tick on the bus has its row, whatever breaks between the insert and
\* the sends of a message (lines 385-390 of market-collector).
AnnouncedIsStored == ToSet(ticks) \subseteq stored

\* However late ticks come, the series has every tick handled since the engine
\* started that is within the window of the newest one: a late tick moves the
\* cutoff back and nothing is dropped for it (lines 52-61 of the engine).
WindowKept ==
  \A ts \in seen : (\A u \in seen : ts >= u - Window) => ts \in ToSet(prob)

\* A late tick may stay longer than its time, but only behind a first point
\* that is within the window of the newest tick (lines 55-56).
FrontIsFresh ==
  prob # <<>> => \A u \in seen : prob[1] >= u - Window

\* Past its gates, evaluate compares two series of one length, long enough for
\* every shift to be correlated, however many clusters come, in whatever order
\* and however long their flows are: the cut that one cluster leaves on the
\* market's series never turns a later comparison into the "0.0, 0" of
\* lead_lag_confidence (lines 249-266, 105-135).
EveryLagTried ==
  SeriesLen(prob) >= MinSeries =>
    \A n \in 0..MaxClusters : \A lens \in [1..n -> 0..MaxSeries] :
      LET done == Comparisons(SeriesLen(prob), lens)
      IN  \A i \in DOMAIN done : LagsTried(done[i]) = -MaxLag..MaxLag

\* From the first commit of its group on, the engine handles every tick of the
\* topic that is not behind the commit, before or after a restart (lines 88-92
\* of bus.py).
AnnouncedIsHandled ==
  \A n \in 1..(2 * MaxMessages) :
    (0 < committed /\ committed < n /\ n <= Len(ticks)) ~> n \in handled
=============================================================================
