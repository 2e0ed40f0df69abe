------------------------- MODULE PositionsCollector -------------------------
(***************************************************************************)
(* services/positions-collector: one loop polls the public trades feed,    *)
(* writes the fills it has not seen, announces them on the bus and notes   *)
(* their takers; now and then it refreshes the features of the busiest     *)
(* wallets.  What it has seen is remembered in memory, by transaction hash, *)
(* from before the write on.  Every call is an await that may raise; the   *)
(* exception ends the poll, and the loop goes on.                          *)
(***************************************************************************)
EXTENDS Integers, FiniteSets, Sequences

CONSTANTS
  Trades,       \* entries of the feed
  Hashed,       \* those that carry a transaction hash
  KeyOf,        \* trade -> trade_id: its hash, or its second, market and asset
  Malformed,    \* entries without a market or an asset
  Undated,      \* entries whose timestamp cannot be read: the wall clock dates them;
                \* the others of one key have one time.  Without a hash either, the
                \* key is new in every poll: KeyOf stands for all of these keys, and
                \* a row for those that one process files
  TakerOf,      \* trade -> wallet, or NoWallet
  Wallets, NoWallet,
  Amounts,      \* PnL values and position sizes that the API names
  Window,       \* limit=500
  SmartLimit,   \* SMART_WALLET_LIMIT
  MaxFaults,    \* bound: raising calls
  MaxRestarts   \* bound: process deaths

Unknown == -1   \* SQL NULL

Keys == {KeyOf[t] : t \in Trades}

ASSUME PositionsAssumption ==
  /\ Hashed \subseteq Trades /\ Malformed \subseteq Trades
  /\ Undated \subseteq Trades
  /\ \A t \in Undated \ Hashed : \A u \in Trades \ {t} : KeyOf[t] # KeyOf[u]
  /\ KeyOf \in [Trades -> Keys]
  /\ \A t \in Hashed, u \in Trades \ Hashed : KeyOf[t] # KeyOf[u]
  /\ NoWallet \notin Wallets /\ TakerOf \in [Trades -> Wallets \union {NoWallet}]
  /\ Amounts \subseteq Nat \ {0}
  /\ Window \in Nat \ {0} /\ SmartLimit \in Nat
  /\ MaxFaults \in Nat /\ MaxRestarts \in Nat

VARIABLES
  born,       \* trade -> when the feed listed it, 0 = not yet
  pc,         \* the await the loop stands at
  seen,       \* seen_hashes
  fills,      \* the batch
  toSend,     \* those not sent yet
  rows,       \* table market_fills
  announced,  \* trade ids the bus has accepted
  sent,       \* hashes sent by this process (ghost)
  dropped,    \* hashes of this process's batches that ended in an exception (ghost)
  known,      \* addresses in table wallets
  pnl, score, \* columns polymarket_pnl; polymarket_volume and smart_money_score
  top,        \* wallets the refresh has still to visit, the busiest first
  faults, restarts

batch    == <<fills, toSend>>
books    == <<announced, sent, dropped>>
features == <<pnl, score, top>>
vars == <<born, pc, seen, batch, rows, books, known, features, faults, restarts>>

KeysOf(S) == {KeyOf[t] : t \in S}
Stored    == {KeyOf[r.t] : r \in rows}

Init ==
  /\ born = [t \in Trades |-> 0]
  /\ pc = "fetch" /\ seen = {} /\ fills = {} /\ toSend = {}
  /\ rows = {} /\ announced = {} /\ sent = {} /\ dropped = {}
  /\ known = {} /\ pnl = [w \in Wallets |-> Unknown] /\ score = [w \in Wallets |-> Unknown]
  /\ top = <<>>
  /\ faults = 0 /\ restarts = 0

-----------------------------------------------------------------------------
(* The feed (external): newest entries first, the last Window of them.     *)

Listed == {t \in Trades : born[t] > 0}
Newer(u, t) == born[u] > born[t]
Page == {t \in Listed : Cardinality({u \in Listed : Newer(u, t)}) < Window}

Publish(t) ==
  /\ born[t] = 0
  /\ born' = [born EXCEPT ![t] = Cardinality(Listed) + 1]
  /\ UNCHANGED <<pc, seen, batch, rows, books, known, features, faults, restarts>>

-----------------------------------------------------------------------------
(* ingest_trade_feed                                                       *)

Fault == faults < MaxFaults /\ faults' = faults + 1

\* The poll is over: perhaps the wallets are due for a refresh.
EndPoll ==
  /\ fills' = {} /\ toSend' = {}
  /\ pc' \in {"fetch", "top"}

\* Within one page only the first readable entry of a transaction is taken.
FirstOfTx(t) == ~\E u \in Page \ Malformed : KeyOf[u] = KeyOf[t] /\ Newer(u, t)

\* Mutant: the entry is not read first.
NewUnread == {t \in Page : t \in Hashed => KeyOf[t] \notin seen /\ FirstOfTx(t)}
New == {t \in Page \ Malformed : t \in Hashed => KeyOf[t] \notin seen /\ FirstOfTx(t)}

\* Mutants: a hash is noted before its entry is read; it is never noted; the
\* bus is told first.
FetchNotingAll ==
  /\ pc = "fetch"
  /\ fills' = New /\ toSend' = {}
  /\ seen' = seen \union KeysOf(Page \intersect Hashed)
  /\ pc' \in IF New = {} THEN {"fetch", "top"} ELSE {"insert"}
  /\ UNCHANGED <<born, rows, books, known, features, faults, restarts>>

FetchNotingNone ==
  /\ pc = "fetch"
  /\ fills' = New /\ toSend' = {} /\ seen' = seen
  /\ pc' \in IF New = {} THEN {"fetch", "top"} ELSE {"insert"}
  /\ UNCHANGED <<born, rows, books, known, features, faults, restarts>>

FetchSendingFirst ==
  /\ pc = "fetch"
  /\ fills' = New /\ toSend' = New
  /\ seen' = seen \union KeysOf(New \intersect Hashed)
  /\ pc' \in IF New = {} THEN {"fetch", "top"} ELSE {"send"}
  /\ UNCHANGED <<born, rows, books, known, features, faults, restarts>>

\* The page arrives, and the hashes of the new fills are noted at once.
Fetch ==
  /\ pc = "fetch"
  /\ fills' = New /\ toSend' = {}
  /\ seen' = seen \union KeysOf(New \intersect Hashed)
  /\ pc' \in IF New = {} THEN {"fetch", "top"} ELSE {"insert"}
  /\ UNCHANGED <<born, rows, books, known, features, faults, restarts>>

\* No list came, after four attempts.
FetchNothing ==
  /\ pc = "fetch" /\ Fault
  /\ EndPoll
  /\ UNCHANGED <<born, seen, rows, books, known, features, restarts>>

\* time is the entry's own, or the wall clock when it cannot be read
RowOf(t) == [t |-> t, at |-> IF t \in Undated THEN restarts + 1 ELSE 0]

\* Mutant: no primary key.
InsertedAll == rows \union {RowOf(t) : t \in fills}

\* PRIMARY KEY (time, trade_id), ON CONFLICT DO NOTHING
Inserted ==
  rows \union {RowOf(t) : t \in {u \in fills :
    /\ ~\E r \in rows : KeyOf[r.t] = KeyOf[u] /\ r.at = RowOf(u).at
    /\ ~\E v \in fills : KeyOf[v] = KeyOf[u] /\ Newer(v, u)}}

InsertFills ==
  /\ pc = "insert"
  /\ rows' = Inserted
  /\ toSend' = fills /\ pc' = "send"
  /\ UNCHANGED <<born, seen, fills, books, known, features, faults, restarts>>

Send(t) ==
  /\ pc = "send" /\ t \in toSend
  /\ announced' = announced \union {KeyOf[t]}
  /\ sent' = sent \union KeysOf({t} \intersect Hashed)
  /\ toSend' = toSend \ {t}
  /\ IF toSend' = {} THEN pc' = "wallets" ELSE UNCHANGED pc
  /\ UNCHANGED <<born, seen, fills, rows, dropped, known, features, faults, restarts>>

Takers(S) == {TakerOf[t] : t \in S} \ {NoWallet}

UpsertTakers ==
  /\ pc = "wallets"
  /\ known' = known \union Takers(fills)
  /\ EndPoll
  /\ UNCHANGED <<born, seen, rows, books, features, faults, restarts>>

\* A call raises; what it asked for may have happened all the same.  The batch
\* is gone, and its hashes stay noted.
IngestFails ==
  /\ Fault /\ EndPoll
  /\ dropped' = dropped \union KeysOf(fills \intersect Hashed)
  /\ \/ pc = "insert" /\ rows' \in {rows, Inserted} /\ UNCHANGED <<announced, sent, known>>
     \/ /\ pc = "send"
        /\ \E t \in toSend :
             \/ UNCHANGED <<announced, sent>>
             \/ /\ announced' = announced \union {KeyOf[t]}
                /\ sent' = sent \union KeysOf({t} \intersect Hashed)
        /\ UNCHANGED <<rows, known>>
     \/ /\ pc = "wallets" /\ Takers(fills) # {}
        /\ known' \in {known, known \union Takers(fills)}
        /\ UNCHANGED <<rows, announced, sent>>
  /\ UNCHANGED <<born, seen, features, restarts>>

-----------------------------------------------------------------------------
(* select_top_wallets and refresh_smart_wallets                            *)

\* No wallet twice.
Lists(S) == {l \in UNION {[1..n -> S] : n \in 0..SmartLimit} :
               \A i, j \in DOMAIN l : l[i] = l[j] => i = j}

\* The busiest takers of the fills of a week; how busy, and the week, are data.
SelectTop ==
  /\ pc = "top"
  /\ top' \in Lists(Takers({r.t : r \in rows}))
  /\ pc' = IF top' = <<>> THEN "fetch" ELSE "value"
  /\ UNCHANGED <<born, seen, batch, rows, books, known, pnl, score, faults, restarts>>

SelectFails ==
  /\ pc = "top" /\ Fault
  /\ pc' = "fetch"
  /\ UNCHANGED <<born, seen, batch, rows, books, known, features, restarts>>

Coalesce(old, new) == IF new = Unknown THEN old ELSE new

\* The wallet's value.  A missing answer or a failing upsert is passed over.
RefreshValue ==
  /\ pc = "value"
  /\ \/ UNCHANGED <<pnl, known>>
     \/ \E v \in Amounts \union {0, Unknown} :
          /\ pnl' = [pnl EXCEPT ![Head(top)] = Coalesce(@, v)]
          /\ known' = known \union {Head(top)}
  /\ pc' = "positions"
  /\ UNCHANGED <<born, seen, batch, rows, books, score, top, faults, restarts>>

\* Its positions.  `total_size or None`: a total of zero is stored as NULL.
RefreshPositions ==
  /\ pc = "positions"
  /\ \/ UNCHANGED <<score, known>>
     \/ \E total \in Amounts \union {Unknown} :
          /\ score' = [score EXCEPT ![Head(top)] = Coalesce(@, total)]
          /\ known' = known \union {Head(top)}
  /\ top' = Tail(top)
  /\ pc' = IF top' = <<>> THEN "fetch" ELSE "value"
  /\ UNCHANGED <<born, seen, batch, rows, books, pnl, faults, restarts>>

\* The process dies and is started again: its memory is empty.
Restart ==
  /\ restarts < MaxRestarts
  /\ restarts' = restarts + 1
  /\ pc' = "fetch" /\ seen' = {} /\ fills' = {} /\ toSend' = {} /\ top' = <<>>
  /\ sent' = {} /\ dropped' = {}
  /\ UNCHANGED <<born, rows, announced, known, pnl, score, faults>>

Poll ==
  \/ Fetch \/ FetchNothing \/ InsertFills \/ (\E t \in Trades : Send(t))
  \/ UpsertTakers \/ IngestFails

Next ==
  \/ Poll \/ SelectTop \/ SelectFails \/ RefreshValue \/ RefreshPositions
  \/ Restart \/ (\E t \in Trades : Publish(t))

Spec == Init /\ [][Next]_vars

Loop == Poll \/ SelectTop \/ SelectFails \/ RefreshValue \/ RefreshPositions

\* The loop is one task; every call ends, by its timeout if not before.
FairSpec == Spec /\ WF_vars(Loop)

-----------------------------------------------------------------------------
(* Properties                                                              *)

TypeOK ==
  /\ born \in [Trades -> Nat]
  /\ pc \in {"fetch", "insert", "send", "wallets", "top", "value", "positions"}
  /\ seen \subseteq KeysOf(Hashed) /\ fills \subseteq Trades \ Malformed
  /\ toSend \subseteq fills
  /\ rows \subseteq [t : Trades \ Malformed, at : Nat]
  /\ announced \subseteq Keys /\ sent \subseteq KeysOf(Hashed) /\ dropped \subseteq KeysOf(Hashed)
  /\ known \subseteq Wallets
  /\ pnl \in [Wallets -> Nat \union {Unknown}]
  /\ score \in [Wallets -> (Nat \ {0}) \union {Unknown}]
  /\ top \in Seq(Wallets)
  /\ pc \in {"value", "positions"} => top # <<>>
  /\ faults \in Nat /\ restarts \in Nat

\* Handled(k): all the poll owes for a transaction has been done.
Handled(k) ==
  /\ k \in Stored /\ k \in announced
  /\ \E t \in Hashed \ Malformed :
       KeyOf[t] = k /\ (TakerOf[t] = NoWallet \/ TakerOf[t] \in known)

\* A hash that seen_hashes suppresses is handled, or under way, or was dropped
\* by an exception: nothing else may keep a noted fill from the table, the bus
\* and the wallets (lines 155-177).
SeenIsHandled ==
  \A k \in seen : \/ k \in dropped
                  \/ k \in KeysOf(fills) /\ pc \in {"insert", "send", "wallets"}
                  \/ Handled(k)

\* A transaction has one row, whatever is polled again after a restart; only a
\* row dated by the wall clock can be repeated (line 83).
OneRowPerTx ==
  \A q, r \in rows : KeyOf[q.t] = KeyOf[r.t] /\ q # r => q.t \in Undated \/ r.t \in Undated

\* One process never announces a transaction twice.
NoRepeat == \A t \in toSend \intersect Hashed : KeyOf[t] \notin sent

\* The bus is never ahead of the table.
AnnouncedIsStored == announced \subseteq Stored

\* Refreshes and ingests write the same rows with different columns: none wipes
\* what another has stored.
FeaturesKept ==
  [][\A w \in Wallets : /\ pnl[w] # Unknown => pnl'[w] # Unknown
                        /\ score[w] # Unknown => score'[w] # Unknown]_vars

\* Every readable entry gets its transaction stored, or leaves the window, or a
\* call raised.
FeedIsStored ==
  \A t \in Trades \ Malformed :
    (t \in Page) ~> (KeyOf[t] \in Stored \/ t \notin Page \/ faults > 0)

\* "Poll the public trades feed, write new fills": a readable entry that stays
\* in the window is written.
NewFillsWritten ==
  \A t \in Trades \ Malformed : (t \in Page) ~> (KeyOf[t] \in Stored \/ t \notin Page)

=============================================================================
