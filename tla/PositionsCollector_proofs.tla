--------------------- MODULE PositionsCollector_proofs ---------------------
(***************************************************************************)
(* Proofs about the polling of trades, for every feed, page size and       *)
(* number of faults and deaths.                                            *)
(***************************************************************************)
EXTENDS PositionsCollector, FiniteSetTheorems, WellFoundedInduction, TLAPS

-----------------------------------------------------------------------------
(* The inductive invariant.                                                *)

\* The feed lists entries one after the other.
BornInv ==
  /\ IsFiniteSet(Listed)
  /\ \A t \in Trades : born[t] <= Cardinality(Listed)
  /\ \A t, u \in Listed : born[t] = born[u] => t = u

\* A batch has one fill of a transaction, and all its hashes are noted.
BatchInv ==
  /\ fills \subseteq Listed
  /\ \A t, u \in fills \intersect Hashed : KeyOf[t] = KeyOf[u] => t = u
  /\ KeysOf(fills \intersect Hashed) \subseteq seen

\* What the poll has done for its batch at each await.
StageInv ==
  /\ pc \notin {"insert", "send", "wallets"} => fills = {}
  /\ pc # "send" => toSend = {}
  /\ pc \in {"send", "wallets"} => KeysOf(fills \intersect Hashed) \subseteq Stored
  /\ pc = "send" => \A t \in fills \intersect Hashed : t \in toSend \/ KeyOf[t] \in announced
  /\ pc = "wallets" => KeysOf(fills \intersect Hashed) \subseteq announced

\* What is sent was noted; what is still to send was not sent.
SentInv ==
  /\ sent \subseteq seen
  /\ NoRepeat
  /\ pc = "insert" => \A t \in fills \intersect Hashed : KeyOf[t] \notin sent

\* Only an entry that cannot be dated has a row with another date than its own.
DateInv == \A r \in rows : r.at = 0 \/ r.t \in Undated

IInv == TypeOK /\ BornInv /\ BatchInv /\ StageInv /\ SentInv /\ SeenIsHandled
               /\ DateInv /\ OneRowPerTx

-----------------------------------------------------------------------------
(* Lemmas                                                                  *)

\* Entries that share a key with a hashed one are hashed.
LEMMA SameKeyHashed ==
  ASSUME NEW t \in Trades, NEW u \in Hashed, KeyOf[t] = KeyOf[u]
  PROVE  t \in Hashed
  BY PositionsAssumption DEF PositionsAssumption

\* The page is listed, and so is what is new in it.
LEMMA NewIsListed == New \subseteq Listed /\ New \subseteq Trades \ Malformed
  BY DEF New, Page, Listed

\* A page gives one new fill of a transaction.
LEMMA NewOnePerTx ==
  ASSUME TypeOK, BornInv, NEW t \in New \intersect Hashed, NEW u \in New \intersect Hashed,
         KeyOf[t] = KeyOf[u]
  PROVE  t = u
<1>1. t \in Page \ Malformed /\ u \in Page \ Malformed
  BY DEF New
<1>2. ~Newer(u, t) /\ ~Newer(t, u)
  BY <1>1 DEF New, FirstOfTx
<1>3. born[t] \in Nat /\ born[u] \in Nat /\ t \in Listed /\ u \in Listed
  BY NewIsListed DEF TypeOK, Listed
<1>4. born[t] = born[u]
  BY <1>2, <1>3 DEF Newer
<1> QED
  BY <1>3, <1>4 DEF BornInv

\* A hashed fill of the batch has a row after the insert.
LEMMA InsertStores ==
  ASSUME TypeOK, BatchInv, NEW t \in fills \intersect Hashed
  PROVE  \E r \in Inserted : KeyOf[r.t] = KeyOf[t]
<1>1. CASE \E r \in rows : KeyOf[r.t] = KeyOf[t] /\ r.at = RowOf(t).at
  BY <1>1 DEF Inserted
<1>2. CASE ~\E r \in rows : KeyOf[r.t] = KeyOf[t] /\ r.at = RowOf(t).at
  <2>1. born[t] \in Nat
    BY DEF TypeOK
  <2>2. ASSUME NEW v \in fills, KeyOf[v] = KeyOf[t] PROVE ~Newer(v, t)
    <3>1. v \in Hashed
      BY <2>2, SameKeyHashed DEF TypeOK
    <3>2. v = t
      BY <2>2, <3>1 DEF BatchInv
    <3> QED
      BY <2>1, <3>2 DEF Newer
  <2>3. RowOf(t) \in Inserted
    BY <1>2, <2>2 DEF Inserted
  <2>4. RowOf(t).t = t
    BY DEF RowOf
  <2> QED
    BY <2>3, <2>4
<1> QED
  BY <1>1, <1>2

\* Rows, announcements and wallets are only added: what is handled stays so.
LEMMA HandledStays ==
  ASSUME rows \subseteq rows', announced \subseteq announced', known \subseteq known',
         NEW k, Handled(k)
  PROVE  Handled(k)'
<1>1. k \in Stored'
  BY DEF Handled, Stored
<1> QED
  BY <1>1 DEF Handled

-----------------------------------------------------------------------------
(* Types                                                                   *)

\* What a statement may add to a table.
LEMMA InsertedType == TypeOK => Inserted \subseteq [t : Trades \ Malformed, at : Nat]
  BY DEF TypeOK, Inserted, RowOf

LEMMA TakersType ==
  ASSUME NEW S \in SUBSET Trades
  PROVE  Takers(S) \subseteq Wallets
  BY PositionsAssumption DEF Takers, PositionsAssumption

LEMMA ListsType ==
  ASSUME NEW S \in SUBSET Wallets, NEW l \in Lists(S)
  PROVE  l \in Seq(Wallets)
<1>1. PICK n \in 0..SmartLimit : l \in [1..n -> S]
  BY DEF Lists
<1>2. n \in Nat /\ l \in [1..n -> Wallets]
  BY <1>1, PositionsAssumption DEF PositionsAssumption
<1> QED
  BY <1>2

LEMMA AmountsType == Amounts \subseteq Nat \ {0}
  BY PositionsAssumption DEF PositionsAssumption

LEMMA InitType == Init => TypeOK
  BY DEF Init, TypeOK, Unknown, KeysOf

LEMMA TypeStep == TypeOK /\ BornInv /\ [Next]_vars => TypeOK'
<1> SUFFICES ASSUME TypeOK, BornInv, [Next]_vars PROVE TypeOK'
  OBVIOUS
<1> USE DEF batch, books, features
<1>1. CASE Fetch
  <2>1. fills' \subseteq Trades \ Malformed /\ toSend' \subseteq fills'
    BY <1>1, NewIsListed DEF Fetch
  <2>2. seen' \subseteq KeysOf(Hashed)
    BY <1>1 DEF Fetch, KeysOf, TypeOK
  <2>3. pc' \in {"fetch", "top", "insert"}
    BY <1>1 DEF Fetch
  <2> QED
    BY <1>1, <2>1, <2>2, <2>3 DEF Fetch, TypeOK
<1>2. CASE FetchNothing
  BY <1>2 DEF FetchNothing, EndPoll, Fault, TypeOK
<1>3. CASE InsertFills
  BY <1>3, InsertedType DEF InsertFills, TypeOK
<1>4. ASSUME NEW t \in Trades, Send(t) PROVE TypeOK'
  <2>1. t \in fills /\ KeyOf[t] \in Keys
    BY <1>4, PositionsAssumption DEF Send, TypeOK, Keys
  <2>2. announced' \subseteq Keys /\ sent' \subseteq KeysOf(Hashed)
    BY <1>4, <2>1 DEF Send, TypeOK, KeysOf
  <2>3. pc' \in {"send", "wallets"}
    BY <1>4 DEF Send
  <2> QED
    BY <1>4, <2>2, <2>3 DEF Send, TypeOK
<1>5. CASE UpsertTakers
  <2>1. Takers(fills) \subseteq Wallets
    BY TakersType DEF TypeOK
  <2> QED
    BY <1>5, <2>1 DEF UpsertTakers, EndPoll, TypeOK
<1>6. CASE IngestFails
  <2>1. rows' \subseteq [t : Trades \ Malformed, at : Nat]
    BY <1>6, InsertedType DEF IngestFails, TypeOK
  <2>2. known' \subseteq Wallets
    <3>1. Takers(fills) \subseteq Wallets
      BY TakersType DEF TypeOK
    <3> QED
      BY <1>6, <3>1 DEF IngestFails, TypeOK
  <2>3. announced' \subseteq Keys /\ sent' \subseteq KeysOf(Hashed)
    BY <1>6 DEF IngestFails, TypeOK, KeysOf, Keys
  <2>4. dropped' \subseteq KeysOf(Hashed)
    BY <1>6 DEF IngestFails, TypeOK, KeysOf
  <2>5. /\ fills' = {} /\ toSend' = {} /\ pc' \in {"fetch", "top"} /\ faults' \in Nat
        /\ UNCHANGED <<born, seen, pnl, score, top, restarts>>
    BY <1>6 DEF IngestFails, EndPoll, Fault, TypeOK
  <2> QED
    BY <2>1, <2>2, <2>3, <2>4, <2>5 DEF TypeOK
<1>7. CASE SelectTop
  <2>1. {r.t : r \in rows} \in SUBSET Trades
    BY DEF TypeOK
  <2>2. Takers({r.t : r \in rows}) \in SUBSET Wallets
    BY <2>1, TakersType
  <2>3. top' \in Seq(Wallets)
    BY <1>7, <2>2, ListsType DEF SelectTop
  <2> QED
    BY <1>7, <2>3 DEF SelectTop, TypeOK
<1>8. CASE SelectFails
  BY <1>8 DEF SelectFails, Fault, TypeOK
<1>9. CASE RefreshValue
  <2>1. Head(top) \in Wallets
    BY <1>9 DEF RefreshValue, TypeOK
  <2>2. pnl' \in [Wallets -> Nat \union {Unknown}] /\ known' \subseteq Wallets
    BY <1>9, <2>1, AmountsType DEF RefreshValue, TypeOK, Coalesce
  <2> QED
    BY <1>9, <2>2 DEF RefreshValue, TypeOK
<1>10. CASE RefreshPositions
  <2>1. Head(top) \in Wallets /\ top' \in Seq(Wallets)
    BY <1>10 DEF RefreshPositions, TypeOK
  <2>2. score' \in [Wallets -> (Nat \ {0}) \union {Unknown}] /\ known' \subseteq Wallets
    BY <1>10, <2>1, AmountsType DEF RefreshPositions, TypeOK, Coalesce
  <2> QED
    BY <1>10, <2>1, <2>2 DEF RefreshPositions, TypeOK
<1>11. CASE Restart
  <2>1. top' \in Seq(Wallets)
    BY <1>11 DEF Restart
  <2>2. /\ pc' = "fetch" /\ seen' = {} /\ fills' = {} /\ toSend' = {}
        /\ sent' = {} /\ dropped' = {} /\ restarts' \in Nat
    BY <1>11 DEF Restart, TypeOK
  <2>3. UNCHANGED <<born, rows, announced, known, pnl, score, faults>>
    BY <1>11 DEF Restart
  <2> QED
    BY <2>1, <2>2, <2>3 DEF TypeOK
<1>12. ASSUME NEW t \in Trades, Publish(t) PROVE TypeOK'
  <2>1. Cardinality(Listed) \in Nat
    BY FS_CardinalityType DEF BornInv
  <2>2. born' \in [Trades -> Nat]
    BY <1>12, <2>1 DEF Publish, TypeOK
  <2>3. UNCHANGED <<pc, seen, fills, toSend, rows, announced, sent, dropped, known,
                    pnl, score, top, faults, restarts>>
    BY <1>12 DEF Publish
  <2> QED
    BY <2>2, <2>3 DEF TypeOK
<1>13. CASE UNCHANGED vars
  BY <1>13 DEF vars, TypeOK
<1> QED
  BY <1>1, <1>2, <1>3, <1>4, <1>5, <1>6, <1>7, <1>8, <1>9, <1>10, <1>11, <1>12, <1>13
     DEF Next, Poll

-----------------------------------------------------------------------------
(* The feed                                                                *)

LEMMA InitBorn == Init => BornInv
<1> SUFFICES ASSUME Init PROVE BornInv
  OBVIOUS
<1>1. Listed = {}
  BY DEF Init, Listed
<1> QED
  BY <1>1, FS_EmptySet DEF Init, BornInv

LEMMA BornStep == TypeOK /\ BornInv /\ [Next]_vars => BornInv' /\ Listed \subseteq Listed'
<1> SUFFICES ASSUME TypeOK, BornInv, [Next]_vars PROVE BornInv' /\ Listed \subseteq Listed'
  OBVIOUS
<1>1. CASE born' = born
  BY <1>1 DEF BornInv, Listed
<1>2. ASSUME NEW t \in Trades, Publish(t) PROVE BornInv' /\ Listed \subseteq Listed'
  <2> DEFINE n == Cardinality(Listed)
  <2>1. n \in Nat
    BY FS_CardinalityType DEF BornInv
  <2>2. t \notin Listed /\ born' = [born EXCEPT ![t] = n + 1]
    BY <1>2 DEF Publish, Listed
  <2>7. /\ born \in [Trades -> Nat]
        /\ born'[t] = n + 1
        /\ \A u \in Trades \ {t} : born'[u] = born[u]
    BY <2>2 DEF TypeOK
  <2>8. n + 1 > 0
    BY <2>1
  <2> HIDE DEF n
  <2>3. Listed' = Listed \union {t}
    BY <2>7, <2>8 DEF Listed
  <2>4. IsFiniteSet(Listed') /\ Cardinality(Listed') = n + 1
    BY <2>2, <2>3, FS_AddElement DEF BornInv, n
  <2>9. \A u \in Trades : born[u] \in Nat /\ born[u] <= n
    BY <2>7 DEF BornInv, n
  <2>5. \A u \in Trades : born'[u] <= n + 1
    BY <2>1, <2>7, <2>9
  <2>6. ASSUME NEW u \in Listed', NEW v \in Listed', born'[u] = born'[v] PROVE u = v
    <3>1. u \in Trades /\ v \in Trades /\ (u \in Listed \/ u = t) /\ (v \in Listed \/ v = t)
      BY <2>3 DEF Listed
    <3>2. \A w \in Trades \ {t} : born'[w] # n + 1
      BY <2>1, <2>7, <2>9
    <3>3. CASE u = t \/ v = t
      BY <2>6, <2>7, <3>1, <3>2, <3>3
    <3>4. CASE u # t /\ v # t
      BY <2>6, <2>7, <3>1, <3>4 DEF BornInv
    <3> QED
      BY <3>3, <3>4
  <2> QED
    BY <2>3, <2>4, <2>5, <2>6 DEF BornInv
<1>3. born' = born \/ \E t \in Trades : Publish(t)
  BY DEF Next, Poll, Fetch, FetchNothing, InsertFills, Send, UpsertTakers, IngestFails,
     SelectTop, SelectFails, RefreshValue, RefreshPositions, Restart, vars
<1> QED
  BY <1>1, <1>2, <1>3

-----------------------------------------------------------------------------
(* The batch and the awaits                                                *)

LEMMA InitRest ==
  Init => BatchInv /\ StageInv /\ SentInv /\ SeenIsHandled /\ DateInv /\ OneRowPerTx
  BY DEF Init, BatchInv, StageInv, SentInv, NoRepeat, SeenIsHandled, DateInv, OneRowPerTx,
         KeysOf

LEMMA BatchStep ==
  ASSUME TypeOK, BornInv, BatchInv, [Next]_vars
  PROVE  BatchInv'
<1> USE DEF batch, books, features
<1>1. CASE Fetch
  <2>1. fills' \subseteq Listed'
    BY <1>1, BornStep, NewIsListed DEF Fetch
  <2>2. ASSUME NEW t \in fills' \intersect Hashed, NEW u \in fills' \intersect Hashed,
               KeyOf[t] = KeyOf[u]
        PROVE  t = u
    BY <1>1, <2>2, NewOnePerTx DEF Fetch
  <2>3. KeysOf(fills' \intersect Hashed) \subseteq seen'
    BY <1>1 DEF Fetch
  <2> QED
    BY <2>1, <2>2, <2>3 DEF BatchInv, KeysOf
<1>2. CASE fills' = {}
  BY <1>2 DEF BatchInv, KeysOf
<1>3. CASE fills' = fills /\ seen' = seen
  BY <1>3, BornStep DEF BatchInv, KeysOf
<1>4. Fetch \/ fills' = {} \/ (fills' = fills /\ seen' = seen)
  BY DEF Next, Poll, FetchNothing, EndPoll, InsertFills, Send, UpsertTakers, IngestFails,
     SelectTop, SelectFails, RefreshValue, RefreshPositions, Restart, Publish, vars
<1> QED
  BY <1>1, <1>2, <1>3, <1>4

LEMMA StageStep ==
  ASSUME TypeOK, BatchInv, StageInv, [Next]_vars
  PROVE  StageInv'
<1> USE DEF batch, books, features
<1>1. CASE Fetch
  <2>1. toSend' = {} /\ pc' \in {"fetch", "top", "insert"} /\ (pc' # "insert" => fills' = {})
    BY <1>1 DEF Fetch
  <2> QED
    BY <2>1 DEF StageInv
<1>2. CASE fills' = {} /\ toSend' = {} /\ pc' \in {"fetch", "top"}
  BY <1>2 DEF StageInv
<1>3. CASE InsertFills
  <2>1. \A t \in fills \intersect Hashed : KeyOf[t] \in Stored'
    BY <1>3, InsertStores DEF InsertFills, Stored
  <2>2. fills' = fills /\ toSend' = fills /\ pc' = "send"
    BY <1>3 DEF InsertFills
  <2> QED
    BY <2>1, <2>2 DEF StageInv, KeysOf
<1>4. ASSUME NEW t \in Trades, Send(t) PROVE StageInv'
  <2>1. /\ pc = "send" /\ pc' \in {"send", "wallets"} /\ fills' = fills /\ rows' = rows
        /\ toSend' = toSend \ {t} /\ announced' = announced \union {KeyOf[t]}
        /\ pc' = "wallets" => toSend' = {}
    BY <1>4 DEF Send
  <2>2. KeysOf(fills' \intersect Hashed) \subseteq Stored'
    BY <2>1 DEF StageInv, Stored, KeysOf
  <2>3. \A u \in fills' \intersect Hashed : u \in toSend' \/ KeyOf[u] \in announced'
    BY <2>1 DEF StageInv
  <2>4. pc' = "wallets" => KeysOf(fills' \intersect Hashed) \subseteq announced'
    BY <2>1, <2>3 DEF KeysOf
  <2> QED
    BY <2>1, <2>2, <2>3, <2>4 DEF StageInv
<1>5. CASE SelectTop \/ SelectFails \/ RefreshValue \/ RefreshPositions
  <2>1. /\ pc \notin {"insert", "send", "wallets"} /\ pc' \notin {"insert", "send", "wallets"}
        /\ UNCHANGED <<fills, toSend>>
    BY <1>5 DEF SelectTop, SelectFails, RefreshValue, RefreshPositions
  <2> QED
    BY <2>1 DEF StageInv
<1>6. CASE UNCHANGED <<pc, fills, toSend, rows, announced>>
  BY <1>6 DEF StageInv, KeysOf, Stored
<1>7. \/ Fetch \/ InsertFills \/ \E t \in Trades : Send(t)
      \/ fills' = {} /\ toSend' = {} /\ pc' \in {"fetch", "top"}
      \/ SelectTop \/ SelectFails \/ RefreshValue \/ RefreshPositions
      \/ UNCHANGED <<pc, fills, toSend, rows, announced>>
  BY DEF Next, Poll, FetchNothing, EndPoll, UpsertTakers, IngestFails, Restart, Publish, vars
<1> QED
  BY <1>1, <1>2, <1>3, <1>4, <1>5, <1>6, <1>7

LEMMA SentStep ==
  ASSUME TypeOK, BatchInv, SentInv, [Next]_vars
  PROVE  SentInv'
<1> USE DEF batch, books, features
<1>1. CASE Fetch
  <2>1. sent' = sent /\ toSend' = {} /\ seen \subseteq seen' /\ fills' = New
    BY <1>1 DEF Fetch
  <2>2. \A t \in New \intersect Hashed : KeyOf[t] \notin seen
    BY DEF New
  <2> QED
    BY <2>1, <2>2 DEF SentInv, NoRepeat
<1>2. CASE InsertFills
  <2>1. pc = "insert" /\ pc' = "send" /\ toSend' = fills /\ UNCHANGED <<sent, seen>>
    BY <1>2 DEF InsertFills
  <2> QED
    BY <2>1 DEF SentInv, NoRepeat
<1>3. ASSUME NEW t \in Trades, Send(t) PROVE SentInv'
  <2>1. /\ t \in toSend /\ toSend' = toSend \ {t} /\ seen' = seen
        /\ sent' = sent \union KeysOf({t} \intersect Hashed) /\ pc' # "insert"
    BY <1>3 DEF Send
  <2>2. sent' \subseteq seen'
    BY <2>1 DEF SentInv, BatchInv, TypeOK, KeysOf
  <2>3. ASSUME NEW u \in toSend' \intersect Hashed PROVE KeyOf[u] \notin sent'
    <3>1. KeyOf[u] \notin sent /\ u # t /\ u \in fills /\ t \in fills
      BY <2>1, <2>3 DEF SentInv, NoRepeat, TypeOK
    <3>2. t \in Hashed => KeyOf[u] # KeyOf[t]
      BY <3>1, <2>3 DEF BatchInv
    <3> QED
      BY <2>1, <3>1, <3>2 DEF KeysOf
  <2> QED
    BY <2>1, <2>2, <2>3 DEF SentInv, NoRepeat
<1>4. CASE IngestFails
  <2>1. toSend' = {} /\ pc' # "insert" /\ seen' = seen
    BY <1>4 DEF IngestFails, EndPoll
  <2>2. sent' = sent \/ \E t \in toSend : sent' = sent \union KeysOf({t} \intersect Hashed)
    BY <1>4 DEF IngestFails
  <2>3. sent' \subseteq seen'
    BY <2>1, <2>2 DEF SentInv, BatchInv, TypeOK, KeysOf
  <2> QED
    BY <2>1, <2>3 DEF SentInv, NoRepeat
<1>5. CASE Restart
  BY <1>5 DEF Restart, SentInv, NoRepeat
<1>6. CASE toSend' \subseteq toSend /\ UNCHANGED <<sent, seen>> /\ pc' # "insert"
  BY <1>6 DEF SentInv, NoRepeat
<1>7. CASE UNCHANGED <<sent, seen, fills, toSend, pc>>
  BY <1>7 DEF SentInv, NoRepeat
<1>8. \/ Fetch \/ InsertFills \/ (\E t \in Trades : Send(t)) \/ IngestFails \/ Restart
      \/ toSend' \subseteq toSend /\ UNCHANGED <<sent, seen>> /\ pc' # "insert"
      \/ UNCHANGED <<sent, seen, fills, toSend, pc>>
  BY DEF Next, Poll, FetchNothing, EndPoll, UpsertTakers, SelectTop, SelectFails,
     RefreshValue, RefreshPositions, Publish, vars
<1> QED
  BY <1>1, <1>2, <1>3, <1>4, <1>5, <1>6, <1>7, <1>8

-----------------------------------------------------------------------------
(* What is noted is handled                                                *)

\* The tables and the bus never forget.
LEMMA GrowStep ==
  ASSUME TypeOK, [Next]_vars
  PROVE  rows \subseteq rows' /\ announced \subseteq announced' /\ known \subseteq known'
<1>1. rows \subseteq rows'
  BY DEF Next, Poll, Fetch, FetchNothing, InsertFills, Inserted, Send, UpsertTakers,
     IngestFails, SelectTop, SelectFails, RefreshValue, RefreshPositions, Restart, Publish,
     vars, batch, books, features
<1>2. announced \subseteq announced'
  BY DEF Next, Poll, Fetch, FetchNothing, InsertFills, Send, UpsertTakers,
     IngestFails, SelectTop, SelectFails, RefreshValue, RefreshPositions, Restart, Publish,
     vars, batch, books, features
<1>3. known \subseteq known'
  BY DEF Next, Poll, Fetch, FetchNothing, InsertFills, Send, UpsertTakers,
     IngestFails, SelectTop, SelectFails, RefreshValue, RefreshPositions, Restart, Publish,
     vars, batch, books, features
<1> QED
  BY <1>1, <1>2, <1>3

\* At the end of a poll all is done for the hashes of its batch.
LEMMA BatchHandled ==
  ASSUME TypeOK, StageInv, UpsertTakers, NEW k \in seen, k \in KeysOf(fills)
  PROVE  Handled(k)'
<1>1. PICK t \in fills : KeyOf[t] = k
  BY DEF KeysOf
<1>2. PICK u \in Hashed : KeyOf[u] = k
  BY DEF TypeOK, KeysOf
<1>3. t \in Hashed \ Malformed
  BY <1>1, <1>2, SameKeyHashed DEF TypeOK
<1>4. k \in Stored /\ k \in announced
  BY <1>1, <1>3 DEF StageInv, UpsertTakers, KeysOf
<1>5. TakerOf[t] = NoWallet \/ TakerOf[t] \in known'
  BY <1>1 DEF UpsertTakers, Takers
<1>6. rows' = rows /\ announced' = announced
  BY DEF UpsertTakers, books
<1> QED
  BY <1>1, <1>3, <1>4, <1>5, <1>6 DEF Handled, Stored

LEMMA SeenStep ==
  ASSUME TypeOK, StageInv, SeenIsHandled, [Next]_vars
  PROVE  SeenIsHandled'
<1> USE DEF batch, books, features
<1>0. \A k : Handled(k) => Handled(k)'
  BY GrowStep, HandledStays
<1>1. CASE Fetch
  <2>1. fills = {} /\ dropped' = dropped /\ fills' = New /\ (New # {} => pc' = "insert")
    BY <1>1 DEF Fetch, StageInv
  <2>2. ASSUME NEW k \in seen PROVE k \in dropped' \/ Handled(k)'
    BY <1>0, <2>1 DEF SeenIsHandled, KeysOf
  <2>3. ASSUME NEW k \in KeysOf(New \intersect Hashed)
        PROVE  k \in KeysOf(fills') /\ pc' = "insert"
    BY <2>1 DEF KeysOf
  <2>4. seen' = seen \union KeysOf(New \intersect Hashed)
    BY <1>1 DEF Fetch
  <2> QED
    BY <2>2, <2>3, <2>4 DEF SeenIsHandled, KeysOf
<1>2. CASE InsertFills \/ \E t \in Trades : Send(t)
  <2>1. UNCHANGED <<seen, fills, dropped>> /\ pc' \in {"send", "wallets"}
    BY <1>2 DEF InsertFills, Send
  <2> QED
    BY <1>0, <2>1 DEF SeenIsHandled, KeysOf
<1>3. CASE UpsertTakers
  <2>1. UNCHANGED <<seen, dropped>>
    BY <1>3 DEF UpsertTakers
  <2>2. \A k \in seen : k \in KeysOf(fills) => Handled(k)'
    BY <1>3, BatchHandled
  <2> QED
    BY <1>0, <2>1, <2>2 DEF SeenIsHandled
<1>4. CASE IngestFails
  <2>1. seen' = seen /\ dropped' = dropped \union KeysOf(fills \intersect Hashed)
    BY <1>4 DEF IngestFails
  <2>2. ASSUME NEW k \in seen, k \in KeysOf(fills) PROVE k \in dropped'
    <3>1. PICK t \in fills : KeyOf[t] = k
      BY <2>2 DEF KeysOf
    <3>2. PICK u \in Hashed : KeyOf[u] = k
      BY DEF TypeOK, KeysOf
    <3>3. t \in Hashed
      BY <3>1, <3>2, SameKeyHashed DEF TypeOK
    <3> QED
      BY <2>1, <3>1, <3>3 DEF KeysOf
  <2> QED
    BY <1>0, <2>1, <2>2 DEF SeenIsHandled
<1>5. CASE Restart
  BY <1>5 DEF Restart, SeenIsHandled
<1>6. CASE FetchNothing \/ SelectTop \/ SelectFails \/ RefreshValue \/ RefreshPositions
  <2>1. pc \notin {"insert", "send", "wallets"} /\ UNCHANGED <<seen, dropped>>
    BY <1>6 DEF FetchNothing, SelectTop, SelectFails, RefreshValue, RefreshPositions
  <2> QED
    BY <1>0, <2>1 DEF SeenIsHandled
<1>7. CASE UNCHANGED <<seen, dropped, fills, pc>>
  BY <1>0, <1>7 DEF SeenIsHandled, KeysOf
<1>8. \/ Fetch \/ InsertFills \/ (\E t \in Trades : Send(t)) \/ UpsertTakers \/ IngestFails
      \/ Restart \/ FetchNothing \/ SelectTop \/ SelectFails \/ RefreshValue
      \/ RefreshPositions \/ UNCHANGED <<seen, dropped, fills, pc>>
  BY DEF Next, Poll, Publish, vars
<1> QED
  BY <1>1, <1>2, <1>3, <1>4, <1>5, <1>6, <1>7, <1>8

-----------------------------------------------------------------------------
(* The rows of a transaction                                               *)

LEMMA RowsStep ==
  ASSUME TypeOK, BornInv, BatchInv, DateInv, OneRowPerTx
  PROVE  /\ \A r \in Inserted : r.at = 0 \/ r.t \in Undated
         /\ \A q, r \in Inserted : KeyOf[q.t] = KeyOf[r.t] /\ q # r
              => q.t \in Undated \/ r.t \in Undated
<1> DEFINE Added == {u \in fills : /\ ~\E r \in rows : KeyOf[r.t] = KeyOf[u] /\ r.at = RowOf(u).at
                                   /\ ~\E v \in fills : KeyOf[v] = KeyOf[u] /\ Newer(v, u)}
<1>1. Inserted = rows \union {RowOf(t) : t \in Added}
  BY DEF Inserted
<1>2. \A t \in Trades : RowOf(t).t = t /\ (RowOf(t).at = 0 \/ t \in Undated)
  BY DEF RowOf
<1>3. \A t \in Trades \ Undated : RowOf(t).at = 0
  BY DEF RowOf
<1>4. \A r \in Inserted : r.at = 0 \/ r.t \in Undated
  BY <1>1, <1>2 DEF DateInv, TypeOK
<1>5. ASSUME NEW t \in Added, NEW u \in Added, KeyOf[t] = KeyOf[u] PROVE t = u
  <2>1. t \in Listed /\ u \in Listed /\ ~Newer(t, u) /\ ~Newer(u, t)
    BY <1>5 DEF BatchInv
  <2>2. born[t] \in Nat /\ born[u] \in Nat
    BY <2>1 DEF TypeOK, Listed
  <2> QED
    BY <2>1, <2>2 DEF Newer, BornInv
<1>6. ASSUME NEW q \in rows, NEW t \in Added, KeyOf[q.t] = KeyOf[t]
      PROVE  q.t \in Undated \/ t \in Undated
  <2>1. q.at # RowOf(t).at /\ t \in Trades
    BY <1>6 DEF TypeOK
  <2> QED
    BY <2>1, <1>3 DEF DateInv
<1>7. ASSUME NEW q \in Inserted, NEW r \in Inserted, KeyOf[q.t] = KeyOf[r.t], q # r
      PROVE  q.t \in Undated \/ r.t \in Undated
  <2> HIDE DEF Added
  <2>1. CASE q \in rows /\ r \in rows
    BY <1>7, <2>1 DEF OneRowPerTx
  <2>2. CASE q \in rows /\ r \notin rows
    <3>1. PICK t \in Added : r = RowOf(t)
      BY <1>1, <2>2
    <3>2. r.t = t
      BY <3>1 DEF RowOf
    <3> QED
      BY <1>6, <1>7, <2>2, <3>1, <3>2
  <2>3. CASE q \notin rows /\ r \in rows
    <3>1. PICK t \in Added : q = RowOf(t)
      BY <1>1, <2>3
    <3>2. q.t = t
      BY <3>1 DEF RowOf
    <3> QED
      BY <1>6, <1>7, <2>3, <3>1, <3>2
  <2>4. CASE q \notin rows /\ r \notin rows
    <3>1. PICK t \in Added : q = RowOf(t)
      BY <1>1, <2>4
    <3>2. PICK u \in Added : r = RowOf(u)
      BY <1>1, <2>4
    <3>3. q.t = t /\ r.t = u
      BY <3>1, <3>2 DEF RowOf
    <3> QED
      BY <1>5, <1>7, <3>1, <3>2, <3>3
  <2> QED
    BY <2>1, <2>2, <2>3, <2>4
<1> QED
  BY <1>4, <1>7

LEMMA OneRowStep ==
  ASSUME TypeOK, BornInv, BatchInv, DateInv, OneRowPerTx, [Next]_vars
  PROVE  DateInv' /\ OneRowPerTx'
<1>1. CASE rows' = rows
  BY <1>1 DEF DateInv, OneRowPerTx
<1>2. CASE rows' = Inserted
  BY <1>2, RowsStep DEF DateInv, OneRowPerTx
<1>3. rows' = rows \/ rows' = Inserted
  BY DEF Next, Poll, Fetch, FetchNothing, InsertFills, Send, UpsertTakers, IngestFails,
     SelectTop, SelectFails, RefreshValue, RefreshPositions, Restart, Publish, vars
<1> QED
  BY <1>1, <1>2, <1>3

-----------------------------------------------------------------------------
(* The bus behind the table                                                *)

\* What is being announced has its rows.
BusInv ==
  /\ pc \in {"send", "wallets"} => KeysOf(fills) \subseteq Stored
  /\ AnnouncedIsStored

\* A batch that is not empty has a newest fill: the feed numbers its entries.
LEMMA Newest ==
  ASSUME TypeOK, BornInv, NEW S \in SUBSET Trades, S # {}
  PROVE  \E t \in S : \A u \in S : ~Newer(u, t)
<1> DEFINE n == Cardinality(Listed)
<1> DEFINE R == OpToRel(<, Nat)
<1> DEFINE Ages == {n - born[t] : t \in S}
<1>1. n \in Nat BY FS_CardinalityType DEF BornInv
<1>2. \A t \in S : born[t] \in Nat /\ born[t] <= n BY DEF TypeOK, BornInv
<1>3. IsWellFoundedOn(R, Nat) BY NatLessThanWellFounded
<1> HIDE DEF n, R
<1>4. Ages \subseteq Nat /\ Ages # {} BY <1>1, <1>2
<1>5. PICK x \in Ages : \A y \in Ages : ~(<<y, x>> \in R)
  <2> HIDE DEF Ages
  <2> QED BY <1>3, <1>4, WFMin
<1>6. \A y \in Ages : ~(y < x) BY <1>4, <1>5 DEF R, OpToRel
<1>7. PICK t \in S : x = n - born[t] BY <1>5
<1>8. ASSUME NEW u \in S PROVE ~(born[u] > born[t])
  <2>1. ~(n - born[u] < n - born[t]) BY <1>6, <1>7
  <2> QED BY <1>1, <1>2, <2>1
<1> QED BY <1>8 DEF Newer

\* Every fill of the batch has its key in the table after the insert: with the
\* newest of those that share the key, or with a row that was there.
LEMMA InsertStoresAll ==
  ASSUME TypeOK, BornInv, NEW t \in fills
  PROVE  \E r \in Inserted : KeyOf[r.t] = KeyOf[t]
<1> DEFINE S == {u \in fills : KeyOf[u] = KeyOf[t]}
<1>1. S \in SUBSET Trades /\ S # {} BY DEF TypeOK
<1>2. PICK w \in S : \A v \in S : ~Newer(v, w)
  <2> HIDE DEF S
  <2> QED BY <1>1, Newest
<1>3. CASE \E r \in rows : KeyOf[r.t] = KeyOf[w] /\ r.at = RowOf(w).at
  BY <1>3 DEF Inserted
<1>4. CASE ~\E r \in rows : KeyOf[r.t] = KeyOf[w] /\ r.at = RowOf(w).at
  <2>1. w \in fills /\ KeyOf[w] = KeyOf[t] OBVIOUS
  <2>2. ~\E v \in fills : KeyOf[v] = KeyOf[w] /\ Newer(v, w) BY <1>2
  <2>3. RowOf(w) \in Inserted BY <1>4, <2>1, <2>2 DEF Inserted
  <2>4. RowOf(w).t = w BY DEF RowOf
  <2> QED BY <2>1, <2>3, <2>4
<1> QED BY <1>3, <1>4

LEMMA BusStep ==
  ASSUME TypeOK, BornInv, BusInv, [Next]_vars
  PROVE  BusInv'
<1> USE DEF batch, books, features
<1>1. CASE InsertFills
  <2>1. rows' = Inserted /\ fills' = fills /\ announced' = announced BY <1>1 DEF InsertFills
  <2>2. KeysOf(fills) \subseteq Stored' BY <2>1, InsertStoresAll DEF KeysOf, Stored
  <2>3. Stored \subseteq Stored' BY <2>1 DEF Inserted, Stored
  <2>4. KeysOf(fills') \subseteq Stored' BY <2>1, <2>2 DEF KeysOf
  <2> QED BY <2>1, <2>3, <2>4 DEF BusInv, AnnouncedIsStored
<1>2. ASSUME NEW t \in Trades, Send(t) PROVE BusInv'
  <2>1. /\ pc = "send" /\ t \in toSend /\ rows' = rows /\ fills' = fills
        /\ announced' = announced \union {KeyOf[t]}
    BY <1>2 DEF Send
  <2>2. KeyOf[t] \in Stored BY <2>1 DEF BusInv, TypeOK, KeysOf
  <2>3. Stored' = Stored BY <2>1 DEF Stored
  <2>4. KeysOf(fills') \subseteq Stored' BY <2>1, <2>3 DEF BusInv, KeysOf
  <2> QED BY <2>1, <2>2, <2>3, <2>4 DEF BusInv, AnnouncedIsStored
<1>3. CASE IngestFails
  <2>1. pc' \in {"fetch", "top"} BY <1>3 DEF IngestFails, EndPoll
  <2>2. CASE pc = "send"
    <3>1. PICK t \in toSend : rows' = rows /\ announced' \subseteq announced \union {KeyOf[t]}
      BY <1>3, <2>2 DEF IngestFails
    <3>2. KeyOf[t] \in Stored BY <2>2 DEF BusInv, TypeOK, KeysOf
    <3>3. Stored' = Stored BY <3>1 DEF Stored
    <3> QED BY <2>1, <3>1, <3>2, <3>3 DEF BusInv, AnnouncedIsStored
  <2>3. CASE pc # "send"
    <3>1. announced' = announced /\ rows' \in {rows, Inserted} BY <1>3, <2>3 DEF IngestFails
    <3>2. Stored \subseteq Stored' BY <3>1 DEF Inserted, Stored
    <3> QED BY <2>1, <3>1, <3>2 DEF BusInv, AnnouncedIsStored
  <2> QED BY <2>2, <2>3
<1>4. CASE /\ rows' = rows /\ announced' = announced
           /\ pc' \in {"send", "wallets"} => fills' = fills /\ pc' = pc
  <2>1. Stored' = Stored BY <1>4 DEF Stored
  <2>2. pc' \in {"send", "wallets"} => KeysOf(fills') \subseteq Stored'
    BY <1>4, <2>1 DEF BusInv, KeysOf
  <2> QED BY <1>4, <2>1, <2>2 DEF BusInv, AnnouncedIsStored
<1>5. CASE Poll
  BY <1>1, <1>2, <1>3, <1>4, <1>5 DEF Poll, Fetch, FetchNothing, UpsertTakers, EndPoll
<1>6. CASE ~Poll
  <2>1. /\ rows' = rows /\ announced' = announced
        /\ pc' \in {"send", "wallets"} => fills' = fills /\ pc' = pc
    BY <1>6 DEF Next, SelectTop, SelectFails, RefreshValue, RefreshPositions, Restart,
       Publish, vars
  <2> QED BY <1>4, <2>1
<1> QED BY <1>5, <1>6

-----------------------------------------------------------------------------
(* Theorems                                                                *)

LEMMA Invariance == Spec => []IInv
<1>1. Init => IInv
  BY InitType, InitBorn, InitRest DEF IInv
<1>2. IInv /\ [Next]_vars => IInv'
  <2> SUFFICES ASSUME IInv, [Next]_vars PROVE IInv'
    OBVIOUS
  <2>1. TypeOK' /\ BornInv'
    BY TypeStep, BornStep DEF IInv
  <2>2. BatchInv' /\ StageInv' /\ SentInv'
    BY BatchStep, StageStep, SentStep DEF IInv
  <2>3. SeenIsHandled' /\ DateInv' /\ OneRowPerTx'
    BY SeenStep, OneRowStep DEF IInv
  <2> QED
    BY <2>1, <2>2, <2>3 DEF IInv
<1> QED
  BY <1>1, <1>2, PTL DEF Spec

\* Every variable keeps its type.
THEOREM TypeCorrect == Spec => []TypeOK
<1>1. IInv => TypeOK
  BY DEF IInv
<1> QED
  BY <1>1, Invariance, PTL

\* A hash that seen_hashes suppresses is in the table, on the bus and its taker
\* in the wallets, or its batch is under way, or an exception ended that batch.
THEOREM SeenTheorem == Spec => []SeenIsHandled
<1>1. IInv => SeenIsHandled
  BY DEF IInv
<1> QED
  BY <1>1, Invariance, PTL

\* One process never announces a transaction twice.
THEOREM NoRepeatTheorem == Spec => []NoRepeat
<1>1. IInv => NoRepeat
  BY DEF IInv, SentInv
<1> QED
  BY <1>1, Invariance, PTL

\* A transaction whose time can be read has one row, over any number of
\* restarts.
THEOREM OneRowTheorem == Spec => []OneRowPerTx
<1>1. IInv => OneRowPerTx
  BY DEF IInv
<1> QED
  BY <1>1, Invariance, PTL

\* The bus is never ahead of the table, whether or not the entries carry a hash
\* and however the poll fails.
THEOREM AnnouncedTheorem == Spec => []AnnouncedIsStored
<1>1. Init => BusInv
  BY DEF Init, BusInv, AnnouncedIsStored
<1>2. IInv /\ BusInv /\ [Next]_vars => BusInv'
  BY BusStep DEF IInv
<1>3. BusInv => AnnouncedIsStored
  BY DEF BusInv
<1> QED
  BY <1>1, <1>2, <1>3, Invariance, PTL DEF Spec

\* No step of a refresh or of a poll turns a stored feature back into NULL.
THEOREM FeaturesTheorem == Spec => FeaturesKept
<1> DEFINE Kept == \A w \in Wallets : /\ pnl[w] # Unknown => pnl'[w] # Unknown
                                      /\ score[w] # Unknown => score'[w] # Unknown
<1>1. TypeOK /\ [Next]_vars => [Kept]_vars
  <2> SUFFICES ASSUME TypeOK, [Next]_vars PROVE Kept
    OBVIOUS
  <2> USE DEF batch, books, features
  <2>1. pnl \in [Wallets -> Nat \union {Unknown}] /\ score \in [Wallets -> (Nat \ {0}) \union {Unknown}]
    BY DEF TypeOK
  <2>2. CASE RefreshValue
    BY <2>1, <2>2 DEF RefreshValue, Coalesce
  <2>3. CASE RefreshPositions
    BY <2>1, <2>3 DEF RefreshPositions, Coalesce
  <2>4. CASE pnl' = pnl /\ score' = score
    BY <2>4
  <2>5. RefreshValue \/ RefreshPositions \/ (pnl' = pnl /\ score' = score)
    BY DEF Next, Poll, Fetch, FetchNothing, InsertFills, Send, UpsertTakers, IngestFails,
       SelectTop, SelectFails, Restart, Publish, vars
  <2> QED
    BY <2>2, <2>3, <2>4, <2>5
<1> QED
  BY <1>1, TypeCorrect, PTL DEF Spec, FeaturesKept
=============================================================================
