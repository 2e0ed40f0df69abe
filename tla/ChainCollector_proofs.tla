----------------------- MODULE ChainCollector_proofs -----------------------
(***************************************************************************)
(* The chain collector delivers every block it passes, for every chain,    *)
(* distance, chunk size and number of faults and restarts, and implements  *)
(* the feed it promises.                                                   *)
(***************************************************************************)
EXTENDS ChainCollector, TLAPS

USE ChainAssumption DEF None, Heights, chain, chunk, work, tables, vars

LEMMA EnterLoopType ==
  ASSUME TypeOK, NEW c \in Nat, NEW h \in 0..MaxHead, EnterLoop(c, h)
  PROVE  /\ cursor' = c /\ raw' = {} /\ batch' = {} /\ toSend' = {}
         /\ chunkEnd' \in Nat
         /\ \/ pc' = "poll"
            \/ /\ pc' = "logs" /\ chunkEnd' <= h - Depth
               /\ chunkEnd' \in c..(c + MaxRange - 1)
BY DEF EnterLoop, SafeHead, Smaller, TypeOK, ChainAssumption

LEMMA InsertedType == TypeOK => Inserted \subseteq Row
BY DEF TypeOK, Inserted

LEMMA RowOfType ==
  ASSUME TypeOK, NEW b \in Heights, NEW t \in Transfers, NEW late, NEW null
  PROVE  RowOf(t, b, late, null) \in Row
BY DEF TypeOK, RowOf, EpochTime, NowTime, BlockTime, Row, Times

\* Type correctness; a request for logs never spans more than MaxRange blocks.
THEOREM TypeCorrect == Spec => []TypeOK
<1>1. Init => TypeOK
  BY DEF Init, TypeOK, ChainAssumption
<1>2. TypeOK /\ [Next]_vars => TypeOK'
  <2> SUFFICES ASSUME TypeOK, [Next]_vars PROVE TypeOK' OBVIOUS
  <2>1. CASE PollHead
    <3>1. PICK h \in Heights :
            /\ h <= head /\ headSeen' = h
            /\ IF h = head THEN UNCHANGED faults ELSE Fault
            /\ last'  = IF last = None THEN Larger(h - Depth, 1) ELSE last
            /\ start' = IF last = None THEN last' ELSE start
            /\ EnterLoop(last' + 1, h)
      BY <2>1 DEF PollHead
    <3>2. last' \in Heights /\ start' \in Heights \union {None}
      BY <3>1 DEF TypeOK, Larger, ChainAssumption
    <3>3. last' + 1 \in Nat /\ h \in 0..MaxHead /\ faults' \in Nat
      BY <3>1, <3>2 DEF TypeOK, Fault, ChainAssumption
    <3>4. /\ cursor' = last' + 1 /\ raw' = {} /\ batch' = {} /\ toSend' = {}
          /\ chunkEnd' \in Nat
          /\ \/ pc' = "poll"
             \/ /\ pc' = "logs" /\ chunkEnd' <= h - Depth
                /\ chunkEnd' \in cursor'..(cursor' + MaxRange - 1)
      BY <3>1, <3>3, EnterLoopType
    <3>5. UNCHANGED <<chain, file, tables, nulled, restarts>> /\ headSeen' = h
      BY <2>1, <3>1 DEF PollHead
    <3>6. 1 <= cursor' /\ cursor' \in Nat
      <4>1. last' \in 1..MaxHead /\ cursor' = last' + 1
        BY <3>2, <3>4
      <4>2. \A n \in 1..MaxHead : 1 <= n + 1 /\ n + 1 \in Nat
        BY DEF ChainAssumption
      <4> QED BY <4>1, <4>2
    <3> QED
      BY <3>2, <3>3, <3>4, <3>5, <3>6 DEF TypeOK
  <2>2. CASE FetchLogs
    <3>1. cursor..chunkEnd \subseteq Heights
      BY <2>2 DEF FetchLogs, TypeOK, ChainAssumption
    <3>2. raw' \subseteq Heights \X Transfers /\ nulled' \subseteq Heights
      BY <2>2, <3>1 DEF FetchLogs, TypeOK
    <3>3. pc' \in {"advance", "stamp"} /\ pc = "logs"
      BY <2>2 DEF FetchLogs
    <3>4. UNCHANGED <<chain, last, chunk, batch, toSend, file, tables, start, faults, restarts>>
      BY <2>2 DEF FetchLogs
    <3> QED BY <3>2, <3>3, <3>4 DEF TypeOK
  <2>3. CASE FetchNothing
    <3>1. cursor..chunkEnd \subseteq Heights
      BY <2>3 DEF FetchNothing, TypeOK, ChainAssumption
    <3>2. nulled' \subseteq Heights /\ faults' \in Nat
      BY <2>3, <3>1 DEF FetchNothing, Fault, TypeOK
    <3> QED BY <2>3, <3>2 DEF FetchNothing, TypeOK
  <2>4. CASE Stamp
    <3>1. PICK late \in SUBSET {e[1] : e \in raw} : \E null \in SUBSET late :
            /\ IF late = {} THEN UNCHANGED faults ELSE Fault
            /\ batch' = {RowOf(e[2], e[1], late, null) : e \in {f \in raw : f[2] \notin Malformed}}
      BY <2>4 DEF Stamp
    <3>2. PICK null \in SUBSET late :
            /\ IF late = {} THEN UNCHANGED faults ELSE Fault
            /\ batch' = {RowOf(e[2], e[1], late, null) : e \in {f \in raw : f[2] \notin Malformed}}
      BY <3>1
    <3>3. batch' \subseteq Row
      BY <3>2, RowOfType DEF TypeOK
    <3>4. faults' \in Nat
      BY <3>2 DEF Fault, TypeOK
    <3> QED BY <2>4, <3>3, <3>4 DEF Stamp, TypeOK
  <2>5. CASE InsertTransfers
    BY <2>5, InsertedType DEF InsertTransfers, TypeOK, Row
  <2>6. ASSUME NEW t \in Transfers, Send(t) PROVE TypeOK'
    BY <2>6 DEF Send, TypeOK
  <2>7. CASE UpsertWallets
    BY <2>7 DEF UpsertWallets, TypeOK, Row
  <2>8. CASE Advance
    <3>1. chunkEnd \in Heights /\ headSeen \in 0..MaxHead /\ chunkEnd + 1 \in Nat
      BY <2>8 DEF Advance, TypeOK, ChainAssumption
    <3>2. EnterLoop(chunkEnd + 1, headSeen)
      BY <2>8 DEF Advance
    <3>3. file' \in Heights \union {None} /\ last' \in Heights /\ faults' \in Nat
      BY <2>8, <3>1 DEF Advance, Fault, TypeOK
    <3> QED BY <2>8, <3>1, <3>2, <3>3, EnterLoopType DEF Advance, TypeOK
  <2>9. CASE CallFails
    <3>1. rows' \subseteq Row
      BY <2>9, InsertedType DEF CallFails, TypeOK
    <3>2. announced' \subseteq Transfers /\ wallets' \subseteq Transfers
      BY <2>9 DEF CallFails, TypeOK, Row
    <3>3. faults' \in Nat
      BY <2>9 DEF CallFails, Fault, TypeOK
    <3> QED BY <2>9, <3>1, <3>2, <3>3 DEF CallFails, BackToPoll, TypeOK
  <2>10. CASE SendOversize
    BY <2>10 DEF SendOversize, BackToPoll, TypeOK
  <2>11. CASE Restart
    BY <2>11 DEF Restart, BackToPoll, TypeOK
  <2>12. CASE Mine
    BY <2>12 DEF Mine, TypeOK
  <2>13. CASE Reorg
    BY <2>13 DEF Reorg, TypeOK
  <2>14. CASE UNCHANGED vars
    BY <2>14 DEF TypeOK
  <2> QED
    BY <2>1, <2>2, <2>3, <2>4, <2>5, <2>6, <2>7, <2>8, <2>9, <2>10, <2>11, <2>12, <2>13, <2>14
       DEF Next, Loop
<1> QED
  BY <1>1, <1>2, PTL DEF Spec

-----------------------------------------------------------------------------
(* The inductive invariant.  The chunk under work lies right behind the    *)
(* position and at the safe distance, where the chain is final; each stage *)
(* of the loop carries what the stages before it have achieved for it.     *)

InChunk(b) == cursor <= b /\ b <= chunkEnd
Final(b)   == b <= head - Depth

\* A row of a final block, dated by it unless a stand-in was used.
Sound(r) ==
  /\ r.t \in Content(r.block)
  /\ r.time.kind = "block" => r.time = BlockTime(r.block)

InBatch(t) == \E r \in batch : r.t = t

\* The position is where a chunk ended, the file where some chunk ended before.
PositionInv ==
  /\ headSeen <= head
  /\ pc # "poll" => last # None /\ cursor = last + 1
  /\ last # None => /\ start # None /\ start <= last
                    /\ start < last => Final(last)
  /\ file # None => last # None /\ start <= file /\ file <= last

\* What has been done for the chunk at each await.
StageInv ==
  /\ pc = "stamp" =>
       /\ \A b \in Heights : InChunk(b) => \A t \in Content(b) : <<b, t>> \in raw
       /\ \A e \in raw : InChunk(e[1]) /\ e[2] \in Content(e[1])
  /\ pc \in {"insert", "send", "wallets"} =>
       /\ \A b \in Heights : InChunk(b) => \A t \in Content(b) \ Malformed : InBatch(t)
       /\ \A r \in batch : InChunk(r.block) /\ Sound(r)
  /\ pc \in {"send", "wallets"} => \A t \in Transfers : InBatch(t) => t \in Stored
  /\ pc = "send" => \A t \in Transfers : InBatch(t) => t \in toSend \/ t \in announced
  /\ pc = "send" => \A t \in toSend : InBatch(t)
  /\ pc = "wallets" => \A t \in Transfers : InBatch(t) => t \in announced
  /\ pc = "advance" => \A b \in Heights : InChunk(b) => Delivered(b)

\* Rows are of blocks no fork can replace any more; nothing unstored is announced.
TableInv ==
  /\ \A r \in rows : Final(r.block) /\ Sound(r)
  /\ announced \subseteq Stored

IInv == PositionInv /\ StageInv /\ TableInv /\ NoGap /\ OneBlockEach(canon)

\* A step that moves neither the chain nor a height's books keeps it delivered.
LEMMA DeliveredStays ==
  ASSUME TypeOK, NEW b \in Heights, Delivered(b),
         canon'[b] = canon[b], rows \subseteq rows', announced \subseteq announced',
         wallets \subseteq wallets', b \in nulled => b \in nulled'
  PROVE  Delivered(b)'
BY DEF Delivered, Content, Stored

\* The actions of the loop that leave the chain, the rows and the books alone.
LEMMA NoGapStays ==
  ASSUME TypeOK, NoGap, canon' = canon, last' = last, start' = start,
         rows \subseteq rows', announced \subseteq announced', wallets \subseteq wallets',
         \A b \in Heights : b <= last => (b \in nulled => b \in nulled')
  PROVE  NoGap'
<1> SUFFICES ASSUME NEW b \in Heights, start' < b, b <= last' PROVE Delivered(b)'
  BY DEF NoGap
<1>1. Delivered(b) /\ (b \in nulled => b \in nulled')
  BY DEF NoGap
<1> QED
  BY <1>1, DeliveredStays

LEMMA PollHeadStep ==
  ASSUME TypeOK, IInv, PollHead
  PROVE  IInv'
<1>1. PICK h \in Heights :
        /\ h <= head /\ headSeen' = h
        /\ last'  = IF last = None THEN Larger(h - Depth, 1) ELSE last
        /\ start' = IF last = None THEN last' ELSE start
        /\ EnterLoop(last' + 1, h)
  BY DEF PollHead
<1>2. UNCHANGED <<chain, file, tables, nulled>>
  BY DEF PollHead
<1>3. last' \in Heights /\ h \in 0..MaxHead /\ last' + 1 \in Nat
  BY <1>1 DEF TypeOK, Larger, ChainAssumption
<1>4. cursor' = last' + 1 /\ pc' \in {"poll", "logs"}
  BY <1>1, <1>3, EnterLoopType
<1>5. PositionInv'
  BY <1>1, <1>2, <1>3, <1>4 DEF IInv, PositionInv, TypeOK, Final, ChainAssumption
<1>6. StageInv'
  BY <1>4 DEF StageInv
<1>7. TableInv'
  BY <1>2 DEF IInv, TableInv, Final, Sound, Content, BlockTime, Stored
<1>8. NoGap'
  <2>1. CASE last = None
    BY <2>1, <1>1, <1>3 DEF NoGap, ChainAssumption
  <2>2. CASE last # None
    BY <2>2, <1>1, <1>2, NoGapStays DEF IInv
  <2> QED BY <2>1, <2>2
<1> QED
  BY <1>2, <1>5, <1>6, <1>7, <1>8 DEF IInv

LEMMA FetchStep ==
  ASSUME TypeOK, IInv, FetchLogs \/ FetchNothing
  PROVE  IInv'
<1>1. /\ UNCHANGED <<chain, last, chunk, batch, toSend, file, tables, start>>
      /\ pc = "logs" /\ pc' \in {"stamp", "advance"}
  BY DEF FetchLogs, FetchNothing
<1>2. /\ last \in Heights /\ cursor = last + 1 /\ cursor \in Nat /\ chunkEnd \in Nat
  BY <1>1 DEF IInv, PositionInv, TypeOK
<1>3. \A b \in Heights : b <= last => (b \in nulled <=> b \in nulled')
  BY <1>1, <1>2 DEF FetchLogs, FetchNothing, ChainAssumption
<1>4. PositionInv'
  BY <1>1 DEF IInv, PositionInv, Final
<1>5. NoGap'
  BY <1>1, <1>3, NoGapStays DEF IInv
<1>6. TableInv'
  BY <1>1 DEF IInv, TableInv, Final, Sound, Content, BlockTime, Stored
<1>7. StageInv'
  <2>1. CASE FetchLogs
    <3>1. raw' = {e \in (cursor..chunkEnd) \X Transfers : e[2] \in Content(e[1])}
      BY <2>1 DEF FetchLogs
    <3>2. \A e \in raw' : InChunk(e[1]) /\ e[2] \in Content(e[1])
      BY <3>1, <1>2 DEF InChunk
    <3>3. ASSUME NEW b \in Heights, InChunk(b), NEW t \in Content(b)
          PROVE  <<b, t>> \in raw'
      <4>1. t \in Transfers
        BY <3>3 DEF Content, ChainAssumption, TypeOK
      <4>2. b \in cursor..chunkEnd
        BY <3>3, <1>2 DEF InChunk, ChainAssumption
      <4> QED BY <4>1, <4>2, <3>1
    <3>4. CASE pc' = "stamp"
      BY <3>2, <3>3, <3>4, <1>1 DEF StageInv, InChunk, Content
    <3>5. CASE pc' = "advance"
      <4>1. raw' = {}
        BY <2>1, <3>5 DEF FetchLogs
      <4>2. \A b \in Heights : InChunk(b) => Content(b) = {}
        BY <4>1, <3>3
      <4> QED BY <3>5, <4>2, <1>1 DEF StageInv, InChunk, Content, Delivered
    <3> QED BY <3>4, <3>5, <1>1
  <2>2. CASE FetchNothing
    <3>1. \A b \in Heights : InChunk(b) => b \in nulled'
      BY <2>2, <1>2 DEF FetchNothing, InChunk, ChainAssumption
    <3>2. pc' = "advance"
      BY <2>2 DEF FetchNothing
    <3> QED BY <3>1, <3>2, <1>1 DEF StageInv, InChunk, Delivered
  <2> QED BY <2>1, <2>2
<1> QED
  BY <1>1, <1>4, <1>5, <1>6, <1>7 DEF IInv

LEMMA StampStep ==
  ASSUME TypeOK, IInv, Stamp
  PROVE  IInv'
<1>1. /\ UNCHANGED <<chain, last, chunk, raw, toSend, file, tables, start, nulled>>
      /\ pc = "stamp" /\ pc' \in {"insert", "advance"}
      /\ pc' = "advance" => batch' = {}
  BY DEF Stamp
<1>2. PICK late \in SUBSET {e[1] : e \in raw} : \E null \in SUBSET late :
        batch' = {RowOf(e[2], e[1], late, null) : e \in {f \in raw : f[2] \notin Malformed}}
  BY DEF Stamp
<1>3. PICK null \in SUBSET late :
        batch' = {RowOf(e[2], e[1], late, null) : e \in {f \in raw : f[2] \notin Malformed}}
  BY <1>2
<1>4. PositionInv' /\ NoGap' /\ TableInv'
  <2>1. PositionInv' BY <1>1 DEF IInv, PositionInv, Final
  <2>2. NoGap'       BY <1>1, NoGapStays DEF IInv
  <2>3. TableInv'    BY <1>1 DEF IInv, TableInv, Final, Sound, Content, BlockTime, Stored
  <2> QED BY <2>1, <2>2, <2>3
<1>5. /\ \A b \in Heights : InChunk(b) => \A t \in Content(b) : <<b, t>> \in raw
      /\ \A e \in raw : InChunk(e[1]) /\ e[2] \in Content(e[1])
  BY <1>1 DEF IInv, StageInv
<1>6. ASSUME NEW b \in Heights, InChunk(b), NEW t \in Content(b) \ Malformed
      PROVE  \E r \in batch' : r.t = t
  <2> DEFINE e == <<b, t>>
  <2>1. e \in {f \in raw : f[2] \notin Malformed}
    BY <1>5, <1>6
  <2>2. RowOf(e[2], e[1], late, null) \in batch'
    BY <1>3, <2>1
  <2> QED BY <2>2 DEF RowOf
<1>7. ASSUME NEW r \in batch'
      PROVE  InChunk(r.block) /\ Sound(r)
  <2>1. PICK e \in raw : r = RowOf(e[2], e[1], late, null)
    BY <1>3
  <2>2. r.t = e[2] /\ r.block = e[1]
    BY <2>1 DEF RowOf
  <2>3. r.time.kind = "block" => r.time = BlockTime(r.block)
    BY <2>1, <2>2 DEF RowOf, NowTime, EpochTime, BlockTime
  <2> QED BY <2>2, <2>3, <1>5 DEF Sound
<1>8. StageInv'
  <2>1. CASE pc' = "insert"
    BY <2>1, <1>1, <1>6, <1>7 DEF StageInv, InChunk, InBatch, Sound, Content, BlockTime
  <2>2. CASE pc' = "advance"
    <3>1. \A b \in Heights : InChunk(b) => Content(b) \ Malformed = {}
      BY <1>1, <1>6, <2>2
    <3> QED BY <2>2, <3>1, <1>1 DEF StageInv, InChunk, Content, Delivered
  <2> QED BY <2>1, <2>2, <1>1
<1> QED
  BY <1>1, <1>4, <1>8 DEF IInv

\* What an insert leaves in the table, whether or not the call then raises.
LEMMA InsertedSound ==
  ASSUME TypeOK, IInv, pc = "insert"
  PROVE  /\ rows \subseteq Inserted
         /\ \A r \in Inserted : Final(r.block) /\ Sound(r)
         /\ \A t : InBatch(t) => \E r \in Inserted : r.t = t
<1>1. \A r \in batch : InChunk(r.block) /\ Sound(r) /\ r.block \in Heights
  BY DEF IInv, StageInv, TypeOK, Row
<1>2. chunkEnd <= head - Depth /\ chunkEnd \in Nat
  BY DEF IInv, PositionInv, TypeOK, ChainAssumption
<1>3. \A r \in batch : Final(r.block)
  BY <1>1, <1>2 DEF InChunk, Final, TypeOK, ChainAssumption
<1> QED
  BY <1>1, <1>3 DEF Inserted, IInv, TableInv, InBatch

LEMMA InsertStep ==
  ASSUME TypeOK, IInv, InsertTransfers
  PROVE  IInv'
<1>1. /\ UNCHANGED <<chain, last, chunk, raw, batch, file, announced, wallets, start, nulled>>
      /\ pc = "insert" /\ pc' = "send" /\ rows' = Inserted /\ toSend' = {r.t : r \in batch}
  BY DEF InsertTransfers
<1>2. PositionInv'
  BY <1>1 DEF IInv, PositionInv, Final
<1>3. NoGap'
  BY <1>1, InsertedSound, NoGapStays DEF IInv
<1>4. TableInv'
  BY <1>1, InsertedSound DEF IInv, TableInv, Final, Sound, Content, BlockTime, Stored
<1>5. \A t \in Transfers : InBatch(t) => t \in toSend' /\ \E r \in rows' : r.t = t
  BY <1>1, InsertedSound DEF InBatch
<1>6. \A t \in toSend' : InBatch(t)
  BY <1>1 DEF InBatch
<1>7. StageInv'
  BY <1>1, <1>5, <1>6 DEF IInv, StageInv, InChunk, InBatch, Sound, Content, BlockTime, Stored
<1> QED
  BY <1>1, <1>2, <1>3, <1>4, <1>7 DEF IInv

LEMMA SendStep ==
  ASSUME TypeOK, IInv, NEW t \in Transfers, Send(t)
  PROVE  IInv'
<1>1. /\ UNCHANGED <<chain, last, chunk, raw, batch, file, rows, wallets, start, nulled>>
      /\ pc = "send" /\ t \in toSend
      /\ announced' = announced \union {t} /\ toSend' = toSend \ {t}
      /\ pc' = IF toSend' = {} THEN "wallets" ELSE "send"
  BY DEF Send
<1>2. PositionInv'
  BY <1>1 DEF IInv, PositionInv, Final
<1>3. NoGap'
  BY <1>1, NoGapStays DEF IInv
<1>4. t \in Stored
  BY <1>1 DEF IInv, StageInv
<1>5. TableInv'
  BY <1>1, <1>4 DEF IInv, TableInv, Final, Sound, Content, BlockTime, Stored
<1>6. StageInv'
  BY <1>1 DEF IInv, StageInv, InChunk, InBatch, Sound, Content, BlockTime, Stored
<1> QED
  BY <1>1, <1>2, <1>3, <1>5, <1>6 DEF IInv

LEMMA UpsertStep ==
  ASSUME TypeOK, IInv, UpsertWallets
  PROVE  IInv'
<1>1. /\ UNCHANGED <<chain, last, chunk, work, file, rows, announced, start, nulled>>
      /\ pc = "wallets" /\ pc' = "advance"
      /\ wallets' = wallets \union {r.t : r \in batch}
  BY DEF UpsertWallets
<1>2. PositionInv'
  BY <1>1 DEF IInv, PositionInv, Final
<1>3. NoGap'
  BY <1>1, NoGapStays DEF IInv
<1>4. TableInv'
  BY <1>1 DEF IInv, TableInv, Final, Sound, Content, BlockTime, Stored
<1>5. \A b \in Heights : InChunk(b) => Content(b) \ Malformed \subseteq Stored \intersect announced \intersect wallets'
  <2> SUFFICES ASSUME NEW b \in Heights, InChunk(b), NEW t \in Content(b) \ Malformed
               PROVE  t \in Stored /\ t \in announced /\ t \in wallets'
    OBVIOUS
  <2>1. t \in Transfers
    BY DEF Content, ChainAssumption, TypeOK
  <2>2. InBatch(t)
    BY <1>1 DEF IInv, StageInv
  <2> QED BY <1>1, <2>1, <2>2 DEF IInv, StageInv, InBatch
<1>6. StageInv'
  BY <1>1, <1>5 DEF StageInv, InChunk, Delivered, Content, Stored
<1> QED
  BY <1>1, <1>2, <1>3, <1>4, <1>6 DEF IInv

LEMMA AdvanceStep ==
  ASSUME TypeOK, IInv, Advance
  PROVE  IInv'
<1>1. /\ UNCHANGED <<chain, headSeen, tables, start, nulled>>
      /\ pc = "advance" /\ last' = chunkEnd
      /\ file' \in {chunkEnd, file, None}
      /\ EnterLoop(chunkEnd + 1, headSeen)
  BY DEF Advance
<1>2. /\ cursor \in Nat /\ chunkEnd \in Heights /\ headSeen \in 0..MaxHead
      /\ chunkEnd <= headSeen - Depth /\ cursor <= chunkEnd
      /\ head \in Heights /\ headSeen <= head /\ Depth \in Nat /\ MaxHead \in Nat
  BY <1>1 DEF TypeOK, IInv, PositionInv, ChainAssumption
<1>3. cursor' = chunkEnd + 1 /\ pc' \in {"poll", "logs"}
  BY <1>1, <1>2, EnterLoopType
<1>4. /\ last \in Heights /\ start \in Heights /\ start <= last /\ cursor = last + 1
      /\ file # None => file \in Heights /\ start <= file /\ file <= last
  BY <1>1 DEF TypeOK, IInv, PositionInv
<1>5. PositionInv'
  BY <1>1, <1>2, <1>3, <1>4 DEF PositionInv, Final
<1>6. StageInv'
  BY <1>3 DEF StageInv
<1>7. TableInv'
  BY <1>1 DEF IInv, TableInv, Final, Sound, Content, BlockTime, Stored
<1>8. NoGap'
  <2> SUFFICES ASSUME NEW b \in Heights, start < b, b <= chunkEnd PROVE Delivered(b)
    BY <1>1 DEF NoGap, Delivered, Content, Stored
  <2>1. CASE b <= last
    BY <2>1 DEF IInv, NoGap
  <2>2. CASE ~(b <= last)
    <3>1. InChunk(b)
      BY <2>2, <1>4, <1>2 DEF InChunk
    <3> QED BY <3>1, <1>1 DEF IInv, StageInv
  <2> QED BY <2>1, <2>2
<1> QED
  BY <1>1, <1>5, <1>6, <1>7, <1>8 DEF IInv

\* Any exception, and any death of the process, keeps what was achieved.
LEMMA FailStep ==
  ASSUME TypeOK, IInv, CallFails \/ SendOversize
  PROVE  IInv'
<1>1. /\ UNCHANGED <<chain, last, chunk, file, start, nulled>>
      /\ pc' = "poll"
  BY DEF CallFails, SendOversize, BackToPoll
<1>2. /\ rows \subseteq rows' /\ announced \subseteq announced' /\ wallets \subseteq wallets'
      /\ \A r \in rows' : Final(r.block) /\ Sound(r)
  BY InsertedSound DEF CallFails, SendOversize, IInv, TableInv
<1>3. announced' \subseteq announced \union toSend /\ (announced' # announced => pc = "send")
  BY DEF CallFails, SendOversize
<1>4. announced' \subseteq Stored
  BY <1>3 DEF IInv, TableInv, StageInv, TypeOK
<1>5. PositionInv'
  BY <1>1 DEF IInv, PositionInv, Final
<1>6. NoGap'
  BY <1>1, <1>2, NoGapStays DEF IInv
<1>7. TableInv'
  BY <1>1, <1>2, <1>4 DEF TableInv, Final, Sound, Content, BlockTime, Stored
<1>8. StageInv'
  BY <1>1 DEF StageInv
<1> QED
  BY <1>1, <1>5, <1>6, <1>7, <1>8 DEF IInv

LEMMA RestartStep ==
  ASSUME TypeOK, IInv, Restart
  PROVE  IInv'
<1>1. /\ UNCHANGED <<chain, tables, start, nulled>>
      /\ pc' = "poll" /\ last' = file' /\ file' \in {file, None} /\ headSeen' = 0
  BY DEF Restart, BackToPoll
<1>2. /\ head \in Heights /\ {last, file, start} \subseteq Heights \union {None}
      /\ MaxHead \in Nat /\ Depth \in Nat
  BY DEF TypeOK, ChainAssumption
<1>3. PositionInv'
  BY <1>1, <1>2 DEF IInv, PositionInv, Final
<1>4. NoGap'
  BY <1>1, <1>2 DEF IInv, PositionInv, NoGap, Delivered, Content, Stored
<1>5. TableInv' /\ StageInv'
  BY <1>1 DEF IInv, TableInv, Final, Sound, Content, BlockTime, Stored, StageInv
<1> QED
  BY <1>1, <1>3, <1>4, <1>5 DEF IInv

\* The chain moves: a final height stays final and keeps its content.
LEMMA ChainStep ==
  ASSUME TypeOK, IInv, Mine \/ Reorg
  PROVE  IInv'
<1>1. UNCHANGED <<pc, last, chunk, work, file, tables, start, nulled>>
  BY DEF Mine, Reorg
<1>2. /\ head \in Heights /\ head' \in Nat /\ head <= head' /\ headSeen \in 0..MaxHead
      /\ MaxHead \in Nat /\ Depth \in Nat
  BY DEF Mine, Reorg, TypeOK, ChainAssumption
<1>3. \A b \in Heights : Final(b) => Final(b)' /\ canon'[b] = canon[b]
  <2> SUFFICES ASSUME NEW b \in Heights, Final(b) PROVE Final(b)' /\ canon'[b] = canon[b]
    OBVIOUS
  <2>1. b \in Int /\ head \in Int /\ head' \in Int /\ Depth \in Int /\ head <= head'
    BY <1>2
  <2>2. b <= head - Depth
    BY DEF Final
  <2>3. b <= head' - Depth
    <3>1. \A i, m, n, d \in Int : i <= m - d /\ m <= n => i <= n - d
      OBVIOUS
    <3> QED BY <3>1, <2>1, <2>2
  <2>4. Final(b)'
    BY <2>3 DEF Final
  <2>5. canon'[b] = canon[b]
    BY <2>2 DEF Mine, Reorg
  <2> QED BY <2>4, <2>5
<1>4. \A b \in Heights : Final(b) => Content(b)' = Content(b) /\ BlockTime(b)' = BlockTime(b)
  BY <1>3 DEF Content, BlockTime
<1>5. PositionInv'
  <2>1. last # None => last \in Heights
    BY DEF TypeOK
  <2> QED
    BY <1>1, <1>2, <1>3, <2>1 DEF IInv, PositionInv
<1>6. TableInv'
  <2>1. ASSUME NEW r \in rows PROVE Final(r.block)' /\ Sound(r)'
    <3>1. r.block \in Heights /\ Final(r.block) /\ Sound(r)
      BY DEF IInv, TableInv, TypeOK, Row
    <3> QED BY <3>1, <1>3, <1>4 DEF Sound
  <2> QED BY <1>1, <2>1 DEF IInv, TableInv, Stored
<1>7. NoGap'
  <2> SUFFICES ASSUME NEW b \in Heights, start < b, b <= last PROVE Delivered(b)'
    BY <1>1 DEF NoGap
  <2>1. /\ last \in Heights /\ start \in Heights
    BY DEF TypeOK, IInv, PositionInv, ChainAssumption
  <2>2. Final(last)
    BY <2>1 DEF IInv, PositionInv
  <2>3. Final(b) /\ Delivered(b)
    BY <2>1, <2>2, <1>2 DEF Final, IInv, NoGap
  <2> QED BY <2>3, <1>1, <1>3, DeliveredStays
<1>8. StageInv'
  <2>1. CASE pc = "poll"
    BY <2>1, <1>1 DEF StageInv
  <2>2. CASE pc # "poll"
    <3>1. \A b \in Heights : InChunk(b) => Final(b)
      BY <2>2, <1>2 DEF InChunk, Final, IInv, PositionInv, TypeOK
    <3>2. \A b \in Heights : InChunk(b) => /\ InChunk(b)' /\ Content(b)' = Content(b)
                                          /\ BlockTime(b)' = BlockTime(b) /\ canon'[b] = canon[b]
      BY <3>1, <1>1, <1>3, <1>4 DEF InChunk
    <3>3. \A b \in Heights : InChunk(b)' => InChunk(b)
      BY <1>1 DEF InChunk
    <3>4. \A t : InBatch(t)' <=> InBatch(t)
      BY <1>1 DEF InBatch
    <3>5. pc = "stamp" =>
            /\ \A b \in Heights : InChunk(b)' => \A t \in Content(b)' : <<b, t>> \in raw
            /\ \A e \in raw : InChunk(e[1])' /\ e[2] \in Content(e[1])'
      <4>1. \A e \in raw : e[1] \in Heights
        BY DEF TypeOK
      <4> QED BY <4>1, <3>2, <3>3 DEF IInv, StageInv
    <3>6. pc \in {"insert", "send", "wallets"} =>
            /\ \A b \in Heights : InChunk(b)' => \A t \in Content(b)' \ Malformed : InBatch(t)
            /\ \A r \in batch : InChunk(r.block)' /\ Sound(r)'
      <4>1. \A r \in batch : r.block \in Heights
        BY DEF TypeOK, Row
      <4>2. \A b \in Heights : InChunk(b)' => Content(b)' = Content(b) /\ InChunk(b)
        BY <3>2, <3>3
      <4>3. pc \in {"insert", "send", "wallets"} => \A r \in batch : InChunk(r.block) /\ Sound(r)
        BY DEF IInv, StageInv
      <4>4. \A r \in batch : InChunk(r.block) /\ Sound(r) => InChunk(r.block)' /\ Sound(r)'
        BY <4>1, <3>2 DEF Sound
      <4> QED BY <4>2, <4>3, <4>4 DEF IInv, StageInv
    <3>7. pc = "advance" => \A b \in Heights : InChunk(b)' => Delivered(b)'
      BY <3>2, <3>3, <1>1, DeliveredStays DEF IInv, StageInv
    <3>8. UNCHANGED <<pc, raw, batch, toSend, announced, Stored>>
      BY <1>1 DEF Stored
    <3> QED BY <3>4, <3>5, <3>6, <3>7, <3>8 DEF IInv, StageInv
  <2> QED BY <2>1, <2>2
<1>9. OneBlockEach(canon')
  BY DEF Mine, Reorg, IInv, OneBlockEach
<1> QED
  BY <1>5, <1>6, <1>7, <1>8, <1>9 DEF IInv, OneBlockEach

LEMMA Inductive == Spec => [](TypeOK /\ IInv)
<1>1. Init => IInv
  BY DEF Init, IInv, PositionInv, StageInv, TableInv, NoGap, Stored, ChainAssumption
<1>2. TypeOK /\ IInv /\ [Next]_vars => IInv'
  <2> SUFFICES ASSUME TypeOK, IInv, [Next]_vars PROVE IInv' OBVIOUS
  <2>1. CASE UNCHANGED vars
    BY <2>1 DEF IInv, PositionInv, StageInv, TableInv, NoGap, InChunk, InBatch, Final, Sound,
                Content, BlockTime, Stored, Delivered
  <2> QED
    BY <2>1, PollHeadStep, FetchStep, StampStep, InsertStep, SendStep, UpsertStep, AdvanceStep,
       FailStep, RestartStep, ChainStep DEF Next, Loop
<1> QED
  BY <1>1, <1>2, TypeCorrect, PTL DEF Spec

\* No transfer is missing behind the position.
THEOREM NoGapTheorem == Spec => []NoGap
<1>1. IInv => NoGap
  BY DEF IInv
<1> QED BY <1>1, Inductive, PTL

\* The state file never runs ahead of the work.
THEOREM CheckpointTheorem == Spec => []CheckpointBehind
<1>1. TypeOK /\ IInv => CheckpointBehind
  BY DEF IInv, PositionInv, NoGap, CheckpointBehind, TypeOK, ChainAssumption
<1> QED BY <1>1, Inductive, PTL

\* No fork within the safe distance orphans a row.
THEOREM CanonicalTheorem == Spec => []StoredIsCanonical
<1>1. IInv => StoredIsCanonical
  BY DEF IInv, TableInv, Sound, StoredIsCanonical
<1> QED BY <1>1, Inductive, PTL

\* No transfer is stored under two block times, whatever is repeated.
THEOREM StoredOnceTheorem == Spec => []StoredOnce
<1>1. TypeOK /\ IInv => StoredOnce
  <2> SUFFICES ASSUME TypeOK, IInv, NEW q \in rows, NEW r \in rows, q.t = r.t,
                      q.time.kind = "block", r.time.kind = "block"
               PROVE  q = r
    BY DEF StoredOnce
  <2>1. Sound(q) /\ Sound(r) /\ OneBlockEach(canon)
    BY DEF IInv, TableInv
  <2>2. q \in Row /\ r \in Row
    BY DEF TypeOK
  <2>3. q.block = r.block
    BY <2>1, <2>2 DEF Sound, OneBlockEach, Content, Row
  <2>4. q.time = r.time
    BY <2>1, <2>3 DEF Sound
  <2> QED BY <2>2, <2>3, <2>4 DEF Row
<1> QED BY <1>1, Inductive, PTL

-----------------------------------------------------------------------------
(* The refinement.                                                         *)

\* The steps of the loop map to steps of the feed, or to stutters.
LEMMA LoopRefines ==
  ASSUME TypeOK, IInv, Loop
  PROVE  [Feed!Next]_Feed!feed
<1>0. [b \in Heights |-> Content(b) \ Malformed]' = [b \in Heights |-> Content(b) \ Malformed]
  BY DEF Loop, PollHead, FetchLogs, FetchNothing, Stamp, InsertTransfers, Send, UpsertWallets,
         Advance, CallFails, SendOversize, Content
<1>1. CASE PollHead
  <2>1. PICK h \in Heights :
          /\ last'  = IF last = None THEN Larger(h - Depth, 1) ELSE last
          /\ start' = IF last = None THEN last' ELSE start
    BY <1>1 DEF PollHead
  <2>2. Larger(h - Depth, 1) \in Nat
    BY DEF Larger
  <2>3. UNCHANGED <<tables, nulled>>
    BY <1>1 DEF PollHead
  <2>4. CASE last = None
    BY <2>1, <2>2, <2>3, <2>4, <1>0 DEF Feed!Next, Feed!Begin, Stored
  <2>5. CASE last # None
    BY <2>1, <2>3, <2>5, <1>0 DEF Feed!feed, Stored
  <2> QED BY <2>4, <2>5
<1>2. CASE FetchLogs \/ FetchNothing
  <2>1. /\ UNCHANGED <<last, tables, start>> /\ pc = "logs"
    BY <1>2 DEF FetchLogs, FetchNothing
  <2>2. /\ last \in Heights /\ cursor = last + 1 /\ chunkEnd \in Nat
        /\ cursor..chunkEnd \subseteq Heights /\ nulled \subseteq Heights
    BY <2>1 DEF IInv, PositionInv, TypeOK
  <2>3. nulled' \subseteq Heights
    BY <1>2, <2>2 DEF FetchLogs, FetchNothing
  <2>4. \A b \in Feed!HandedOn : b \in nulled' <=> b \in nulled
    <3> SUFFICES ASSUME NEW b \in Heights, b <= last PROVE b \in nulled' <=> b \in nulled
      BY DEF Feed!HandedOn
    <3>1. b \notin cursor..chunkEnd
      BY <2>2
    <3> QED BY <3>1, <1>2 DEF FetchLogs, FetchNothing
  <2> QED BY <2>1, <2>3, <2>4, <1>0 DEF Feed!Next, Feed!Excuse, Stored
<1>3. CASE Stamp \/ UpsertWallets \/ SendOversize
  <2>1. UNCHANGED <<last, start, rows, announced, nulled>>
    BY <1>3 DEF Stamp, UpsertWallets, SendOversize
  <2> QED BY <2>1, <1>0 DEF Feed!feed, Stored
<1>4. ASSUME pc = "insert", rows' = Inserted, UNCHANGED <<last, start, announced, nulled>>
      PROVE  [Feed!Next]_Feed!feed
  <2>1. Stored \subseteq Stored' /\ Stored' \subseteq Transfers
    BY <1>4, InsertedType DEF Inserted, Stored, TypeOK, Row
  <2> QED BY <1>4, <2>1, <1>0 DEF Feed!Next, Feed!Store
<1>5. ASSUME pc = "send", NEW t \in toSend, announced' = announced \union {t},
             UNCHANGED <<last, start, rows, nulled>>
      PROVE  [Feed!Next]_Feed!feed
  <2>1. announced' \subseteq Stored /\ Stored' = Stored
    BY <1>5 DEF IInv, StageInv, TableInv, TypeOK, Stored
  <2> QED BY <1>5, <2>1, <1>0 DEF Feed!Next, Feed!Announce
<1>6. CASE InsertTransfers
  BY <1>4, <1>6 DEF InsertTransfers
<1>7. CASE \E t \in Transfers : Send(t)
  <2>1. PICK t \in Transfers : Send(t)
    BY <1>7
  <2> QED BY <1>5, <2>1 DEF Send
<1>8. CASE Advance
  <2>1. /\ UNCHANGED <<start, tables, nulled>> /\ pc = "advance" /\ last' = chunkEnd
    BY <1>8 DEF Advance
  <2>2. last \in Heights /\ cursor = last + 1 /\ cursor <= chunkEnd /\ chunkEnd \in Nat
    BY <2>1 DEF IInv, PositionInv, TypeOK
  <2>3. \A b \in Heights : last < b /\ b <= chunkEnd => b \in nulled \/ Content(b) \ Malformed \subseteq announced
    <3> SUFFICES ASSUME NEW b \in Heights, last < b, b <= chunkEnd
                 PROVE  b \in nulled \/ Content(b) \ Malformed \subseteq announced
      OBVIOUS
    <3>1. InChunk(b)
      BY <2>2 DEF InChunk
    <3> QED BY <3>1, <2>1 DEF IInv, StageInv, Delivered
  <2>4. last >= 0 /\ last' > last
    BY <2>1, <2>2
  <2>5. UNCHANGED <<start, announced, nulled, Stored>>
    BY <2>1 DEF Stored
  <2>6. Feed!Advance
    BY <2>1, <2>3, <2>4, <2>5, <1>0 DEF Feed!Advance
  <2> QED BY <2>6 DEF Feed!Next
<1>9. CASE CallFails
  <2>1. UNCHANGED <<last, start, nulled>>
    BY <1>9 DEF CallFails
  <2>2. CASE UNCHANGED <<rows, announced>>
    BY <2>1, <2>2, <1>0 DEF Feed!feed, Stored
  <2> QED BY <1>4, <1>5, <1>9, <2>1, <2>2 DEF CallFails
<1> QED
  BY <1>1, <1>2, <1>3, <1>6, <1>7, <1>8, <1>9 DEF Loop

\* The loop implements the feed it promises: stored before announced, at least
\* once, in front of the position.
THEOREM Refinement == Spec => FeedSpec
<1>1. Init => Feed!Init
  <2> SUFFICES ASSUME Init PROVE Feed!Init OBVIOUS
  <2>1. \A b \in Heights : Content(b) \ Malformed \subseteq Transfers
    BY DEF Init, Content
  <2> QED BY <2>1 DEF Init, Feed!Init, Stored
<1>2. TypeOK /\ IInv /\ TypeOK' /\ [Next]_vars => [Feed!Next]_Feed!feed
  <2> SUFFICES ASSUME TypeOK, IInv, TypeOK', [Next]_vars PROVE [Feed!Next]_Feed!feed OBVIOUS
  <2>1. CASE Loop
    BY <2>1, LoopRefines
  <2>2. CASE Restart
    <3>1. UNCHANGED <<chain, tables, start, nulled>> /\ last' = file' /\ file' \in {file, None}
      BY <2>2 DEF Restart
    <3>2. last' <= last /\ (last' = -1 \/ (start <= last' /\ 0 <= last'))
      BY <3>1 DEF IInv, PositionInv, TypeOK
    <3> QED BY <3>1, <3>2 DEF Feed!Next, Feed!FallBack, Stored, Content
  <2>3. CASE Mine
    BY <2>3 DEF Mine, Feed!feed, Stored, Content
  <2>4. CASE Reorg
    <3>1. UNCHANGED <<last, start, tables, nulled>> /\ canon' \in [Heights -> Variants]
      BY <2>4 DEF Reorg
    <3>2. \A b \in Heights : Content(b)' \ Malformed \subseteq Transfers
      BY <3>1 DEF Content
    <3>3. \A b \in Feed!HandedOn : canon'[b] = canon[b]
      <4> SUFFICES ASSUME NEW b \in Heights, start < b, b <= last PROVE canon'[b] = canon[b]
        BY DEF Feed!HandedOn
      <4>1. b <= head - Depth
        BY DEF IInv, PositionInv, Final, TypeOK
      <4> QED BY <4>1, <2>4 DEF Reorg
    <3>4. Feed!Reorganise
      BY <3>1, <3>2, <3>3 DEF Feed!Reorganise, Feed!HandedOn, Content, Stored
    <3> QED BY <3>4 DEF Feed!Next
  <2>5. CASE UNCHANGED vars
    BY <2>5 DEF Feed!feed, Stored, Content
  <2> QED BY <2>1, <2>2, <2>3, <2>4, <2>5 DEF Next
<1> QED
  BY <1>1, <1>2, Inductive, PTL DEF Spec, FeedSpec, Feed!Spec

=============================================================================
