--------------------------- MODULE ChainCollector ---------------------------
(***************************************************************************)
(* services/chain-collector: chain_loop follows the head of the chain at a *)
(* safe distance, fetches the Transfer logs of one chunk of blocks at a    *)
(* time, writes them to chain_transfers, announces them on the bus, notes  *)
(* their wallets and only then moves its position, in memory and in a      *)
(* state file.  Every call to the node, the database or the bus is an      *)
(* await that may raise; an exception sends the loop back to the top with  *)
(* the last position kept.  The process may die between any two of them.   *)
(***************************************************************************)
EXTENDS Integers, FiniteSets

CONSTANTS
  Transfers,      \* log entries, by (transaction hash, log index)
  Variants,       \* the different blocks a height can hold across forks
  LogsOf(_, _),   \* (height, variant) -> set of its transfers
  Malformed,      \* logs _parse_log returns None for
  Oversize,       \* transfers whose raw amount orjson cannot serialise
  Depth,          \* SAFE_REORG_DEPTH
  MaxRange,       \* MAX_BLOCK_RANGE
  StartHead,      \* height of the chain at the start
  MaxHead,        \* bound: height of the chain
  MaxFaults,      \* bound: raising or wrong calls
  MaxRestarts     \* bound: process deaths

Heights == 1..MaxHead
None    == -1           \* last_block = None; a missing or unreadable state file

ASSUME ChainAssumption ==
  /\ \A b \in Heights, v \in Variants : LogsOf(b, v) \subseteq Transfers
  /\ Variants \subseteq Nat
  /\ Depth \in Nat /\ MaxRange \in Nat \ {0}
  /\ StartHead \in Nat \ {0} /\ MaxHead \in Nat /\ StartHead <= MaxHead
  /\ MaxFaults \in Nat /\ MaxRestarts \in Nat

VARIABLES
  head,       \* height of the chain
  canon,      \* the variant each height holds now
  pc,         \* the await chain_loop stands at
  last,       \* last_block
  headSeen,   \* head, as the node answered
  cursor, chunkEnd,
  raw,        \* raw_logs, as <<height, transfer>>
  batch,      \* transfers: the rows about to be written
  toSend,     \* those not sent yet
  file,       \* last_block in the state file
  rows,       \* table chain_transfers
  announced,  \* transfers the bus has accepted
  wallets,    \* transfers whose wallets are in table wallets
  start,      \* where the loop began when it had no position (ghost)
  nulled,     \* heights passed on an empty answer for logs (ghost)
  faults, restarts

chain  == <<head, canon>>
chunk  == <<headSeen, cursor, chunkEnd>>
work   == <<raw, batch, toSend>>
tables == <<rows, announced, wallets>>
vars   == <<chain, pc, last, chunk, work, file, tables, start, nulled, faults, restarts>>

Content(b) == LogsOf(b, canon[b])
Stored     == {r.t : r \in rows}
Smaller(i, j) == IF i < j THEN i ELSE j
Larger(i, j)  == IF i < j THEN j ELSE i

\* a transaction is in one block of a chain
OneBlockEach(chosen) ==
  \A b, c \in Heights : b # c => LogsOf(b, chosen[b]) \intersect LogsOf(c, chosen[c]) = {}

Init ==
  /\ head = StartHead
  /\ canon \in [Heights -> Variants] /\ OneBlockEach(canon)
  /\ pc = "poll" /\ last = None
  /\ headSeen = 0 /\ cursor = 0 /\ chunkEnd = 0
  /\ raw = {} /\ batch = {} /\ toSend = {}
  /\ file = None
  /\ rows = {} /\ announced = {} /\ wallets = {}
  /\ start = None /\ nulled = {}
  /\ faults = 0 /\ restarts = 0

-----------------------------------------------------------------------------
(* The chain (external): it grows, and a fork replaces at most the last    *)
(* Depth blocks.  canon also names what heights above head will hold.      *)

Mine ==
  /\ head < MaxHead
  /\ head' = head + 1
  /\ UNCHANGED <<canon, pc, last, chunk, work, file, tables, start, nulled, faults, restarts>>

Reorg ==
  /\ canon' \in [Heights -> Variants]
  /\ \A b \in Heights : b <= head - Depth => canon'[b] = canon[b]
  /\ OneBlockEach(canon')
  /\ UNCHANGED <<head, pc, last, chunk, work, file, tables, start, nulled, faults, restarts>>

-----------------------------------------------------------------------------
(* chain_loop                                                              *)

Fault == faults < MaxFaults /\ faults' = faults + 1

\* Mutant: the try block outside the while loop.
LeaveLoop ==
  /\ pc' = "stopped"
  /\ raw' = {} /\ batch' = {} /\ toSend' = {}

\* `except Exception`: log, sleep, poll again; the locals are assigned afresh
BackToPoll ==
  /\ pc' = "poll"
  /\ raw' = {} /\ batch' = {} /\ toSend' = {}

HeadItself(h) == h                       \* mutant: no distance kept
SafeHead(h) == h - Depth                 \* head - SAFE_REORG_DEPTH

\* Mutant: one block too many per chunk.
EnterLoopWide(c, h) ==
  /\ cursor' = c
  /\ raw' = {} /\ batch' = {} /\ toSend' = {}
  /\ IF c <= SafeHead(h)
       THEN pc' = "logs" /\ chunkEnd' = Smaller(c + MaxRange, SafeHead(h))
       ELSE pc' = "poll" /\ UNCHANGED chunkEnd

\* the test of the inner while, and the bounds of the next chunk
EnterLoop(c, h) ==
  /\ cursor' = c
  /\ raw' = {} /\ batch' = {} /\ toSend' = {}
  /\ IF c <= SafeHead(h)
       THEN pc' = "logs" /\ chunkEnd' = Smaller(c + MaxRange - 1, SafeHead(h))
       ELSE pc' = "poll" /\ UNCHANGED chunkEnd

\* eth_blockNumber answers; a node that lags behind is one of the faults.
PollHead ==
  /\ pc = "poll"
  /\ \E h \in Heights :
       /\ h <= head
       /\ IF h = head THEN UNCHANGED faults ELSE Fault
       /\ headSeen' = h
       /\ last'  = IF last = None THEN Larger(h - Depth, 1) ELSE last
       /\ start' = IF last = None THEN last' ELSE start
       /\ EnterLoop(last' + 1, h)
  /\ UNCHANGED <<chain, file, tables, nulled, restarts>>

\* Mutants: the position in memory, or in the file, moves before the chunk is done.
FetchLogsMoving ==
  /\ pc = "logs"
  /\ raw' = {e \in (cursor..chunkEnd) \X Transfers : e[2] \in Content(e[1])}
  /\ pc' = IF raw' = {} THEN "advance" ELSE "stamp"
  /\ last' = chunkEnd
  /\ nulled' = nulled \ (cursor..chunkEnd)
  /\ UNCHANGED <<chain, chunk, batch, toSend, file, tables, start, faults, restarts>>

FetchLogsSaving ==
  /\ pc = "logs"
  /\ raw' = {e \in (cursor..chunkEnd) \X Transfers : e[2] \in Content(e[1])}
  /\ pc' = IF raw' = {} THEN "advance" ELSE "stamp"
  /\ file' = chunkEnd
  /\ nulled' = nulled \ (cursor..chunkEnd)
  /\ UNCHANGED <<chain, last, chunk, batch, toSend, tables, start, faults, restarts>>

FetchLogs ==
  /\ pc = "logs"
  /\ raw' = {e \in (cursor..chunkEnd) \X Transfers : e[2] \in Content(e[1])}
  /\ pc' = IF raw' = {} THEN "advance" ELSE "stamp"
  /\ nulled' = nulled \ (cursor..chunkEnd)
  /\ UNCHANGED <<chain, last, chunk, batch, toSend, file, tables, start, faults, restarts>>

\* rpc_call returns a null result, or a lagging replica an empty list: falsy
\* either way (line 175), so the chunk is passed over as if it held nothing.
FetchNothing ==
  /\ pc = "logs" /\ Fault
  /\ pc' = "advance"
  /\ nulled' = nulled \union (cursor..chunkEnd)
  /\ UNCHANGED <<chain, last, chunk, work, file, tables, start, restarts>>

\* a block's own time, the wall clock of one attempt, 1970
TimeOfHead(b) == [kind |-> "block", n |-> headSeen, v |-> canon[headSeen]]  \* mutant: of the latest block
BlockTime(b) == [kind |-> "block", n |-> b, v |-> canon[b]]
NowTime      == [kind |-> "now", n |-> faults, v |-> None]
EpochTime    == [kind |-> "epoch", n |-> 0, v |-> None]

RowOf(t, b, late, null) ==
  [t |-> t, block |-> b,
   time |-> IF b \in null THEN EpochTime ELSE IF b \in late THEN NowTime ELSE BlockTime(b)]

\* One timestamp per block: the block's own, the wall clock when the call
\* raises, the epoch when the node answers null.  Malformed logs drop out.
Stamp ==
  /\ pc = "stamp"
  /\ \E late \in SUBSET {e[1] : e \in raw} : \E null \in SUBSET late :
       /\ IF late = {} THEN UNCHANGED faults ELSE Fault
       /\ batch' = {RowOf(e[2], e[1], late, null) : e \in {f \in raw : f[2] \notin Malformed}}
  /\ pc' = IF batch' = {} THEN "advance" ELSE "insert"
  /\ UNCHANGED <<chain, last, chunk, raw, toSend, file, tables, start, nulled, restarts>>

\* PRIMARY KEY (time, chain, tx_hash, log_index), ON CONFLICT DO NOTHING
Inserted == rows \union {r \in batch : ~\E q \in rows : q.t = r.t /\ q.time = r.time}

InsertTransfers ==
  /\ pc = "insert"
  /\ rows' = Inserted
  /\ toSend' = {r.t : r \in batch}
  /\ pc' = "send"
  /\ UNCHANGED <<chain, last, chunk, raw, batch, file, announced, wallets, start, nulled,
                 faults, restarts>>

Send(t) ==
  /\ pc = "send" /\ t \in toSend \ Oversize
  /\ announced' = announced \union {t}
  /\ toSend' = toSend \ {t}
  /\ pc' = IF toSend' = {} THEN "wallets" ELSE "send"
  /\ UNCHANGED <<chain, last, chunk, raw, batch, file, rows, wallets, start, nulled,
                 faults, restarts>>

UpsertWallets ==
  /\ pc = "wallets"
  /\ wallets' = wallets \union {r.t : r \in batch}
  /\ pc' = "advance"
  /\ UNCHANGED <<chain, last, chunk, work, file, rows, announced, start, nulled, faults,
                 restarts>>

\* The position moves; the state file is rewritten by truncating it first, and
\* an error there is suppressed: the old text may survive, or none.
Advance ==
  /\ pc = "advance"
  /\ last' = chunkEnd
  /\ \/ file' = chunkEnd /\ UNCHANGED faults
     \/ file' \in {file, None} /\ Fault
  /\ EnterLoop(chunkEnd + 1, headSeen)
  /\ UNCHANGED <<chain, headSeen, tables, start, nulled, restarts>>

\* Mutant: a chunk that fails is given up.
CallFailsSkipping ==
  /\ Fault /\ BackToPoll
  /\ pc \in {"logs", "insert", "send", "wallets"}
  /\ last' = chunkEnd
  /\ UNCHANGED <<chain, chunk, file, tables, start, nulled, restarts>>

\* A call raises.  What it asked for may have happened all the same.
CallFails ==
  /\ Fault /\ BackToPoll
  /\ \/ pc \in {"poll", "logs"} /\ UNCHANGED tables
     \/ pc = "insert"  /\ rows' \in {rows, Inserted} /\ UNCHANGED <<announced, wallets>>
     \/ pc = "send"    /\ \E t \in toSend \ Oversize :
                            announced' \in {announced, announced \union {t}}
                       /\ UNCHANGED <<rows, wallets>>
     \/ pc = "wallets" /\ wallets' \in {wallets, wallets \union {r.t : r \in batch}}
                       /\ UNCHANGED <<rows, announced>>
  /\ UNCHANGED <<chain, last, chunk, file, start, nulled, restarts>>

\* The serialiser of the bus raises, on every attempt.
SendOversize ==
  /\ pc = "send" /\ toSend \intersect Oversize # {}
  /\ BackToPoll
  /\ UNCHANGED <<chain, last, chunk, file, tables, start, nulled, faults, restarts>>

\* The process dies and compose starts it again; dying while it writes the
\* state file leaves the file truncated.  A truncated file reads as None.
Restart ==
  /\ restarts < MaxRestarts
  /\ restarts' = restarts + 1
  /\ BackToPoll
  /\ file' = file \/ (pc = "advance" /\ file' = None)
  /\ last' = file'
  /\ headSeen' = 0 /\ cursor' = 0 /\ chunkEnd' = 0
  /\ UNCHANGED <<chain, tables, start, nulled, faults>>

Loop ==
  \/ PollHead \/ FetchLogs \/ FetchNothing \/ Stamp \/ InsertTransfers
  \/ (\E t \in Transfers : Send(t)) \/ UpsertWallets \/ Advance
  \/ CallFails \/ SendOversize

Next == Loop \/ Restart \/ Mine \/ Reorg

Spec == Init /\ [][Next]_vars

\* The loop is never blocked for good: every call ends, with an answer or with
\* an exception (timeout=20 on the node, command_timeout=30 on the database).
FairSpec == Spec /\ WF_vars(Loop)

-----------------------------------------------------------------------------
(* Properties                                                              *)

Times == [kind : {"block", "now", "epoch"}, n : Nat, v : Variants \union {None}]
Row   == [t : Transfers, block : Heights, time : Times]

\* Types; a request for logs spans at most MaxRange blocks, none of them closer
\* to the head than the safe distance.
TypeOK ==
  /\ head \in Heights /\ canon \in [Heights -> Variants]
  /\ pc \in {"poll", "logs", "stamp", "insert", "send", "wallets", "advance"}
  /\ {last, file, start} \subseteq Heights \union {None}
  /\ headSeen \in 0..MaxHead /\ cursor \in Nat /\ chunkEnd \in Nat
  /\ pc # "poll" => /\ 1 <= cursor /\ chunkEnd <= headSeen - Depth
                    /\ chunkEnd \in cursor..(cursor + MaxRange - 1)
  /\ raw \subseteq Heights \X Transfers
  /\ batch \subseteq Row /\ toSend \subseteq Transfers
  /\ rows \subseteq Row /\ announced \subseteq Transfers /\ wallets \subseteq Transfers
  /\ nulled \subseteq Heights
  /\ faults \in Nat /\ restarts \in Nat

\* Everything the loop owes for height b has been done.
Delivered(b) ==
  \/ b \in nulled
  \/ Content(b) \ Malformed \subseteq Stored \intersect announced \intersect wallets

\* From where the loop began up to its position no transfer is missing from the
\* table, the bus or the wallets, whatever failed, died or forked on the way;
\* only an empty answer of the node makes it pass a block (lines 171-226).
NoGap == \A b \in Heights : start < b /\ b <= last => Delivered(b)

\* The state file is never ahead of the work done, so that a restart repeats
\* blocks and does not lose any (lines 223-226 come after the writes).
CheckpointBehind ==
  file # None => /\ start <= file
                 /\ \A b \in Heights : start < b /\ b <= file => Delivered(b)

\* Every row is of a block of the present chain: a fork never orphans a row.
StoredIsCanonical == \A r \in rows : r.t \in Content(r.block)

\* A transfer is stored twice only with the help of a stand-in timestamp: the
\* time is part of the key, and a retry stamps anew (lines 183-185).
StoredOnce ==
  \A q, r \in rows : q.t = r.t /\ q # r => q.time.kind # "block" \/ r.time.kind # "block"

\* The loop catches up with every height the chain reaches.
OversizeAhead ==
  \E b \in (last + 1)..Smaller(last + MaxRange, head - Depth) :
    last # None /\ Content(b) \intersect Oversize # {}
CatchesUp == \A h \in Heights : (head >= h) ~> (last >= h - Depth \/ OversizeAhead)

\* The loop implements the feed: at-least-once, stored before announced.
Feed == INSTANCE TransferFeed WITH
  Blocks <- Heights, content <- [b \in Heights |-> Content(b) \ Malformed],
  from <- start, position <- last, stored <- Stored, excused <- nulled
FeedSpec == Feed!Spec

=============================================================================
