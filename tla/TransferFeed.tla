---------------------------- MODULE TransferFeed ----------------------------
(***************************************************************************)
(* What the chain collector promises the rest of the pipeline: the blocks  *)
(* from `from`+1 to `position` have been handed on, each of their transfers *)
(* stored and announced at least once, in any order and with repetitions.  *)
(* A block may be excused; a lost position makes the feed begin elsewhere. *)
(***************************************************************************)
EXTENDS Integers

CONSTANTS Blocks, Transfers

VARIABLES
  content,    \* the transfers each block holds now
  from,       \* the feed began after this block
  position,   \* it has handed on everything up to here; -1: it does not know
  stored,     \* transfers in the table
  announced,  \* transfers sent to subscribers
  excused     \* blocks handed on without their transfers

feed == <<content, from, position, stored, announced, excused>>

HandedOn == {b \in Blocks : from < b /\ b <= position}

Init ==
  /\ content \in [Blocks -> SUBSET Transfers]
  /\ from = -1 /\ position = -1
  /\ stored = {} /\ announced = {} /\ excused = {}

\* Only blocks that are not handed on change.
Reorganise ==
  /\ content' \in [Blocks -> SUBSET Transfers]
  /\ \A b \in HandedOn : content'[b] = content[b]
  /\ UNCHANGED <<from, position, stored, announced, excused>>

\* Nothing is announced before it is stored.
Store ==
  /\ stored \subseteq stored' /\ stored' \subseteq Transfers
  /\ UNCHANGED <<content, from, position, announced, excused>>

Announce ==
  /\ announced \subseteq announced' /\ announced' \subseteq stored
  /\ UNCHANGED <<content, from, position, stored, excused>>

Excuse ==
  /\ excused' \subseteq Blocks
  /\ \A b \in HandedOn : b \in excused' <=> b \in excused
  /\ UNCHANGED <<content, from, position, stored, announced>>

Advance ==
  /\ position >= 0 /\ position' > position
  /\ \A b \in Blocks : position < b /\ b <= position' =>
       b \in excused \/ content[b] \subseteq announced
  /\ UNCHANGED <<content, from, stored, announced, excused>>

\* A restart falls back to a position it has passed, or forgets it.
FallBack ==
  /\ position' <= position
  /\ position' = -1 \/ (from <= position' /\ 0 <= position')
  /\ UNCHANGED <<content, from, stored, announced, excused>>

Begin ==
  /\ position = -1
  /\ position' \in Nat /\ from' = position'
  /\ UNCHANGED <<content, stored, announced, excused>>

Next == Reorganise \/ Store \/ Announce \/ Excuse \/ Advance \/ FallBack \/ Begin

Spec == Init /\ [][Next]_feed

=============================================================================
