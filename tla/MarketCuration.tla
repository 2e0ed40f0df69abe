--------------------------- MODULE MarketCuration ---------------------------
(***************************************************************************)
(* services/market-collector and the gate of apps/honesty-layer.           *)
(* Four tasks of the collector share the table markets: one copies Gamma's *)
(* open markets into it, one rebuilds the curated basket from it, one      *)
(* reads the basket as the websocket's target, one holds the websocket.    *)
(* Another process, the honesty layer, takes thin markets out of the       *)
(* basket.  The basket is rebuilt in separate statements, each its own     *)
(* transaction, so the others see it half built.  The column basket is     *)
(* left out: it is written with curated and decides nothing.               *)
(***************************************************************************)
EXTENDS Integers, FiniteSets, Sequences, Functions

CONSTANTS
  Markets,
  Geo,          \* markets that is_geopolitical accepts
  Figures,      \* [liq, vol24, vol] of a listing, each an amount or Null
  Limit,        \* limit=25
  LiqMin,       \* DEFAULT_LIQ_MIN, also the honesty layer's 1000
  VolMin,       \* DEFAULT_VOL_MIN, also the honesty layer's 500
  MaxChanges,   \* bound: changes of Gamma's listings
  MaxFaults,    \* bound: raising calls and broken pages
  MaxRestarts   \* bound: deaths of the collector

Null == -1
Listings == {[closed |-> c, liq |-> f.liq, vol24 |-> f.vol24, vol |-> f.vol] :
               c \in BOOLEAN, f \in Figures}

ASSUME CurationAssumption ==
  /\ Geo \subseteq Markets
  /\ \A f \in Figures : {f.liq, f.vol24, f.vol} \subseteq Nat \union {Null}
  /\ Limit \in Nat /\ LiqMin \in Nat /\ VolMin \in Nat
  /\ MaxChanges \in Nat /\ MaxFaults \in Nat /\ MaxRestarts \in Nat

VARIABLES
  gamma,       \* what Gamma lists: market -> listing
  rows,        \* table markets: market -> listing, for the markets it has
  curated,     \* markets whose column curated is TRUE
  file,        \* condition ids in curated_markets.json
  up,          \* the tasks are running
  gpc, fetched,        \* gamma_sync_loop (and main before the tasks): its answer
  cpc, read, chosen,   \* curation_loop: the rows it read, what it has still to mark
  target,      \* state["asset_ids"], by market
  subscribed,  \* markets of the open websocket, {} without one
  basis,       \* the rows that the latest reset was decided on (ghost)
  changes, faults, restarts

sync   == <<gpc, fetched>>
cure   == <<cpc, read, chosen>>
socket == <<target, subscribed>>
vars == <<gamma, rows, curated, file, up, sync, cure, socket, basis, changes, faults, restarts>>

NoRows == [m \in {} |-> m]

Init ==
  /\ gamma \in [Markets -> {l \in Listings : ~l.closed}]
  /\ rows = NoRows /\ curated = {} /\ file = {} /\ up = FALSE
  /\ gpc = "fetch" /\ fetched = NoRows
  /\ cpc = "select" /\ read = NoRows /\ chosen = <<>>
  /\ target = {} /\ subscribed = {} /\ basis = NoRows
  /\ changes = 0 /\ faults = 0 /\ restarts = 0

Fault == faults < MaxFaults /\ faults' = faults + 1

-----------------------------------------------------------------------------
(* Gamma (external): figures move, and a market closes for good.           *)

Change(m) ==
  /\ changes < MaxChanges /\ changes' = changes + 1
  /\ ~gamma[m].closed
  /\ \E l \in Listings : gamma' = [gamma EXCEPT ![m] = l]
  /\ UNCHANGED <<rows, curated, file, up, sync, cure, socket, basis, faults, restarts>>

-----------------------------------------------------------------------------
(* sync_gamma_once and upsert_markets, by main and then by gamma_sync_loop *)

Open == {m \in Markets : ~gamma[m].closed}

Fetch ==
  /\ gpc = "fetch"
  /\ \/ fetched' = [m \in Open |-> gamma[m]] /\ UNCHANGED faults
     \/ /\ Fault       \* a page fails, or the offsets have moved: some are missing
        /\ \E S \in SUBSET Open : fetched' = [m \in S |-> gamma[m]]
  /\ IF fetched' = NoRows THEN gpc' = "fetch" /\ up' = TRUE
                          ELSE gpc' = "upsert" /\ UNCHANGED up
  /\ UNCHANGED <<gamma, rows, curated, file, cure, socket, basis, changes, restarts>>

\* ON CONFLICT: every column but curated is the fetched one.
Upserted == [m \in DOMAIN rows \union DOMAIN fetched |->
               IF m \in DOMAIN fetched THEN fetched[m] ELSE rows[m]]

\* One transaction.  Once main has made it, it starts the tasks.
Upsert ==
  /\ gpc = "upsert"
  /\ rows' = Upserted
  /\ gpc' = "fetch" /\ fetched' = NoRows /\ up' = TRUE
  /\ UNCHANGED <<gamma, curated, file, cure, socket, basis, changes, faults, restarts>>

\* The task logs it and sleeps; main dies of it, and is started again.
UpsertFails ==
  /\ gpc = "upsert" /\ Fault
  /\ rows' \in {rows, Upserted}
  /\ gpc' = "fetch" /\ fetched' = NoRows
  /\ UNCHANGED <<gamma, curated, file, up, cure, socket, basis, changes, restarts>>

-----------------------------------------------------------------------------
(* curation.py                                                             *)

\* `volume_24h or volume_total`
Vol(l) == IF l.vol24 \in {Null, 0} THEN l.vol ELSE l.vol24

PassesLiquidityGate(l) ==
  /\ l.liq # Null \/ Vol(l) # Null
  /\ l.liq = Null \/ l.liq >= LiqMin \/ (Vol(l) # Null /\ Vol(l) >= VolMin * 4)

OrZero(x) == IF x = Null THEN 0 ELSE x
Above(l, k) == \/ OrZero(l.liq) > OrZero(k.liq)
               \/ OrZero(l.liq) = OrZero(k.liq) /\ OrZero(l.vol24) > OrZero(k.vol24)

Candidates(t) == {m \in DOMAIN t : ~t[m].closed /\ m \in Geo /\ PassesLiquidityGate(t[m])}

\* The baskets select_curated_markets can make of a table: the first Limit of
\* its candidates; equals come in the order the database returns them.
Selections(t) ==
  {s \in UNION {[1..n -> Candidates(t)] : n \in 0..Limit} :
     /\ \A i, j \in DOMAIN s : i < j => s[i] # s[j] /\ ~Above(t[s[j]], t[s[i]])
     /\ \A m \in Candidates(t) \ Range(s) :
          Len(s) = Limit /\ \A i \in DOMAIN s : ~Above(t[m], t[s[i]])}

\* curation_loop up to its second await: read, select, write the file.
Select ==
  /\ up /\ cpc = "select"
  /\ chosen' \in Selections(rows)
  /\ read' = rows /\ file' = Range(chosen')
  /\ cpc' = "reset"
  /\ UNCHANGED <<gamma, rows, curated, up, sync, socket, basis, changes, faults, restarts>>

\* Mutant: the statement that resets the basket is missing.
ResetNothing ==
  /\ cpc = "reset"
  /\ basis' = read
  /\ cpc' = IF chosen = <<>> THEN "select" ELSE "mark"
  /\ read' = NoRows
  /\ UNCHANGED <<gamma, rows, curated, file, up, sync, chosen, socket, changes, faults, restarts>>

Reset ==
  /\ cpc = "reset"
  /\ curated' = {} /\ basis' = read
  /\ cpc' = IF chosen = <<>> THEN "select" ELSE "mark"
  /\ read' = NoRows
  /\ UNCHANGED <<gamma, rows, file, up, sync, chosen, socket, changes, faults, restarts>>

\* Mutant: the loop over the selection never ends.
MarkPastEnd ==
  /\ cpc = "mark"
  /\ curated' = curated \union {Head(chosen)}
  /\ chosen' = Tail(chosen)
  /\ UNCHANGED <<gamma, rows, file, up, sync, cpc, read, socket, basis, changes, faults, restarts>>

Mark ==
  /\ cpc = "mark"
  /\ curated' = curated \union {Head(chosen)}
  /\ chosen' = Tail(chosen)
  /\ cpc' = IF chosen' = <<>> THEN "select" ELSE "mark"
  /\ UNCHANGED <<gamma, rows, file, up, sync, read, socket, basis, changes, faults, restarts>>

\* Mutant: the exception is caught outside the loop.
CurationEnds ==
  /\ up /\ Fault
  /\ cpc' = "ended" /\ chosen' = <<>> /\ read' = NoRows
  /\ cpc # "ended"
  /\ UNCHANGED <<gamma, rows, curated, file, basis, up, sync, socket, changes, restarts>>

\* A statement, or the file, raises; what it asked for may have happened.  The
\* basket stays as it is until the next round.
CurationFails ==
  /\ up /\ Fault
  /\ \/ /\ cpc = "select"
        /\ \/ UNCHANGED file
           \/ \E s \in Selections(rows) : file' = Range(s)
        /\ UNCHANGED <<curated, basis>>
     \/ /\ cpc = "reset"
        /\ \/ UNCHANGED <<curated, basis>>
           \/ curated' = {} /\ basis' = read
        /\ UNCHANGED file
     \/ /\ cpc = "mark"
        /\ curated' \in {curated, curated \union {Head(chosen)}}
        /\ UNCHANGED <<file, basis>>
  /\ cpc' = "select" /\ chosen' = <<>> /\ read' = NoRows
  /\ UNCHANGED <<gamma, rows, up, sync, socket, changes, restarts>>

-----------------------------------------------------------------------------
(* The websocket: refresh_curated_for_ws and run_ws_loop                   *)

\* Mutant: the target is read once.
RefreshTargetOnce ==
  /\ up /\ target = {}
  /\ target' = curated
  /\ UNCHANGED <<gamma, rows, curated, file, up, sync, cure, subscribed, basis, changes, faults, restarts>>

\* `curated = TRUE AND active = TRUE`: Gamma is only asked for active markets.
RefreshTarget ==
  /\ up
  /\ target' = curated
  /\ UNCHANGED <<gamma, rows, curated, file, up, sync, cure, subscribed, basis, changes, faults, restarts>>

Connect ==
  /\ up /\ subscribed = {} /\ target # {}
  /\ subscribed' = target
  /\ UNCHANGED <<gamma, rows, curated, file, up, sync, cure, target, basis, changes, faults, restarts>>

\* The refresh budget is spent, the socket closes, or a call raises.
Disconnect ==
  /\ subscribed # {}
  /\ subscribed' = {}
  /\ UNCHANGED <<gamma, rows, curated, file, up, sync, cure, target, basis, changes, faults, restarts>>

-----------------------------------------------------------------------------
(* thin_market_gates of the honesty layer: one statement.                  *)

Thin(l) == /\ l.liq = Null \/ l.liq < LiqMin
           /\ l.vol24 = Null \/ l.vol24 < VolMin

GateThin ==
  /\ curated' = {m \in curated : ~Thin(rows[m])}
  /\ UNCHANGED <<gamma, rows, file, up, sync, cure, socket, basis, changes, faults, restarts>>

\* The collector dies and is started again.
Restart ==
  /\ restarts < MaxRestarts /\ restarts' = restarts + 1
  /\ up' = FALSE /\ gpc' = "fetch" /\ fetched' = NoRows
  /\ cpc' = "select" /\ read' = NoRows /\ chosen' = <<>>
  /\ target' = {} /\ subscribed' = {}
  /\ UNCHANGED <<gamma, rows, curated, file, basis, changes, faults>>

Sync == Fetch \/ Upsert \/ UpsertFails
Curate == Select \/ Reset \/ Mark \/ CurationFails

Next ==
  \/ (\E m \in Markets : Change(m))
  \/ Sync \/ Curate \/ RefreshTarget \/ Connect \/ Disconnect \/ GateThin \/ Restart

Spec == Init /\ [][Next]_vars

\* Each task runs again after its sleep.  A rebuild of the basket is over long
\* before the next of the five target refreshes that fall between two of them.
FairSpec ==
  /\ Spec
  /\ WF_vars(Sync) /\ WF_vars(Curate)
  /\ SF_vars(RefreshTarget /\ cpc = "select") /\ WF_vars(Connect) /\ WF_vars(Disconnect)

-----------------------------------------------------------------------------
(* Properties                                                              *)

Tables == UNION {[S -> Listings] : S \in SUBSET Markets}

TypeOK ==
  /\ gamma \in [Markets -> Listings] /\ rows \in Tables
  /\ curated \subseteq DOMAIN rows /\ file \subseteq Markets
  /\ up \in BOOLEAN
  /\ gpc \in {"fetch", "upsert"} /\ fetched \in Tables
  /\ cpc \in {"select", "reset", "mark"} /\ read \in Tables /\ basis \in Tables
  /\ chosen \in Seq(DOMAIN rows) /\ (cpc = "mark" => chosen # <<>>)
  /\ target \subseteq Markets /\ subscribed \subseteq Markets
  /\ changes \in Nat /\ faults \in Nat /\ restarts \in Nat

\* Whatever fails, dies or runs in between, the basket is part of one selection,
\* made of one read of the table: never the remains of two, never more than
\* Limit markets, never one off topic (lines 407-421).
BasketIsOneSelection == \E s \in Selections(basis) : curated \subseteq Range(s)

\* A Gamma sync never moves a market into or out of the basket, although it
\* writes the same rows (upsert_markets: curated = markets.curated).
SyncKeepsBasket == [][rows' # rows => curated' = curated]_vars

\* The basket and the file are brought back to what the table selects, again
\* and again, whatever has failed before; the honesty layer may have taken thin
\* markets out by then.
BasketFollows ==
  []<>(\E s \in Selections(rows) :
         /\ curated \subseteq Range(s) /\ file = Range(s)
         /\ \A m \in Range(s) \ curated : Thin(rows[m]))

\* A market that every selection takes and the gate keeps comes back to the
\* websocket's target again and again.
Settled(m) == m \in DOMAIN rows /\ ~Thin(rows[m]) /\ \A s \in Selections(rows) : m \in Range(s)
TargetFollows == \A m \in Markets : <>[]Settled(m) => []<>(m \in target)

\* "closed_excluded": a market that has closed leaves the basket for good.
ClosedLeavesBasket == \A m \in Markets : <>(gamma[m].closed) => <>[](m \notin curated)

=============================================================================
