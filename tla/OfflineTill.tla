----------------------------- MODULE OfflineTill -----------------------------
(***************************************************************************)
(* The till of a branch hub when the cloud cannot be reached: sales are    *)
(* kept in one snapshot on the device and replayed later                   *)
(* (apps/store-desktop: useStoreRuntimeOfflineContinuity.ts,               *)
(* storeRuntimeContinuityPolicy.ts, storeRuntimeContinuityStore.ts,        *)
(* createSalesInvoice of useStoreRuntimeWorkspace.ts, and                  *)
(* src-tauri/src/runtime_continuity.rs).                                   *)
(*                                                                         *)
(* Three handlers write the snapshot: billing, the replay and the effect   *)
(* that seeds it.  Each builds the whole snapshot from the React state it  *)
(* was rendered with, saves it, and shows it after the save has come back; *)
(* so a handler may save a snapshot older than the one it replaces.  The   *)
(* button that replays is disabled while billing is busy, not the reverse. *)
(* The cloud is SpokeSync's: an envelope answers a repeated key.           *)
(* Stock, prices and taxes are abstracted to whether a draft can be made.  *)
(***************************************************************************)
EXTENDS Integers, Sequences, FiniteSets

CONSTANTS
    Scopes,        \* the tenant, branch and hub the runtime may be set up for
    MaxPending,    \* the branch policy's max_pending_offline_sales
    MaxPurchases,  \* bound: customers served
    MaxCrashes,    \* bound: ends of the app and failed loads
    MaxMoves       \* bound: times the device is set up for another scope

ASSUME OfflineTillAssumption ==
    /\ Scopes # {}
    /\ {MaxPending, MaxPurchases, MaxCrashes, MaxMoves} \subseteq Nat

VARIABLES
    shelf,      \* the snapshot in the device's store, or Nothing
    view,       \* the snapshot of the React state, or Nothing
    loaded,     \* hasLoadedContinuity
    scope,      \* what the runtime is set up for
    billing,    \* createSalesInvoice under way
    replay,     \* replayOfflineSales under way
    seeding,    \* the seeding effect's save under way
    replayed,   \* purchase -> the cloud's answer to its replay, "none" before
    booked,     \* purchase -> how often the cloud has it
    numbers,    \* purchase -> the continuity invoice it was given, 0 when none
    served,     \* purchases so far
    crashes, moves

tillStore == <<shelf, view, loaded, scope>>
tillCloud == <<replayed, booked>>
tillVars  == <<tillStore, billing, replay, seeding, tillCloud, numbers, served, crashes, moves>>

Purchases == 1 .. MaxPurchases
Nothing == [sales |-> {}, scope |-> "none", next |-> 0]
AtRest(p) == p.step = "idle"
Rest == [step |-> "idle"]

\* buildSeedSnapshot
SeedSnapshot == [sales |-> {}, scope |-> scope, next |-> 1]

InState(snap, states) == {s \in snap.sales : s.state \in states}
MarkedAs(snap, ids, state) ==
    [snap EXCEPT !.sales = {IF s.id \in ids THEN [s EXCEPT !.state = state] ELSE s : s \in @}]
Ids(sales) == {s.id : s \in sales}

\* hasOpenOfflineSales: a sale in conflict stays open, nothing here settles it.
HasOpenSales(snap) == InState(snap, {"PENDING_REPLAY", "REPLAYING", "CONFLICT"}) # {}

OfflineTillInit ==
    /\ shelf = Nothing /\ view = Nothing /\ loaded = FALSE
    /\ scope = CHOOSE s \in Scopes : TRUE  \* scopes are alike
    /\ billing = Rest /\ replay = Rest /\ seeding = Rest
    /\ replayed = [p \in Purchases |-> "none"]
    /\ booked = [p \in Purchases |-> 0]
    /\ numbers = [p \in Purchases |-> 0]
    /\ served = 0 /\ crashes = 0 /\ moves = 0

----------------------------------------------------------------------------
(* The store and the effects *)

\* The loading effect.
LoadContinuity ==
    /\ ~loaded
    /\ loaded' = TRUE
    /\ view' = shelf
    /\ UNCHANGED <<shelf, scope, billing, replay, seeding, tillCloud, numbers, served, crashes, moves>>

\* The store cannot be read: the runtime goes on as if it were empty.
LoadFails ==
    /\ ~loaded /\ crashes < MaxCrashes
    /\ loaded' = TRUE
    /\ view' = Nothing
    /\ crashes' = crashes + 1
    /\ UNCHANGED <<shelf, scope, billing, replay, seeding, tillCloud, numbers, served, moves>>

\* The seeding effect: a snapshot of another scope gives way to an empty one; one of this scope
\* takes the cloud's stock, which it may only when no sale is open.
SeedContinuity ==
    /\ loaded /\ AtRest(seeding)
    /\ view.scope # scope \/ ~HasOpenSales(view)
    /\ shelf' = IF view.scope = scope THEN view ELSE SeedSnapshot
    /\ seeding' = [step |-> "saved", snap |-> shelf']
    /\ UNCHANGED <<view, loaded, scope, billing, replay, tillCloud, numbers, served, crashes, moves>>

ShowSeed ==
    /\ ~AtRest(seeding)
    /\ view' = seeding.snap
    /\ seeding' = Rest
    /\ UNCHANGED <<shelf, loaded, scope, billing, replay, tillCloud, numbers, served, crashes, moves>>

\* The device is set up for another branch, or as another hub.
SetUpElsewhere ==
    /\ moves < MaxMoves
    /\ scope' \in Scopes \ {scope}
    /\ moves' = moves + 1
    /\ UNCHANGED <<shelf, view, loaded, billing, replay, seeding, tillCloud, numbers, served, crashes>>

\* The app ends; what is on the shelf stays.
EndApp ==
    /\ crashes < MaxCrashes
    /\ crashes' = crashes + 1
    /\ view' = Nothing /\ loaded' = FALSE
    /\ billing' = Rest /\ replay' = Rest /\ seeding' = Rest
    /\ UNCHANGED <<shelf, scope, tillCloud, numbers, served, moves>>

----------------------------------------------------------------------------
(* createSalesInvoice, createOfflineSale *)

\* The handler keeps the snapshot it was rendered with, whether it calls the cloud or not.
Bill ==
    /\ AtRest(billing) /\ served < MaxPurchases
    /\ served' = served + 1
    /\ billing' = [step |-> "asked", base |-> IF view = Nothing THEN SeedSnapshot ELSE view]
    /\ UNCHANGED <<tillStore, replay, seeding, tillCloud, numbers, crashes, moves>>

\* The cloud books the sale; whether the answer and the two reads after it arrive is still open.
BookOnline ==
    /\ billing.step = "asked"
    /\ booked' = [booked EXCEPT ![served] = @ + 1]
    /\ billing' = [billing EXCEPT !.step = "booked"]
    /\ UNCHANGED <<tillStore, replay, seeding, replayed, numbers, served, crashes, moves>>

\* Answered, or refused for good: no stock, a limit, a 4xx.
EndBill ==
    /\ billing.step \in {"asked", "booked"}
    /\ billing' = Rest
    /\ UNCHANGED <<tillStore, replay, seeding, tillCloud, numbers, served, crashes, moves>>

PendingSales(snap) == InState(snap, {"PENDING_REPLAY", "REPLAYING"})

\* No session, no network, a 5xx, or an answer that was lost: the sale is kept here.
SellOffline ==
    /\ billing.step \in {"asked", "booked"}
    /\ Cardinality(PendingSales(billing.base)) < MaxPending
    /\ LET base == billing.base
           sale == [id |-> served, number |-> base.next, state |-> "PENDING_REPLAY"]
       IN  /\ shelf' = [base EXCEPT !.sales = @ \cup {sale}, !.next = @ + 1]
           /\ numbers' = [numbers EXCEPT ![served] = base.next]
    /\ billing' = [step |-> "saved", snap |-> shelf']
    /\ UNCHANGED <<view, loaded, scope, replay, seeding, tillCloud, served, crashes, moves>>

ShowSale ==
    /\ billing.step = "saved"
    /\ view' = billing.snap
    /\ billing' = Rest
    /\ UNCHANGED <<shelf, loaded, scope, replay, seeding, tillCloud, numbers, served, crashes, moves>>

----------------------------------------------------------------------------
(* replayOfflineSales *)

ToReplay(snap) == InState(snap, {"PENDING_REPLAY"})

\* The button; every pending sale is marked before the first call.
StartReplay ==
    /\ AtRest(replay) /\ AtRest(billing)
    /\ ToReplay(view) # {}
    /\ LET ids == Ids(ToReplay(view))
           snap == MarkedAs(view, ids, "REPLAYING")
       IN  /\ shelf' = snap
           /\ replay' = [step |-> "marked", work |-> snap, left |-> ids]
    /\ UNCHANGED <<view, loaded, scope, billing, seeding, tillCloud, numbers, served, crashes, moves>>

ShowReplaying ==
    /\ replay.step = "marked"
    /\ view' = replay.work
    /\ replay' = [replay EXCEPT !.step = "calling"]
    /\ UNCHANGED <<shelf, loaded, scope, billing, seeding, tillCloud, numbers, served, crashes, moves>>

\* Mutant of Served: the cloud does not know the key again.
ServedAgain(p, answer) ==
    /\ replayed' = [replayed EXCEPT ![p] = answer]
    /\ booked' = [booked EXCEPT ![p] = @ + (IF answer = "RECONCILED" THEN 1 ELSE 0)]

\* The cloud's answer to a sale's key: accepted or a conflict, the same ever after.
Served(p, answer) ==
    \/ replayed[p] = answer /\ UNCHANGED tillCloud
    \/ /\ replayed[p] = "none"
       /\ replayed' = [replayed EXCEPT ![p] = answer]
       /\ booked' = [booked EXCEPT ![p] = @ + (IF answer = "RECONCILED" THEN 1 ELSE 0)]

\* Sales are replayed in the order they were made.
Turn == CHOOSE p \in replay.left : \A q \in replay.left : p <= q
Calls == replay.step = "calling" /\ replay.left # {}

\* Accepted, or a conflict to review: both are noted in the working snapshot only.
ReplayAnswered ==
    /\ Calls
    /\ \E answer \in {"RECONCILED", "CONFLICT"} :
         /\ Served(Turn, answer)
         /\ replay' = [replay EXCEPT !.work = MarkedAs(@, {Turn}, answer), !.left = @ \ {Turn}]
    /\ UNCHANGED <<tillStore, billing, seeding, numbers, served, crashes, moves>>

\* The sale is to be replayed again; the ones after it stay marked REPLAYING.
AfterFailure == MarkedAs(replay.work, {Turn}, "PENDING_REPLAY")

\* The cloud is gone, or its answer is lost: the replay saves what it has and ends.
ReplayUnanswered ==
    /\ Calls
    /\ UNCHANGED tillCloud \/ \E answer \in {"RECONCILED", "CONFLICT"} : Served(Turn, answer)
    /\ shelf' = AfterFailure
    /\ replay' = [step |-> "saved", work |-> shelf', left |-> {}]
    /\ UNCHANGED <<view, loaded, scope, billing, seeding, numbers, served, crashes, moves>>

\* Refused (the branch policy forbids offline sales, the secret is revoked), or the last save fails:
\* the error is thrown past the save, and what the calls before it have answered is forgotten.
ReplayRefused ==
    /\ replay.step = "calling"
    /\ replay' = Rest
    /\ UNCHANGED <<tillStore, billing, seeding, tillCloud, numbers, served, crashes, moves>>

EndReplay ==
    /\ replay.step = "calling" /\ replay.left = {}
    /\ shelf' = replay.work
    /\ replay' = [replay EXCEPT !.step = "saved"]
    /\ UNCHANGED <<view, loaded, scope, billing, seeding, tillCloud, numbers, served, crashes, moves>>

ShowReplayed ==
    /\ replay.step = "saved"
    /\ view' = replay.work
    /\ replay' = Rest
    /\ UNCHANGED <<shelf, loaded, scope, billing, seeding, tillCloud, numbers, served, crashes, moves>>

OfflineTillNext ==
    \/ LoadContinuity \/ LoadFails \/ SeedContinuity \/ ShowSeed \/ SetUpElsewhere \/ EndApp
    \/ Bill \/ BookOnline \/ EndBill \/ SellOffline \/ ShowSale
    \/ StartReplay \/ ShowReplaying \/ ReplayAnswered \/ ReplayUnanswered \/ ReplayRefused
    \/ EndReplay \/ ShowReplayed

OfflineTillSpec == OfflineTillInit /\ [][OfflineTillNext]_tillVars

----------------------------------------------------------------------------
(* Properties *)

\* Whatever handlers overwrote each other, and however often a sale was replayed, also after it
\* was reconciled: a sale the till shows as reconciled is in the cloud, one in conflict was put
\* there by the cloud, and no replay books a sale twice (a second booking is the online one,
\* whose answer was lost).
TillTellsTheCloud ==
    /\ \A snap \in {shelf, view} : \A s \in snap.sales :
          s.state \in {"RECONCILED", "CONFLICT"} => replayed[s.id] = s.state
    /\ \A p \in Purchases :
          /\ booked[p] <= (IF replayed[p] = "RECONCILED" THEN 2 ELSE 1)
          /\ replayed[p] # "none" => numbers[p] > 0
=============================================================================
