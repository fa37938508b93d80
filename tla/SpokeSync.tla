----------------------------- MODULE SpokeSync ------------------------------
(***************************************************************************)
(* A branch hub and the cloud: pushed mutations, pulls, and the replay of   *)
(* sales the hub made offline (services/sync_runtime.py,                    *)
(* offline_continuity.py).                                                  *)
(*                                                                          *)
(* Every call of the hub carries an idempotency key and may be repeated, at *)
(* the same time too; an envelope, unique by its key, keeps the answer.     *)
(* The server version of a mutation is a count read before: nothing makes   *)
(* it unique.  A replay holds its invoice number from the INSERT of the     *)
(* sale on, so its later reads see every sale before it (as in Billing).    *)
(* The hub is external: it pushes against the versions it has pulled.       *)
(***************************************************************************)
EXTENDS Desk, Sequences

CONSTANTS
    PushKeys,   \* idempotency keys of pushes
    SaleKeys,   \* idempotency keys of offline sales, one for each sale
    Batch,      \* push key -> the records its mutations write, in order
    SyncRecords,
    Stock0,     \* the product's stock in the cloud; a sale takes one
    PullLimit,
    MaxTill     \* bound: sales at the branch's other tills

Till == "till"

ASSUME SpokeSyncAssumption ==
    /\ Batch \in [PushKeys -> Seq(SyncRecords)]
    /\ PushKeys \cap SaleKeys = {} /\ Till \notin SaleKeys
    /\ SyncRecords \cap SaleKeys = {}     \* a sale's mutation is of another table
    /\ {Stock0, MaxTill} \subseteq Nat /\ PullLimit \in Nat \ {0}

VARIABLES
    envelope,   \* key -> the committed answer of its sync envelope, or NoEnvelope
    log,        \* sync_mutation_log, in the order of commits
    conflicts,  \* sync_conflicts, all OPEN
    invoices,   \* the branch's sales by invoice number: the offline sale's key, or Till
    offline,    \* the branch policy's allow_offline_sales
    cursor,     \* the hub: the cursor of its last pull
    pulled      \* the hub: the mutations it has, as positions of the log

syncRows == <<envelope, log, conflicts, invoices, offline>>
syncHub  == <<cursor, pulled>>
syncVars == <<syncRows, syncHub, deskVars>>

NoEnvelope == [result |-> "none"]
Greatest(S) == IF S = {} THEN 0 ELSE CHOOSE n \in S : \A m \in S : m <= n

\* get_latest_branch_cursor, get_current_record_version, stock_on_hand
BranchCursor(l)     == Greatest({l[n].version : n \in DOMAIN l})
RecordVersion(l, x) == Greatest({l[n].version : n \in {m \in DOMAIN l : l[m].record = x}})
CloudStock == Stock0 - Len(invoices)

\* The version of a record the hub knows of.
KnownVersion(x) == Greatest({log[n].version : n \in {m \in pulled : log[m].record = x}})

SpokeSyncInit ==
    /\ envelope = [k \in PushKeys \cup SaleKeys |-> NoEnvelope]
    /\ log = <<>> /\ conflicts = {} /\ invoices = <<>> /\ offline = TRUE
    /\ cursor = 0 /\ pulled = {}
    /\ DeskInit

-----------------------------------------------------------------------------
(* A call whose envelope is there is answered from it, and changes nothing. *)

Arrives(r, errand) ==
    /\ envelope[errand.key] = NoEnvelope
    /\ Checked(r, errand)
    /\ UNCHANGED <<syncRows, syncHub>>

\* push: the cursor it numbers from and the records' versions, read before it writes.
Push(r, k) ==
    Arrives(r, [op |-> "push", key |-> k, base |-> BranchCursor(log), seen |-> Len(log),
                expected |-> [i \in DOMAIN Batch[k] |-> KnownVersion(Batch[k][i])]])

\* Mutant of Accepts: takes a mutation whatever version it was made from.
AcceptsAny(l, x, expected) == TRUE

\* VERSION_MISMATCH otherwise.
Accepts(l, x, expected) == RecordVersion(l, x) = expected

\* One mutation of a batch: l is the log the request sees, with what it has added itself.
Apply(acc, i, d) ==
    LET x == Batch[d.key][i]
        m == [record |-> x, key |-> d.key, version |-> acc.next + 1, expected |-> d.expected[i]]
    IN  IF Accepts(acc.log, x, d.expected[i])
        THEN [acc EXCEPT !.log = Append(@, m), !.next = @ + 1]
        ELSE [acc EXCEPT !.refused = @ \cup {[key |-> d.key, record |-> x]}]

\* next_server_version, before the first mutation.
Numbering(d) == d.base

\* The batch, one mutation after the other, upon the log the request sees.
Applied(d) ==
    LET upTo[i \in 0 .. Len(Batch[d.key])] ==
            IF i = 0 THEN [log |-> SubSeq(log, 1, d.seen), next |-> Numbering(d), refused |-> {}]
            ELSE Apply(upTo[i - 1], i, d)
    IN  upTo[Len(Batch[d.key])]

StorePush(r) ==
    /\ Doing(r, "push") /\ envelope[desk[r].key] = NoEnvelope
    /\ LET d == desk[r]
           end == Applied(d)
           added == SubSeq(end.log, d.seen + 1, Len(end.log))
       IN  /\ log' = log \o added
           /\ conflicts' = conflicts \cup end.refused
           /\ envelope' = [envelope EXCEPT ![d.key] =
                [result |-> IF end.refused = {} THEN "SYNCED" ELSE "CONFLICT",
                 accepted |-> Len(added), cursor |-> BranchCursor(log \o added)]]
           /\ Committed(r, {<<"mutation", n>> : n \in Len(log) + 1 .. Len(log \o added)})
    /\ UNCHANGED <<invoices, offline, syncHub>>

-----------------------------------------------------------------------------
(* replay_offline_sale *)

Replayable(agrees) == agrees /\ CloudStock > 0

\* The draft agrees with the catalog of today or not, the cashier session is there or not; the
\* stock is read now.
Replay(r, k, agrees) ==
    /\ offline
    /\ Arrives(r, [op |-> IF Replayable(agrees) THEN "replay" ELSE "refuse", key |-> k])

\* _record_conflict: the hub has to have the sale reviewed; its key is spent.
StoreConflict(r) ==
    /\ Doing(r, "refuse") /\ envelope[desk[r].key] = NoEnvelope
    /\ envelope' = [envelope EXCEPT ![desk[r].key] = [result |-> "CONFLICT", accepted |-> 0, cursor |-> BranchCursor(log)]]
    /\ conflicts' = conflicts \cup {[key |-> desk[r].key, record |-> desk[r].key]}
    /\ Committed(r, {<<"conflict", desk[r].key>>})
    /\ UNCHANGED <<log, invoices, offline, syncHub>>

NumberHeld == \E q \in Desks : Doing(q, "numbered")

\* The sale's INSERT under the next invoice number, and the cursor, read after it.
NumberReplay(r) ==
    /\ Doing(r, "replay") /\ ~NumberHeld
    /\ desk' = [desk EXCEPT ![r] = [op |-> "numbered", key |-> desk[r].key, base |-> BranchCursor(log)]]
    /\ UNCHANGED <<syncRows, syncHub, overtaken, blind>>

\* Mutant of StoreReplay: no unique key on the envelope.
StoreReplayAgain(r) ==
    /\ Doing(r, "numbered")
    /\ LET k == desk[r].key
           n == Len(invoices) + 1
       IN  /\ invoices' = Append(invoices, k)
           /\ log' = Append(log, [record |-> k, key |-> k, version |-> desk[r].base + 1, expected |-> 0])
           /\ envelope' = [envelope EXCEPT ![k] = [result |-> "SYNCED", accepted |-> n, cursor |-> 0]]
           /\ Committed(r, {<<"mutation", Len(log) + 1>>, <<"invoice", n>>})
    /\ UNCHANGED <<conflicts, offline, syncHub>>

\* The sale, its ledger entries and its mutation; accepted is the invoice number it answers.
StoreReplay(r) ==
    /\ Doing(r, "numbered") /\ envelope[desk[r].key] = NoEnvelope
    /\ LET k == desk[r].key
           n == Len(invoices) + 1
       IN  /\ invoices' = Append(invoices, k)
           /\ log' = Append(log, [record |-> k, key |-> k, version |-> desk[r].base + 1, expected |-> 0])
           /\ envelope' = [envelope EXCEPT ![k] = [result |-> "SYNCED", accepted |-> n, cursor |-> 0]]
           /\ Committed(r, {<<"mutation", Len(log) + 1>>, <<"invoice", n>>})
    /\ UNCHANGED <<conflicts, offline, syncHub>>

SyncFails(r) == RolledBack(r) /\ UNCHANGED <<syncRows, syncHub>>

-----------------------------------------------------------------------------
(* The hub's pulls, the other tills, the owner. *)

\* list_sync_mutations_since: a page S of what is newer than the cursor, in the order of versions;
\* ties are ordered by a random id.
Page(S) ==
    LET newer == {n \in DOMAIN log : log[n].version > cursor}
    IN  /\ S \subseteq newer /\ S # {} /\ Cardinality(S) <= PullLimit
        /\ S = newer \/ Cardinality(S) = PullLimit
        /\ \A n \in S, m \in newer \ S : log[n].version <= log[m].version

\* pull, when the answer arrives; a lost one changes nothing at the hub, which asks again.
Pull(S) ==
    /\ Page(S)
    /\ pulled' = pulled \cup S
    /\ cursor' = Greatest({log[n].version : n \in S})
    /\ UNCHANGED <<syncRows, deskVars>>

\* A sale at another till (Billing), which takes the next number and one piece.
TillSale ==
    /\ Len(SelectSeq(invoices, LAMBDA k : k = Till)) < MaxTill
    /\ CloudStock > 0 /\ ~NumberHeld
    /\ invoices' = Append(invoices, Till)
    /\ AtOnce
    /\ UNCHANGED <<envelope, log, conflicts, offline, syncHub>>

SwitchOfflineSales ==
    /\ offline' = ~offline
    /\ UNCHANGED <<envelope, log, conflicts, invoices, syncHub, deskVars>>

SpokeSyncNext ==
    \/ \E r \in Desks :
         \/ \E k \in PushKeys : Push(r, k)
         \/ \E k \in SaleKeys, agrees \in BOOLEAN : Replay(r, k, agrees)
         \/ StorePush(r) \/ StoreConflict(r) \/ NumberReplay(r) \/ StoreReplay(r) \/ SyncFails(r)
    \/ \E S \in SUBSET DOMAIN log : Pull(S)
    \/ TillSale
    \/ SwitchOfflineSales

SpokeSyncSpec == SpokeSyncInit /\ [][SpokeSyncNext]_syncVars

-----------------------------------------------------------------------------
(* Properties. *)

\* However often the hub repeats an offline sale, also while the first call is under way, the cloud
\* has it once, and the envelope answers the invoice it was given.
ReplayedOnce ==
    \A k \in SaleKeys :
        LET posted == {n \in DOMAIN invoices : invoices[n] = k}
        IN  posted = IF envelope[k].result = "SYNCED" THEN {envelope[k].accepted} ELSE {}

\* A hub that pulls page by page has every mutation up to its cursor; it misses one only where a
\* push or replay that another one overtook has written a mutation of that version.
PullMissesNothing ==
    \A n \in DOMAIN log :
        log[n].version <= cursor /\ n \notin pulled
          => \E m \in DOMAIN log : log[m].version = log[n].version /\ ~Seen("mutation", m)

\* An accepted mutation was made from the version it follows: two writers from one version need a
\* push that another one overtook.
NoLostUpdate ==
    \A m, n \in DOMAIN log :
        m < n /\ log[m].record = log[n].record /\ log[n].expected < log[m].version
          => ~Seen("mutation", n)

\* The cloud's stock goes below nothing only through a replay that another sale overtook.
ReplayHasStock ==
    CloudStock < 0 => \E n \in DOMAIN invoices : ~Seen("invoice", n)

\* What goes wrong between the hub and the cloud goes wrong only where a request was overtaken:
\* a mutation missed by a pull, an update lost, stock sold twice.
OnlyTheOvertakenErr == PullMissesNothing /\ NoLostUpdate /\ ReplayHasStock
=============================================================================
