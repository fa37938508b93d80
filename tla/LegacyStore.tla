---------------------------- MODULE LegacyStore ----------------------------
(***************************************************************************)
(* The retail API that the control plane replaces (services/api/store_api): *)
(* a store kept in memory by one process, and its snapshot on disk.         *)
(*                                                                          *)
(* A POST passes the middleware, which copies the whole store, runs the     *)
(* handler in a thread, and then writes the snapshot or puts the copy back. *)
(* Requests are served at once and nothing locks the store.  One product    *)
(* of price 1, no tax, two branches; master data and the boards are left    *)
(* out, and every document that a request names exists.                     *)
(***************************************************************************)
EXTENDS Integers, FiniteSets, FiniteSetsExt

CONSTANTS
    Callers,        \* requests served at one time
    StateFile,      \* create_app(state_file=...): is there a snapshot on disk
    WriteModes,     \* what STORE_LEGACY_WRITE_MODE may say when the process starts
    Opening,        \* the store the first process has loaded
    MaxAmount,      \* bound: quantities and amounts asked for (those of a second kind: and one more)
    MaxCalls,       \* bound: requests and restarts
    Late            \* bound: the operations that are still asked for in the last request

ASSUME LegacyAssumption ==
    StateFile \in BOOLEAN /\ WriteModes \subseteq {"shadow", "cutover"} /\ {MaxAmount, MaxCalls} \subseteq Nat

VARIABLES
    store,      \* AppState: tenant status, stock of each branch, last invoice number, documents by id
    snapshot,   \* the state file
    mode,       \* app.state.legacy_write_mode
    calls,      \* caller -> its request: what it asks, the copy, what the handler saw, its answer
    called,     \* requests and restarts so far
    answered,   \* history: documents of requests that were answered with success
    torn,       \* history: a snapshot or a rollback has run over another request's work, or a handler raised
    raced       \* history: documents that changed between a handler's checks and its writes

legacyVars == <<store, snapshot, mode, calls, called, answered, torn, raced>>

NoCall == [op |-> "none", stage |-> "none"]
At(c, op, stage) == calls[c].op = op /\ calls[c].stage = stage

LegacyInit ==
    /\ store = Opening /\ snapshot = Opening
    /\ mode \in WriteModes
    /\ calls = [c \in Callers |-> NoCall]
    /\ called = 0 /\ answered = {} /\ torn = FALSE /\ raced = {}

Filed(s, kind) == {d \in DOMAIN s.docs : s.docs[d].kind = kind}
Citing(s, kind, d) == {e \in Filed(s, kind) : s.docs[e].of = d}
Quantities(s, ids) == SumFunction([d \in ids |-> s.docs[d].qty])

\* inventory.post_entry; a document put into its dict; the takings of a till.
Post(s, branch, quantity) == [s EXCEPT !.stock[branch] = @ + quantity]
File(c, s, doc) == [s EXCEPT !.docs = [d \in DOMAIN @ \cup {calls[c].id} |-> IF d = calls[c].id THEN doc ELSE @[d]]]
Takes(s, till, amount) == IF till = 0 THEN s ELSE [s EXCEPT !.docs[till].cash = @ + amount]

\* A handler writes into the document it has looked up, which may have been put aside by a rollback.
Amend(c, doc) == IF calls[c].aside THEN store ELSE [store EXCEPT !.docs[calls[c].of] = doc]

-----------------------------------------------------------------------------
(* The middleware, persist_state_middleware. *)

\* classify_legacy_domain.  Transfers are served at /v1/tenants/{tenant_id}/transfers, which no pattern
\* matches; purchase invoices, what is returned and paid on them, and tills have no pattern.
Migrated == {"sell", "return", "approve", "exchange", "count", "order", "submit", "decide", "receive", "lots",
             "write_off", "dispute", "resolve", "print", "complete", "export", "attach", "push", "tenant"}

\* The paths that do not begin with a tenant.
Unscoped == {"tenant", "push"}

Call(c, op, of, n, m, word) ==
    /\ called < (IF op \in Late THEN MaxCalls ELSE MaxCalls - 1) /\ calls[c].stage = "none"
    /\ ~(mode = "cutover" /\ op \in Migrated)
    /\ StateFile => op \in Unscoped \/ store.tenant # "SUSPENDED"
    /\ called' = called + 1
    /\ calls' = [calls EXCEPT ![c] =
          [op |-> op, of |-> of, n |-> n, m |-> m, word |-> word, id |-> Cardinality(DOMAIN Opening.docs) + called + 1,
           stage |-> "begun", before |-> store, seen |-> Opening,
           overtaken |-> FALSE, aside |-> FALSE, suspended |-> store.tenant = "SUSPENDED"]]
    /\ UNCHANGED <<store, snapshot, mode, answered, torn, raced>>

Begin(c, op, of, n, m) == Call(c, op, of, n, m, "")
Says(c, op, of, n, word) == Call(c, op, of, n, 0, word)

\* The document that the request names is (still) there.
Named(c) == calls[c].of \in {0} \cup DOMAIN store.docs

\* A handler has read what it checks.
Look(c) ==
    /\ calls[c].stage = "begun" /\ Named(c)
    /\ calls[c].op \in {"submit", "decide", "receive", "lots", "write_off", "invoice", "supplier_return", "pay",
                        "close", "resolve"}
    /\ calls' = [calls EXCEPT ![c].stage = "looked", ![c].seen = store]
    /\ UNCHANGED <<store, snapshot, mode, called, answered, torn, raced>>

\* The calls under way, when c makes the store s.
Overtaken(c, s) ==
    [d \in Callers |-> IF d # c /\ calls[d].stage # "none" /\ s # store THEN [calls[d] EXCEPT !.overtaken = TRUE]
                       ELSE calls[d]]

\* A handler leaves the store as s, and returns, refuses or raises.
Answer(c, s, how) ==
    /\ store' = s
    /\ calls' = [Overtaken(c, s) EXCEPT ![c] =
          [op |-> @.op, stage |-> "answered", answer |-> how, id |-> @.id,
           before |-> IF how = "refused" THEN @.before ELSE Opening, overtaken |-> @.overtaken, suspended |-> @.suspended]]
    /\ torn' = (torn \/ how = "raised")
    /\ raced' = IF calls[c].stage = "looked" /\ calls[c].seen # store THEN raced \cup {calls[c].of} ELSE raced
    /\ UNCHANGED <<snapshot, mode, called, answered>>

\* All of the store goes into the snapshot.
Saved == snapshot' = store /\ UNCHANGED store

\* Mutant of SaveOrRestore: the snapshot is written before the answer is looked at.
SaveAlways(c) == Saved

\* The snapshot is written to a second file that replaces the first; a refused request's copy is put back.
SaveOrRestore(c) ==
    \/ calls[c].answer = "done" /\ Saved
    \/ calls[c].answer = "refused" /\ store' = calls[c].before /\ UNCHANGED snapshot
    \/ calls[c].answer = "raised" /\ UNCHANGED <<store, snapshot>>

Respond(c) ==
    LET pending == {d \in Callers \ {c} : calls[d].stage = "answered" /\ calls[d].answer = "refused"} IN
    /\ calls[c].stage = "answered"
    /\ IF StateFile THEN SaveOrRestore(c) ELSE UNCHANGED <<store, snapshot>>
    /\ calls' = [d \in Callers |->
          IF d = c THEN NoCall
          ELSE IF store' = store THEN calls[d]
          ELSE IF calls[d].stage = "looked" THEN [Overtaken(c, store')[d] EXCEPT !.aside = TRUE] ELSE Overtaken(c, store')[d]]
    /\ torn' = (torn \/ (calls[c].answer = "done" /\ pending # {})
                     \/ (calls[c].answer = "refused" /\ (calls[c].overtaken \/ \E d \in Callers : calls[d].stage = "looked")))
    /\ answered' = IF calls[c].answer = "done" /\ calls[c].id \in DOMAIN store.docs
                   THEN answered \cup {calls[c].id} ELSE answered
    /\ UNCHANGED <<mode, called, raced>>

\* The process dies and is started again: restore_state.
Restart ==
    /\ StateFile /\ called < MaxCalls - 1 /\ called' = called + 1
    /\ store' = snapshot
    /\ mode' \in WriteModes
    /\ calls' = [c \in Callers |-> NoCall]
    /\ UNCHANGED <<snapshot, answered, torn, raced>>

-----------------------------------------------------------------------------
(* Tills, sales and what comes back. *)

Underway(c, op) == calls[c].op = op /\ calls[c].stage = "begun" /\ Named(c)
Looked(c, op) == calls[c].op = op /\ calls[c].stage = "looked"

\* A rollback has taken the document away since the caller was told of it: 404, or a KeyError.
Missing(c) == calls[c].stage = "begun" /\ ~Named(c) /\ \E how \in {"refused", "raised"} : Answer(c, store, how)

Open(s, till) == till # 0 => s.docs[till].status = "OPEN"

OpenCashSession(c) ==
    /\ Underway(c, "open")
    /\ Answer(c, File(c, store, [kind |-> "till", status |-> "OPEN", cash |-> 0]), "done")

CloseCashSession(c) ==
    LET till == calls[c].seen.docs[calls[c].of] IN
    /\ Looked(c, "close")
    /\ IF till.status = "OPEN"
       THEN Answer(c, Amend(c, [store.docs[calls[c].of] EXCEPT !.status = "CLOSED"]), "done")
       ELSE Answer(c, store, "refused")

\* create_sale: stock, invoice and sale are written before the till is looked at; a line that comes
\* after the first may be refused (inactive in this branch) or unknown.
CreateSale(c) ==
    LET q == calls[c]
        sold == Post(store, "home", -q.n)
        billed == File(c, [sold EXCEPT !.invoices = @ + 1],
                       [kind |-> "sale", qty |-> q.n, till |-> q.of, number |-> store.invoices + 1, irn |-> "NOT_REQUIRED"])
    IN  /\ Underway(c, "sell")
        /\ \/ q.word # "whole" /\ Answer(c, sold, q.word)
           \/ q.word = "whole" /\ ~Open(store, q.of) /\ Answer(c, billed, "refused")
           \/ q.word = "whole" /\ Open(store, q.of) /\ Answer(c, Takes(billed, q.of, q.n), "done")

\* A refund m is checked against the payment, then against the credit note once the stock is back.
CreateSaleReturn(c, status) ==
    LET q == calls[c]
        back == Post(store, "home", q.n)
    IN  /\ Underway(c, "return")
        /\ \/ q.m > store.docs[q.of].qty /\ Answer(c, store, "refused")
           \/ q.m <= store.docs[q.of].qty /\ q.m > q.n /\ Answer(c, back, "refused")
           \/ /\ q.m <= store.docs[q.of].qty /\ q.m <= q.n
              /\ Answer(c, File(c, back, [kind |-> "return", of |-> q.of, qty |-> q.n, refund |-> q.m, status |-> status]), "done")

ApproveRefund(c) ==
    /\ Underway(c, "approve")
    /\ Answer(c, [store EXCEPT !.docs[calls[c].of].status = "REFUND_APPROVED"], "done")

\* create_exchange_order: n back, m out, paid or paid back at the till of the sale.
CreateExchangeOrder(c) ==
    LET q == calls[c]
        till == store.docs[q.of].till
        moved == Post(store, "home", q.n - q.m)
    IN  /\ Underway(c, "exchange")
        /\ IF Open(store, till)
           THEN Answer(c, File(c, Takes(moved, till, q.m - q.n),
                               [kind |-> "exchange", of |-> q.of, till |-> till, qty |-> q.m - q.n]), "done")
           ELSE Answer(c, moved, "refused")

-----------------------------------------------------------------------------
(* Stock, orders, receipts, lots. *)

\* transfer_stock: two entries, and no look at the stock.
CreateTransfer(c) ==
    LET q == calls[c] IN
    /\ Underway(c, "transfer")
    /\ Answer(c, File(c, Post(Post(store, "home", -q.n), "away", q.n), [kind |-> "transfer", qty |-> q.n]), "done")

\* apply_stock_count
CreateStockCount(c) ==
    LET variance == calls[c].n - store.stock["home"] IN
    /\ Underway(c, "count")
    /\ Answer(c, File(c, Post(store, "home", variance), [kind |-> "count", qty |-> variance]), "done")

CreatePurchaseOrder(c) ==
    /\ Underway(c, "order")
    /\ Answer(c, File(c, store, [kind |-> "order", qty |-> calls[c].n, status |-> "NOT_REQUESTED"]), "done")

\* A status looked up is changed, if it is among those it may be changed from.
Changed(c, from, to) ==
    IF calls[c].seen.docs[calls[c].of].status \in from
    THEN Answer(c, Amend(c, [store.docs[calls[c].of] EXCEPT !.status = to]), "done")
    ELSE Answer(c, store, "refused")

SubmitPurchaseOrder(c) == Looked(c, "submit") /\ Changed(c, {"NOT_REQUESTED", "REJECTED"}, "PENDING_APPROVAL")
DecidePurchaseOrder(c) == Looked(c, "decide") /\ Changed(c, {"PENDING_APPROVAL"}, calls[c].word)

\* Mutant of Receivable: whether the order was received before is not looked at.
ReceivableAgain(s, order) == s.docs[order].status = "APPROVED"

\* ensure_goods_receipt_not_already_created, ensure_purchase_order_receivable
Receivable(s, order) == Citing(s, "receipt", order) = {} /\ s.docs[order].status = "APPROVED"

CreateGoodsReceipt(c) ==
    LET q == calls[c]
        n == q.seen.docs[q.of].qty
    IN  /\ Looked(c, "receive")
        /\ IF Receivable(q.seen, q.of)
           THEN Answer(c, File(c, Post(store, "home", n), [kind |-> "receipt", of |-> q.of, qty |-> n]), "done")
           ELSE Answer(c, store, "refused")

\* validate_goods_receipt_batch_lots
LotsMatch(s, receipt, n) == n = s.docs[receipt].qty

CreateBatchLots(c) ==
    LET q == calls[c] IN
    /\ Looked(c, "lots")
    /\ IF Citing(q.seen, "lot", q.of) = {} /\ LotsMatch(q.seen, q.of, q.n)
       THEN Answer(c, File(c, store, [kind |-> "lot", of |-> q.of, qty |-> q.n, off |-> 0]), "done")
       ELSE Answer(c, store, "refused")

Left(s, lot) == s.docs[lot].qty - s.docs[lot].off

\* build_batch_expiry_report: what was sold is taken from the lots in the order they expire in, that of their ids.
Remaining(s, lot) ==
    LET lots == Filed(s, "lot")
        tracked == SumFunction([l \in lots |-> Left(s, l)])
        sold == tracked - Min({s.stock["home"], tracked})
        before == SumFunction([l \in {k \in lots : k < lot} |-> Left(s, l)])
    IN  Left(s, lot) - Min({Left(s, lot), Max({0, sold - before})})

CreateExpiryWriteOff(c) ==
    LET q == calls[c] IN
    /\ Looked(c, "write_off")
    /\ IF q.n <= Remaining(q.seen, q.of)
       THEN Answer(c, Post(Amend(c, [store.docs[q.of] EXCEPT !.off = @ + q.n]), "home", -q.n), "done")
       ELSE Answer(c, store, "refused")

-----------------------------------------------------------------------------
(* Purchase invoices, what goes back to the supplier, and what he is paid. *)

CreatePurchaseInvoice(c) ==
    LET q == calls[c] IN
    /\ Looked(c, "invoice")
    /\ IF Citing(q.seen, "invoice", q.of) = {}
       THEN Answer(c, File(c, store, [kind |-> "invoice", of |-> q.of, qty |-> q.seen.docs[q.of].qty]), "done")
       ELSE Answer(c, store, "refused")

Invoiced(s, invoice) == s.docs[invoice].qty
Credited(s, invoice) == Quantities(s, Citing(s, "supplier_return", invoice))
Paid(s, invoice) == Quantities(s, Citing(s, "payment", invoice))

\* create_supplier_return of a line of n and one of m: each is looked at by itself, and leaves the stock
\* before the next is looked at.
CreateSupplierReturn(c) ==
    LET q == calls[c]
        room == Invoiced(q.seen, q.of) - Credited(q.seen, q.of)
        first == Post(store, "home", -q.n)
    IN  /\ Looked(c, "supplier_return")
        /\ \/ q.n > room /\ Answer(c, store, "refused")
           \/ q.n <= room /\ q.m > room /\ Answer(c, first, "refused")
           \/ /\ q.n <= room /\ q.m <= room
              /\ Answer(c, File(c, Post(first, "home", -q.m),
                                [kind |-> "supplier_return", of |-> q.of, qty |-> q.n + q.m, lines |-> IF q.m = 0 THEN 1 ELSE 2]),
                        "done")

\* ensure_supplier_payment_within_outstanding
CreateSupplierPayment(c) ==
    LET q == calls[c] IN
    /\ Looked(c, "pay")
    /\ IF q.n <= Max({0, Invoiced(q.seen, q.of) - Credited(q.seen, q.of) - Paid(q.seen, q.of)})
       THEN Answer(c, File(c, store, [kind |-> "payment", of |-> q.of, qty |-> q.n]), "done")
       ELSE Answer(c, store, "refused")

CreateVendorDispute(c) ==
    /\ Underway(c, "dispute")
    /\ Answer(c, File(c, store, [kind |-> "dispute", of |-> calls[c].of, status |-> "OPEN"]), "done")

ResolveVendorDispute(c) == Looked(c, "resolve") /\ Changed(c, {"OPEN"}, "RESOLVED")

-----------------------------------------------------------------------------
(* Printing, compliance, sync, tenants. *)

QueueInvoicePrintJob(c) ==
    /\ Underway(c, "print")
    /\ Answer(c, File(c, store, [kind |-> "job", of |-> calls[c].of, status |-> "QUEUED"]), "done")

CompletePrintJob(c) ==
    /\ Underway(c, "complete")
    /\ Answer(c, [store EXCEPT !.docs[calls[c].of].status = calls[c].word], "done")

\* prepare_gst_export_job, whose id is that of the invoice.
CreateGstExport(c) ==
    /\ Underway(c, "export")
    /\ Answer(c, [store EXCEPT !.docs[calls[c].of].irn = "IRN_PENDING"], "done")

CompleteIrnAttachment(c) ==
    /\ Underway(c, "attach")
    /\ Answer(c, [store EXCEPT !.docs[calls[c].of].irn = "IRN_ATTACHED"], "done")

\* push_sync_record: the server's version is what the caller says it is; a conflict is recorded all the same.
PushSyncRecord(c) ==
    LET q == calls[c] IN
    /\ Underway(c, "push")
    /\ Answer(c, File(c, store, [kind |-> "sync", version |-> IF q.n < q.m THEN q.m ELSE q.m + 1]), "done")

UpdateTenantStatus(c) == Underway(c, "tenant") /\ Answer(c, [store EXCEPT !.tenant = calls[c].word], "done")

-----------------------------------------------------------------------------
Asked(c) ==
    LET On(kind) == Filed(store, kind)
        some == 1 .. MaxAmount
        any == 0 .. MaxAmount + 1
    IN  \/ \E till \in {0} \cup On("till"), n \in some, how \in {"whole", "refused", "raised"} : Says(c, "sell", till, n, how)
        \/ \E sale \in On("sale"), n \in some, m \in any : Begin(c, "return", sale, n, m) \/ Begin(c, "exchange", sale, n, m)
        \/ \E sale \in On("sale") : Begin(c, "print", sale, 0, 0) \/ Begin(c, "export", sale, 0, 0)
        \/ \E sale \in {d \in On("sale") : store.docs[d].irn # "NOT_REQUIRED"} : Begin(c, "attach", sale, 0, 0)
        \/ \E back \in On("return") : Begin(c, "approve", back, 0, 0)
        \/ \E till \in On("till") : Begin(c, "close", till, 0, 0)
        \/ \E n \in some : Begin(c, "transfer", 0, n, 0) \/ Begin(c, "order", 0, n, 0)
        \/ \E n \in any : Begin(c, "count", 0, n, 0)
        \/ Begin(c, "open", 0, 0, 0)
        \/ \E order \in On("order") : Begin(c, "submit", order, 0, 0) \/ Begin(c, "receive", order, 0, 0)
        \/ \E order \in On("order"), how \in {"APPROVED", "REJECTED"} : Says(c, "decide", order, 0, how)
        \/ \E receipt \in On("receipt") : Begin(c, "invoice", receipt, 0, 0)
        \/ \E receipt \in On("receipt"), n \in some : Begin(c, "lots", receipt, n, 0)
        \/ \E lot \in On("lot"), n \in some : Begin(c, "write_off", lot, n, 0)
        \/ \E invoice \in On("invoice"), n \in some : Begin(c, "pay", invoice, n, 0)
        \/ \E invoice \in On("invoice"), n \in some, m \in any : Begin(c, "supplier_return", invoice, n, m)
        \/ \E d \in On("invoice") \cup On("receipt") : Begin(c, "dispute", d, 0, 0)
        \/ \E dispute \in On("dispute") : Begin(c, "resolve", dispute, 0, 0)
        \/ \E job \in On("job"), how \in {"COMPLETED", "FAILED"} : Says(c, "complete", job, 0, how)
        \/ \E n, m \in {0, 1} : Begin(c, "push", 0, n, m)
        \/ \E how \in {"ACTIVE", "SUSPENDED"} : Says(c, "tenant", 0, 0, how)

Handler(c) ==
    \/ OpenCashSession(c) \/ CloseCashSession(c) \/ CreateSale(c)
    \/ \E status \in {"REFUND_APPROVED", "REFUND_PENDING_APPROVAL"} : CreateSaleReturn(c, status)
    \/ ApproveRefund(c) \/ CreateExchangeOrder(c) \/ CreateTransfer(c) \/ CreateStockCount(c)
    \/ CreatePurchaseOrder(c) \/ SubmitPurchaseOrder(c) \/ DecidePurchaseOrder(c) \/ CreateGoodsReceipt(c)
    \/ CreateBatchLots(c) \/ CreateExpiryWriteOff(c) \/ CreatePurchaseInvoice(c) \/ CreateSupplierReturn(c)
    \/ CreateSupplierPayment(c) \/ CreateVendorDispute(c) \/ ResolveVendorDispute(c) \/ QueueInvoicePrintJob(c)
    \/ CompletePrintJob(c) \/ CreateGstExport(c) \/ CompleteIrnAttachment(c) \/ PushSyncRecord(c)
    \/ UpdateTenantStatus(c) \/ Missing(c)

LegacyNext ==
    \/ \E c \in Callers : Asked(c) \/ Look(c) \/ Handler(c) \/ Respond(c)
    \/ Restart

LegacySpec == LegacyInit /\ [][LegacyNext]_legacyVars

-----------------------------------------------------------------------------
(* Properties. *)

\* What a document has done to the stock of its branch.
Moved(doc) ==
    CASE doc.kind \in {"sale", "transfer", "supplier_return", "exchange"} -> -doc.qty
      [] doc.kind \in {"return", "receipt", "count"} -> doc.qty
      [] doc.kind = "lot" -> -doc.off
      [] OTHER -> 0

BooksAgree(s) ==
    /\ s.stock["home"] = SumFunction([d \in DOMAIN s.docs |-> Moved(s.docs[d])])
    /\ s.stock["away"] = Quantities(s, Filed(s, "transfer"))
    /\ \A till \in Filed(s, "till") :
         s.docs[till].cash = Quantities(s, {d \in Filed(s, "sale") \cup Filed(s, "exchange") : s.docs[d].till = till})
    /\ {s.docs[d].number : d \in Filed(s, "sale")} = 1 .. s.invoices

\* From the first request on: a request is served whole or not at all, though it writes before it
\* refuses: on disk, and in memory once no refused request is waiting to be rolled back, the stock and
\* the tills are what the documents add up to, invoices are numbered without a gap, and what was answered
\* with success is there, after a restart too.  But for a copy or a snapshot taken while another request
\* had half its work in the store, and a handler that raised (the middleware then does nothing).
ServedWholeOrNotAtAll ==
    StateFile /\ called > 0 /\ ~torn =>
        /\ BooksAgree(snapshot) /\ answered \subseteq DOMAIN snapshot.docs
        /\ (\A c \in Callers : calls[c].stage = "answered" => calls[c].answer = "done") =>
             BooksAgree(store) /\ answered \subseteq DOMAIN store.docs

\* What d settles: an order its receipt, a receipt its invoice and its lots, an invoice its payments.
Settled(s, d) ==
    /\ \A kind \in {"receipt", "invoice", "lot"} : Cardinality(Citing(s, kind, d)) <= 1
    /\ s.docs[d].kind = "lot" => s.docs[d].off <= s.docs[d].qty
    /\ s.docs[d].kind = "invoice" =>
         /\ Paid(s, d) <= Invoiced(s, d)
         /\ (\A e \in Citing(s, "supplier_return", d) : s.docs[e].lines = 1) => Credited(s, d) <= Invoiced(s, d)

\* An order is received once, a receipt invoiced once and put into lots once, and an invoice neither
\* overpaid nor sent back beyond what it bills (in returns of one line): but for documents that changed
\* between the checks and the writes of a handler.
LegacySettledOnce == called > 0 => \A d \in DOMAIN store.docs \ raced : Settled(store, d)

-----------------------------------------------------------------------------
(* The store that a process may load, which one before it has saved. *)

\* What statuses say.
Words ==
    {"OPEN", "CLOSED", "RESOLVED", "QUEUED", "COMPLETED", "FAILED", "ACTIVE", "SUSPENDED",
     "NOT_REQUESTED", "PENDING_APPROVAL", "APPROVED", "REJECTED", "REFUND_PENDING_APPROVAL", "REFUND_APPROVED",
     "NOT_REQUIRED", "IRN_PENDING", "IRN_ATTACHED"}

Documents ==
         [kind : {"till"}, status : Words, cash : Int]
    \cup [kind : {"order"}, qty : Nat, status : Words]
    \cup [kind : {"receipt", "invoice", "payment"}, of : Nat, qty : Nat]
    \cup [kind : {"lot"}, of : Nat, qty : Nat, off : Nat]
    \cup [kind : {"supplier_return"}, of : Nat, qty : Nat, lines : {1, 2}]
    \cup [kind : {"sale"}, qty : Nat, till : Nat, number : Nat, irn : Words]
    \cup [kind : {"return"}, of : Nat, qty : Nat, refund : Nat, status : Words]
    \cup [kind : {"exchange"}, of : Nat, till : Nat, qty : Int]
    \cup [kind : {"transfer"}, qty : Nat]
    \cup [kind : {"count"}, qty : Int]
    \cup [kind : {"dispute", "job"}, of : Nat, status : Words]
    \cup [kind : {"sync"}, version : Nat]

IsStore(s) ==
    /\ s = [tenant |-> s.tenant, stock |-> s.stock, invoices |-> s.invoices, docs |-> s.docs]
    /\ s.tenant \in Words /\ s.invoices \in Nat /\ s.stock \in [{"home", "away"} -> Int]
    /\ s.docs \in [DOMAIN s.docs -> Documents] /\ IsFiniteSet(DOMAIN s.docs)
    /\ \A d \in Filed(s, "sale") \cup Filed(s, "exchange") : s.docs[d].till \in {0} \cup Filed(s, "till")

\* What a document settles.
Cites(doc) == IF doc.kind \in {"receipt", "invoice", "lot", "supplier_return", "payment"} THEN doc.of ELSE 0

ASSUME OpeningAssumption ==
    /\ IsStore(Opening) /\ BooksAgree(Opening)
    /\ DOMAIN Opening.docs = 1 .. Cardinality(DOMAIN Opening.docs)
    /\ \A d \in DOMAIN Opening.docs : Settled(Opening, d) /\ Cites(Opening.docs[d]) \in {0} \cup DOMAIN Opening.docs
=============================================================================
