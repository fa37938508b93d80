--------------------------- MODULE StockDocuments ---------------------------
(***************************************************************************)
(* Purchase orders and the documents that move a product's stock: receipts, *)
(* adjustments, counts, reviewed counts, transfers and restock tasks        *)
(* (services/purchasing.py, services/inventory.py and their policies).      *)
(*                                                                          *)
(* Stock is the sum of an append-only ledger; a document and its entries    *)
(* are one transaction.  Document numbers are unique, but read late: a      *)
(* collision is one of the ways to fail (DocumentFails), not a lock.        *)
(* One product; its serial numbers are left out.                            *)
(***************************************************************************)
EXTENDS Desk, Sums

CONSTANTS
    Branches,
    PurchaseOrders,
    Ordered,       \* purchase order -> the quantity on its line
    OrderedAt,     \* purchase order -> its branch
    Amounts,       \* bound: quantities of transfers, tasks and adjustments
    MaxDocuments   \* bound: documents of all kinds when a new one begins

ASSUME StockDocumentsAssumption ==
    /\ Ordered \in [PurchaseOrders -> Nat \ {0}] /\ OrderedAt \in [PurchaseOrders -> Branches]
    /\ Amounts \subseteq Nat \ {0} /\ MaxDocuments \in Nat

VARIABLES
    approval,   \* purchase order -> its approval_status, or "none" before it is created
    receipts,   \* goods_receipts, in the order of commits
    journal,    \* inventory_ledger_entries, in the order of commits
    counts,     \* stock_count_sessions
    reviews,    \* stock_count_review_sessions
    tasks,      \* restock_task_sessions
    transfers   \* transfer_orders

stockRows == <<approval, receipts, journal, counts, reviews, tasks, transfers>>
stockVars == <<stockRows, deskVars>>

\* stock_on_hand: the sum of the branch's entries, here of a prefix of the ledger.
StockOf(entries, b) ==
    Added([i \in DOMAIN entries |-> IF entries[i].branch = b THEN entries[i].quantity ELSE 0])
StockOnHand(b) == StockOf(journal, b)

Entry(b, type, quantity) == [branch |-> b, type |-> type, quantity |-> quantity]
Posts(entries) == journal' = journal \o entries

Adjustments == Cardinality({n \in DOMAIN journal : journal[n].type = "ADJUSTMENT"})
Orders == Cardinality({o \in PurchaseOrders : approval[o] # "none"})
Room == Orders + Len(receipts) + Len(counts) + Len(reviews) + Len(tasks) + Len(transfers) + Adjustments < MaxDocuments

StockDocumentsInit ==
    /\ approval = [o \in PurchaseOrders |-> "none"]
    /\ receipts = <<>> /\ journal = <<>> /\ counts = <<>>
    /\ reviews = <<>> /\ tasks = <<>> /\ transfers = <<>>
    /\ DeskInit

Reads(r, errand) == Checked(r, errand) /\ UNCHANGED stockRows

-----------------------------------------------------------------------------
(* Purchase orders.  No operation rejects one, though its policy could.      *)

CreatePurchaseOrder(o) ==
    /\ approval[o] = "none" /\ Room
    /\ approval' = [approval EXCEPT ![o] = "NOT_REQUESTED"]
    /\ AtOnce
    /\ UNCHANGED <<receipts, journal, counts, reviews, tasks, transfers>>

\* submit_purchase_order_approval
Submittable(o) == approval[o] \in {"NOT_REQUESTED", "REJECTED"}

SubmitPurchaseOrder(r, o) == Submittable(o) /\ Reads(r, [op |-> "decide", order |-> o, to |-> "PENDING_APPROVAL"])

\* decide_purchase_order
ApprovePurchaseOrder(r, o) ==
    /\ approval[o] = "PENDING_APPROVAL"
    /\ Reads(r, [op |-> "decide", order |-> o, to |-> "APPROVED"])

StoreApprovalStatus(r) ==
    /\ Doing(r, "decide")
    /\ approval' = [approval EXCEPT ![desk[r].order] = desk[r].to]
    /\ Committed(r, {<<"order", desk[r].order>>})
    /\ UNCHANGED <<receipts, journal, counts, reviews, tasks, transfers>>

-----------------------------------------------------------------------------
(* Goods receipts, adjustments and counts. *)

Received(o) == \E n \in DOMAIN receipts : receipts[n].order = o

\* ensure_purchase_order_receivable
Receivable(o) == approval[o] = "APPROVED" /\ ~Received(o)

\* build_goods_receipt_lines: something of what was ordered, and no more.
Receivables(o) == 1 .. Ordered[o]

CreateGoodsReceipt(r, o, quantity) ==
    /\ Receivable(o) /\ Room /\ quantity \in Receivables(o)
    /\ Reads(r, [op |-> "receive", order |-> o, quantity |-> quantity])

\* Mutant of StoreGoodsReceipt: nothing makes the order of a receipt unique.
StoreGoodsReceiptAgain(r) ==
    /\ Doing(r, "receive")
    /\ LET b == OrderedAt[desk[r].order]
       IN  /\ receipts' = Append(receipts, [order |-> desk[r].order, quantity |-> desk[r].quantity])
           /\ Posts(<<Entry(b, "PURCHASE_RECEIPT", desk[r].quantity)>>)
    /\ Committed(r, {<<"receipt", Len(receipts) + 1>>})
    /\ UNCHANGED <<approval, counts, reviews, tasks, transfers>>

\* uq_goods_receipts_purchase_order refuses a second one.
StoreGoodsReceipt(r) ==
    /\ Doing(r, "receive") /\ ~Received(desk[r].order)
    /\ LET b == OrderedAt[desk[r].order]
       IN  /\ receipts' = Append(receipts, [order |-> desk[r].order, quantity |-> desk[r].quantity])
           /\ Posts(<<Entry(b, "PURCHASE_RECEIPT", desk[r].quantity)>>)
    /\ Committed(r, {<<"receipt", Len(receipts) + 1>>})
    /\ UNCHANGED <<approval, counts, reviews, tasks, transfers>>

\* Any amount but 0, below nothing too: the stock it reads only goes into the answer.
CreateStockAdjustment(b, delta) ==
    /\ Room
    /\ Posts(<<Entry(b, "ADJUSTMENT", delta)>>)
    /\ AtOnce
    /\ UNCHANGED <<approval, receipts, counts, reviews, tasks, transfers>>

\* build_stock_count_result
CountResult(expected, counted) == [expected |-> expected, counted |-> counted, variance |-> counted - expected]

CreateStockCount(r, b, counted) ==
    /\ Room
    /\ Reads(r, [op |-> "count", branch |-> b, result |-> CountResult(StockOnHand(b), counted), review |-> 0])

-----------------------------------------------------------------------------
(* Reviewed counts: opened, counted blindly, approved or canceled. *)

CreateReviewSession(r, b) ==
    /\ Room
    /\ Reads(r, [op |-> "review", branch |-> b, expected |-> StockOnHand(b), since |-> Len(journal)])

StoreReviewSession(r) ==
    /\ Doing(r, "review")
    /\ reviews' = Append(reviews, [branch |-> desk[r].branch, expected |-> desk[r].expected,
                                   result |-> Idle, status |-> "OPEN", since |-> desk[r].since])
    /\ Committed(r, {<<"review", Len(reviews) + 1>>})
    /\ UNCHANGED <<approval, receipts, journal, counts, tasks, transfers>>

RecordReviewSession(r, n, counted) ==
    /\ reviews[n].status = "OPEN"
    /\ Reads(r, [op |-> "record", review |-> n, result |-> CountResult(reviews[n].expected, counted)])

StoreReviewCount(r) ==
    /\ Doing(r, "record")
    /\ reviews' = [reviews EXCEPT ![desk[r].review].result = desk[r].result, ![desk[r].review].status = "COUNTED"]
    /\ Committed(r, {<<"review", desk[r].review>>})
    /\ UNCHANGED <<approval, receipts, journal, counts, tasks, transfers>>

\* ensure_stock_count_review_approvable
Approvable(n) == reviews[n].status = "COUNTED"

ApproveReviewSession(r, n) ==
    /\ Approvable(n)
    /\ Reads(r, [op |-> "count", branch |-> reviews[n].branch, result |-> reviews[n].result, review |-> n])

\* A count, reviewed or not, and its COUNT_VARIANCE, if there is one.
StoreStockCount(r) ==
    /\ Doing(r, "count")
    /\ LET d == desk[r]
       IN  /\ counts' = Append(counts, [branch |-> d.branch, result |-> d.result, review |-> d.review,
                                        after |-> Len(journal)])
           /\ Posts(IF d.result.variance = 0 THEN <<>> ELSE <<Entry(d.branch, "COUNT_VARIANCE", d.result.variance)>>)
           /\ reviews' = IF d.review = 0 THEN reviews ELSE [reviews EXCEPT ![d.review].status = "APPROVED"]
           /\ Committed(r, {<<"count", Len(counts) + 1>>} \cup {<<"review", n>> : n \in {d.review} \ {0}})
    /\ UNCHANGED <<approval, receipts, tasks, transfers>>

CancelReviewSession(r, n) ==
    /\ reviews[n].status \notin {"APPROVED", "CANCELED"}
    /\ Reads(r, [op |-> "drop", review |-> n])

StoreReviewCancel(r) ==
    /\ Doing(r, "drop")
    /\ reviews' = [reviews EXCEPT ![desk[r].review].status = "CANCELED"]
    /\ Committed(r, {<<"review", desk[r].review>>})
    /\ UNCHANGED <<approval, receipts, journal, counts, tasks, transfers>>

-----------------------------------------------------------------------------
(* Transfers between branches, and restock tasks, which never touch the ledger. *)

\* Mutant of TransferAllowed: does not ask for the stock.
TransferUnchecked(source, destination, quantity) == source # destination

\* ensure_transfer_allowed
TransferAllowed(source, destination, quantity) == source # destination /\ quantity <= StockOnHand(source)

CreateTransfer(r, source, destination, quantity) ==
    /\ Room /\ TransferAllowed(source, destination, quantity)
    /\ Reads(r, [op |-> "transfer", source |-> source, destination |-> destination, quantity |-> quantity])

StoreTransfer(r) ==
    /\ Doing(r, "transfer")
    /\ LET d == desk[r]
       IN  /\ transfers' = Append(transfers, [source |-> d.source, destination |-> d.destination,
                                              quantity |-> d.quantity, after |-> Len(journal)])
           /\ Posts(<<Entry(d.source, "TRANSFER_OUT", -d.quantity), Entry(d.destination, "TRANSFER_IN", d.quantity)>>)
    /\ Committed(r, {<<"transfer", Len(transfers) + 1>>})
    /\ UNCHANGED <<approval, receipts, counts, reviews, tasks>>

\* get_active_restock_task_for_product
ActiveTasks(b) == {n \in DOMAIN tasks : tasks[n].branch = b /\ tasks[n].status \in {"OPEN", "PICKED"}}

\* ensure_restock_task_creatable
Restockable(b) == ActiveTasks(b) = {}

CreateRestockTask(r, b, quantity) ==
    /\ Room /\ Restockable(b)
    /\ Reads(r, [op |-> "restock", branch |-> b, requested |-> quantity])

StoreRestockTask(r) ==
    /\ Doing(r, "restock")
    /\ tasks' = Append(tasks, [branch |-> desk[r].branch, requested |-> desk[r].requested, picked |-> 0, status |-> "OPEN"])
    /\ Committed(r, {<<"task", Len(tasks) + 1>>})
    /\ UNCHANGED <<approval, receipts, journal, counts, reviews, transfers>>

\* pick, complete and cancel read the task and set its status.
PickRestockTask(r, n, picked) ==
    /\ tasks[n].status = "OPEN" /\ picked \in 0 .. tasks[n].requested
    /\ Reads(r, [op |-> "task", task |-> n, picked |-> picked, to |-> "PICKED"])

CompleteRestockTask(r, n) ==
    /\ tasks[n].status = "PICKED"
    /\ Reads(r, [op |-> "task", task |-> n, to |-> "COMPLETED"])

CancelRestockTask(r, n) ==
    /\ tasks[n].status \notin {"COMPLETED", "CANCELED"}
    /\ Reads(r, [op |-> "task", task |-> n, to |-> "CANCELED"])

StoreTaskStatus(r) ==
    /\ Doing(r, "task")
    /\ LET d == desk[r]
       IN  /\ tasks' = [tasks EXCEPT ![d.task].status = d.to,
                                     ![d.task].picked = IF d.to = "PICKED" THEN d.picked ELSE @]
           /\ Committed(r, {<<"task", d.task>>})
    /\ UNCHANGED <<approval, receipts, journal, counts, reviews, transfers>>

DocumentFails(r) == RolledBack(r) /\ UNCHANGED stockRows

StockDocumentsNext ==
    \/ \E r \in Desks :
         \/ \E o \in PurchaseOrders :
              \/ SubmitPurchaseOrder(r, o) \/ ApprovePurchaseOrder(r, o)
              \/ \E q \in Receivables(o) : CreateGoodsReceipt(r, o, q)
         \/ \E b \in Branches :
              \/ CreateReviewSession(r, b)
              \/ \E counted \in Amounts \cup {0} : CreateStockCount(r, b, counted)
              \/ \E q \in Amounts : CreateRestockTask(r, b, q)
              \/ \E d \in Branches, q \in Amounts : CreateTransfer(r, b, d, q)
         \/ \E n \in DOMAIN reviews :
              \/ ApproveReviewSession(r, n) \/ CancelReviewSession(r, n)
              \/ \E counted \in Amounts \cup {0} : RecordReviewSession(r, n, counted)
         \/ \E n \in DOMAIN tasks :
              \/ CompleteRestockTask(r, n) \/ CancelRestockTask(r, n)
              \/ \E q \in Amounts \cup {0} : PickRestockTask(r, n, q)
         \/ StoreApprovalStatus(r) \/ StoreGoodsReceipt(r) \/ StoreReviewSession(r) \/ StoreReviewCount(r)
         \/ StoreStockCount(r) \/ StoreReviewCancel(r) \/ StoreTransfer(r) \/ StoreRestockTask(r)
         \/ StoreTaskStatus(r) \/ DocumentFails(r)
    \/ \E o \in PurchaseOrders : CreatePurchaseOrder(o)
    \/ \E b \in Branches, q \in Amounts : CreateStockAdjustment(b, q) \/ CreateStockAdjustment(b, -q)

StockDocumentsSpec == StockDocumentsInit /\ [][StockDocumentsNext]_stockVars

-----------------------------------------------------------------------------
(* The boards (inventory_policy.py). *)

\* build_receiving_board
ReceivingStatus(o) ==
    CASE \E n \in DOMAIN receipts : receipts[n].order = o /\ receipts[n].quantity = Ordered[o] -> "RECEIVED"
      [] \E n \in DOMAIN receipts : receipts[n].order = o /\ receipts[n].quantity # Ordered[o] -> "RECEIVED_WITH_VARIANCE"
      [] ~Received(o) /\ approval[o] = "APPROVED" -> "READY"
      [] OTHER -> "BLOCKED"

\* build_transfer_board: what the branch's board shows of a transfer, as a movement of its stock.
Shown(b, n) ==
    IF transfers[n].source = b THEN -transfers[n].quantity
    ELSE IF transfers[n].destination = b THEN transfers[n].quantity ELSE 0

\* What a branch was sent by its suppliers, counted, adjusted and transferred.
ReceivedAt(b) ==
    Added([n \in DOMAIN receipts |-> IF OrderedAt[receipts[n].order] = b THEN receipts[n].quantity ELSE 0])
CountedAt(b) == Added([n \in DOMAIN counts |-> IF counts[n].branch = b THEN counts[n].result.variance ELSE 0])
AdjustedAt(b) ==
    Added([n \in DOMAIN journal |->
              IF journal[n].branch = b /\ journal[n].type = "ADJUSTMENT" THEN journal[n].quantity ELSE 0])
MovedAt(b) == Added([n \in DOMAIN transfers |-> Shown(b, n)])

-----------------------------------------------------------------------------
(* Properties. *)

\* An order is received once, and stays APPROVED after: a submission that another request overtook
\* may ask for the approval of an order that is in the house already.
ReceivedOnceApproved ==
    \A n \in DOMAIN receipts :
        LET o == receipts[n].order
        IN  /\ \A m \in DOMAIN receipts : receipts[m].order = o => m = n
            /\ approval[o] = "APPROVED" \/ ~Seen("order", o)

\* A reviewed count posts its variance once, when it is approved; where nothing has moved the
\* branch's stock since the session was opened, the ledger then holds the counted quantity.
ReviewSettlesOnce ==
    \A n \in DOMAIN reviews :
        LET posted == {m \in DOMAIN counts : counts[m].review = n}
        IN  /\ \/ posted = {} /\ reviews[n].status # "APPROVED"
               \/ Cardinality(posted) = 1 /\ reviews[n].status = "APPROVED"
               \/ ~Seen("review", n)
            /\ \A m \in posted :
                  LET still == \A i \in reviews[n].since + 1 .. counts[m].after : journal[i].branch # reviews[n].branch
                      change == IF counts[m].result.variance = 0 THEN 0 ELSE 1
                  IN  still => StockOf(SubSeq(journal, 1, counts[m].after + change), reviews[n].branch)
                                 = counts[m].result.counted

\* A transfer never takes more than its branch has: only one that another request overtook may.
TransfersCovered ==
    \A n \in DOMAIN transfers :
        Seen("transfer", n)
          => StockOf(SubSeq(journal, 1, transfers[n].after), transfers[n].source) >= transfers[n].quantity

\* One restock task of a product is under way in a branch, unless two were created side by side.
OneRestockEach ==
    \A b \in Branches : Cardinality({n \in ActiveTasks(b) : Seen("task", n)}) <= 1

\* The boards say what the services do: READY is what a receipt would be accepted for, and the
\* receipts, counts, adjustments and transfers a branch is shown add up to its stock.
BoardsTellTheLedger ==
    /\ \A o \in PurchaseOrders : ReceivingStatus(o) = "READY" <=> Receivable(o)
    /\ \A b \in Branches : StockOnHand(b) = ReceivedAt(b) + CountedAt(b) + AdjustedAt(b) + MovedAt(b)

\* Each document settles once, and the boards tell what the ledger holds.
DocumentsSettle == ReceivedOnceApproved /\ ReviewSettlesOnce /\ BoardsTellTheLedger

\* What a request was checked against holds when it is booked, but for the overtaken ones.
StockRequestsHold == TransfersCovered /\ OneRestockEach
=============================================================================
