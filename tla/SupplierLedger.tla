--------------------------- MODULE SupplierLedger ---------------------------
(***************************************************************************)
(* What a branch owes its suppliers: purchase invoices, supplier returns,   *)
(* payments and disputes (services/procurement_finance.py and its policy),  *)
(* and the supplier reports, whose snapshots are marked dirty by these and  *)
(* refreshed by a worker (services/supplier_reporting.py).                  *)
(*                                                                          *)
(* One product at the price of 1; one report.  A snapshot's payload is the  *)
(* number of facts it was built from.  The ORM writes a column only if it   *)
(* changes the value it has read: a flag read as dirty is not set again.    *)
(***************************************************************************)
EXTENDS Desk, Sums

CONSTANTS
    GoodsReceipts,
    ReceiptTotal,   \* goods receipt -> the total of its invoice
    MaxFacts,       \* bound: facts when a new one begins
    MaxSnapshots    \* bound: rows of the one report

ASSUME SupplierLedgerAssumption ==
    /\ ReceiptTotal \in [GoodsReceipts -> Nat \ {0}] /\ {MaxFacts, MaxSnapshots} \subseteq Nat

VARIABLES
    facts,      \* invoices, returns, payments and disputes, in the order of commits
    snapshots,  \* supplier_report_snapshots: the facts a row shows and its is_dirty
    refreshJob  \* the SUPPLIER_REPORT_REFRESH job of the report: "none", "queued" or "running"

supplierRows == <<facts, snapshots, refreshJob>>
supplierVars == <<supplierRows, deskVars>>

SupplierLedgerInit == facts = <<>> /\ snapshots = <<>> /\ refreshJob = "none" /\ DeskInit

Total(l, type, g) ==
    Added([n \in DOMAIN l |-> IF l[n].type = type /\ l[n].receipt = g THEN l[n].amount ELSE 0])
Billed(g) == Total(facts, "invoice", g) > 0

\* The rows a request sees dirty, as it begins or as it ends.
DirtyNow == {n \in DOMAIN snapshots : snapshots[n].dirty}
Asks(r, errand) == Checked(r, errand) /\ UNCHANGED supplierRows

-----------------------------------------------------------------------------
(* Procurement finance. *)

Records(r, fact) ==
    /\ Len(facts) < MaxFacts
    /\ Asks(r, [op |-> "fact", fact |-> fact, dirty |-> DirtyNow, rows |-> DOMAIN snapshots])

CreatePurchaseInvoice(r, g) ==
    ~Billed(g) /\ Records(r, [type |-> "invoice", receipt |-> g, amount |-> ReceiptTotal[g], lines |-> 1])

\* build_supplier_return_draft, of one line
Returnable(g, quantity) == quantity > 0 /\ quantity <= ReceiptTotal[g] - Total(facts, "return", g)

\* Each line of a request is compared with what went back before it: lines of one product pass together.
CreateSupplierReturn(r, g, quantity, lines) ==
    /\ Billed(g) /\ Returnable(g, quantity)
    /\ Records(r, [type |-> "return", receipt |-> g, amount |-> quantity * lines, lines |-> lines])

AtLeast0(n) == IF n < 0 THEN 0 ELSE n
Outstanding(l, g) == AtLeast0(ReceiptTotal[g] - Total(l, "return", g) - Total(l, "payment", g))

\* Mutant of Payable: forgets the credit notes.
PayableOnPaper(g, amount) == amount > 0 /\ amount <= AtLeast0(ReceiptTotal[g] - Total(facts, "payment", g))

\* ensure_supplier_payment_within_outstanding
Payable(g, amount) == amount > 0 /\ amount <= Outstanding(facts, g)

CreateSupplierPayment(r, g, amount) ==
    /\ Billed(g) /\ Payable(g, amount)
    /\ Records(r, [type |-> "payment", receipt |-> g, amount |-> amount, lines |-> 1])

\* build_supplier_payables_report
SettlementStatus(g) ==
    CASE Outstanding(facts, g) = 0 -> "SETTLED"
      [] Outstanding(facts, g) > 0 /\ Total(facts, "return", g) + Total(facts, "payment", g) > 0 -> "PARTIALLY_SETTLED"
      [] OTHER -> "UNPAID"

\* Vendor disputes of a receipt, opened and resolved; these ask for the refresh themselves.
CreateVendorDispute(r, g) == Records(r, [type |-> "dispute", receipt |-> g, amount |-> 0, lines |-> 1])

ResolveVendorDispute(r, n) ==
    /\ facts[n].type = "dispute"
    /\ \A m \in DOMAIN facts : facts[m].type = "resolution" => facts[m].lines # n
    /\ Records(r, [type |-> "resolution", receipt |-> facts[n].receipt, amount |-> 0, lines |-> n])

\* Mutant of Marked: forgets the reports.
MarkedNever(seen, rows) == snapshots

\* mark_branch_snapshots_dirty: of the rows it has seen, those it has not seen dirty.
Marked(seen, rows) ==
    [n \in DOMAIN snapshots |-> IF n \in rows \ seen THEN [snapshots[n] EXCEPT !.dirty = TRUE] ELSE snapshots[n]]

\* The fact and the marks are one transaction; an invoice's receipt and a credit note's number are
\* unique.  The snapshots are read any time before it ends.
StoreFact(r, late) ==
    /\ Doing(r, "fact")
    /\ LET d == desk[r]
           f == d.fact
           asks == f.type \in {"dispute", "resolution"}
       IN  /\ f.type = "invoice" => ~Billed(f.receipt)
           /\ facts' = Append(facts, f)
           /\ snapshots' = IF late THEN Marked(DirtyNow, DOMAIN snapshots) ELSE Marked(d.dirty, d.rows)
           /\ refreshJob' = IF asks /\ snapshots # <<>> /\ refreshJob = "none" THEN "queued" ELSE refreshJob
    /\ Committed(r, {<<"fact", Len(facts) + 1>>})

-----------------------------------------------------------------------------
(* Reports. *)

\* _branch_snapshot, of a dirty row: answered STALE_REFRESH_QUEUED, and one refresh is queued.  With
\* two rows of the report, either may be the one found.
ReadStale(n) ==
    /\ snapshots[n].dirty /\ refreshJob = "none"
    /\ refreshJob' = "queued"
    /\ AtOnce
    /\ UNCHANGED <<facts, snapshots>>

\* The first read seeds the row; nothing makes it unique, as supplier_id is NULL.
SeedSnapshot(r) ==
    /\ snapshots = <<>>
    /\ Asks(r, [op |-> "refresh", shows |-> Len(facts), row |-> 0, job |-> FALSE, dirty |-> {}])

\* The worker runs the job: the row it will find, and all the facts, read now.
RunRefresh(r, n) ==
    /\ refreshJob = "queued"
    /\ Checked(r, [op |-> "refresh", shows |-> Len(facts), row |-> n, job |-> TRUE, dirty |-> DirtyNow])
    /\ refreshJob' = "running"
    /\ UNCHANGED <<facts, snapshots>>

\* upsert_snapshot: the flag is cleared if it was read as set.
StoreSnapshot(r, late) ==
    /\ Doing(r, "refresh")
    /\ LET d == desk[r]
           read == IF late THEN DirtyNow ELSE d.dirty
       IN  /\ IF d.row = 0
              THEN Len(snapshots) < MaxSnapshots /\ snapshots' = Append(snapshots, [shows |-> d.shows, dirty |-> FALSE])
              ELSE snapshots' = [snapshots EXCEPT ![d.row] =
                     [shows |-> d.shows, dirty |-> snapshots[d.row].dirty /\ d.row \notin read]]
           /\ refreshJob' = IF d.job THEN "none" ELSE refreshJob
           /\ Committed(r, {<<"snapshot", IF d.row = 0 THEN Len(snapshots) + 1 ELSE d.row>>})
    /\ UNCHANGED facts

\* A refresh that fails is retried.
FinanceFails(r) ==
    /\ RolledBack(r)
    /\ refreshJob' = IF Doing(r, "refresh") /\ desk[r].job THEN "queued" ELSE refreshJob
    /\ UNCHANGED <<facts, snapshots>>

SupplierLedgerNext ==
    \/ \E r \in Desks :
         \/ \E g \in GoodsReceipts :
              \/ CreatePurchaseInvoice(r, g) \/ CreateVendorDispute(r, g)
              \/ \E q \in 1 .. ReceiptTotal[g] :
                   \/ CreateSupplierPayment(r, g, q)
                   \/ \E lines \in 1 .. 2 : CreateSupplierReturn(r, g, q, lines)
         \/ \E n \in DOMAIN facts : ResolveVendorDispute(r, n)
         \/ \E n \in DOMAIN snapshots : RunRefresh(r, n)
         \/ \E late \in BOOLEAN : StoreFact(r, late) \/ StoreSnapshot(r, late)
         \/ SeedSnapshot(r) \/ FinanceFails(r)
    \/ \E n \in DOMAIN snapshots : ReadStale(n)

SupplierLedgerSpec == SupplierLedgerInit /\ [][SupplierLedgerNext]_supplierVars

-----------------------------------------------------------------------------
(* Properties. *)

\* A payment never exceeds what is left of the invoice after the returns and payments before it, and
\* what is returned never exceeds what was invoiced: unless another request overtook it or, of a
\* return, its lines repeat a product.  SETTLED is shown of what takes no more payments.
NeverOverpaid ==
    /\ \A n \in DOMAIN facts :
          LET before == SubSeq(facts, 1, n - 1)
              g == facts[n].receipt
          IN  Seen("fact", n)
                => /\ facts[n].type = "payment" => facts[n].amount <= Outstanding(before, g)
                   /\ facts[n].type = "return" /\ facts[n].lines = 1
                        => Total(before, "return", g) + facts[n].amount <= ReceiptTotal[g]
    /\ \A g \in GoodsReceipts : Billed(g) => (SettlementStatus(g) = "SETTLED" <=> ~Payable(g, 1))

\* A report that is answered as CURRENT shows every fact, but for those committed while it was being
\* refreshed, or by a request during which it was refreshed.
CleanIsCurrent ==
    \A n \in DOMAIN snapshots :
        ~snapshots[n].dirty /\ snapshots[n].shows < Len(facts)
          => \/ ~Seen("snapshot", n)
             \/ \E m \in snapshots[n].shows + 1 .. Len(facts) : ~Seen("fact", m)
=============================================================================
