----------------------------- MODULE BatchLots ------------------------------
(***************************************************************************)
(* Batch lots of a goods receipt and their expiry: the report that spreads  *)
(* the stock over the lots, write-offs, and reviewed write-offs             *)
(* (services/batches.py, batches_policy.py).                                *)
(*                                                                          *)
(* One product of one branch.  What was sold is not booked on a lot: the    *)
(* report takes it from the lots that expire first.  Lot numbers are unique *)
(* within the receipt only where two lots have the same number.             *)
(***************************************************************************)
EXTENDS Desk, Sums

CONSTANTS
    ReceivedQuantity,  \* the goods receipt's quantity
    Splits,            \* what may be recorded as its lots: their quantities, first expiry first
    MaxWriteOffs,      \* bounds: write-offs and reviews when one begins
    MaxExpiryReviews

ASSUME BatchLotsAssumption ==
    /\ {ReceivedQuantity, MaxWriteOffs, MaxExpiryReviews} \subseteq Nat
    /\ Splits \subseteq Seq(Nat \ {0})

VARIABLES
    lots,           \* batch_lots: quantities; those of one recording in the order of expiry
    recordings,     \* history: the number of lots of each recording
    writeOffs,      \* batch_expiry_write_offs, each with its EXPIRY_WRITE_OFF ledger entry
    expiryReviews,  \* batch_expiry_review_sessions
    sold            \* what the tills have sold of the product

batchRows == <<lots, recordings, writeOffs, expiryReviews, sold>>
batchVars == <<batchRows, deskVars>>

BatchLotsInit ==
    /\ lots = <<>> /\ recordings = <<>> /\ writeOffs = <<>> /\ expiryReviews = <<>>
    /\ sold = 0
    /\ DeskInit

Lesser(a, b) == IF a < b THEN a ELSE b
NonNegative(n) == IF n < 0 THEN 0 ELSE n

WrittenOff(n) ==
    Added([w \in DOMAIN writeOffs |-> IF writeOffs[w].lot = n THEN writeOffs[w].quantity ELSE 0])
ProductStock == ReceivedQuantity - sold - Added([w \in DOMAIN writeOffs |-> writeOffs[w].quantity])

-----------------------------------------------------------------------------
(* build_batch_expiry_report: a lot's remaining quantity. *)

\* Mutant of UsedBefore: the last to expire is used up first.
UsedBeforeLast(m, n) == m > n

\* The lots are listed, and used up, first expiry first.
UsedBefore(m, n) == m < n

\* What is not in stock any more is taken from one lot after the other.
Depleted ==
    LET net == [n \in DOMAIN lots |-> NonNegative(lots[n] - WrittenOff(n))]
        total == Added(net)
        gone == total - Lesser(ProductStock, total)
        goneBefore(n) == NonNegative(gone - Added([m \in DOMAIN lots |-> IF UsedBefore(m, n) THEN net[m] ELSE 0]))
    IN  [net |-> net, total |-> total,
         remaining |-> [n \in DOMAIN lots |-> net[n] - Lesser(net[n], goneBefore(n))]]

Remaining(n) == Depleted.remaining[n]

-----------------------------------------------------------------------------
Looks(r, errand) == Checked(r, errand) /\ UNCHANGED batchRows

\* validate_goods_receipt_batch_lots; a receipt whose lots are recorded is refused.
CreateBatchLots(r, split) ==
    /\ lots = <<>> /\ Added(split) = ReceivedQuantity
    /\ Looks(r, [op |-> "lots", split |-> split])

StoreBatchLots(r) ==
    /\ Doing(r, "lots")
    /\ lots' = lots \o desk[r].split
    /\ recordings' = Append(recordings, Len(desk[r].split))
    /\ Committed(r, {<<"recording", Len(recordings) + 1>>})
    /\ UNCHANGED <<writeOffs, expiryReviews, sold>>

\* ensure_expiry_write_off_allowed
WriteOffAllowed(n, quantity) == quantity > 0 /\ quantity <= Remaining(n)

CreateExpiryWriteOff(r, n, quantity) ==
    /\ Looks(r, [op |-> "writeoff", lot |-> n, quantity |-> quantity, review |-> 0])
    /\ WriteOffAllowed(n, quantity) /\ Len(writeOffs) < MaxWriteOffs

ActiveReviews(n) ==
    {i \in DOMAIN expiryReviews : expiryReviews[i].lot = n /\ expiryReviews[i].status \in {"OPEN", "REVIEWED"}}

CreateExpiryReview(r, n) ==
    /\ Looks(r, [op |-> "open", lot |-> n, snapshot |-> Remaining(n)])
    /\ Remaining(n) > 0 /\ ActiveReviews(n) = {} /\ Len(expiryReviews) < MaxExpiryReviews

StoreExpiryReview(r) ==
    /\ Doing(r, "open")
    /\ expiryReviews' = Append(expiryReviews, [lot |-> desk[r].lot, snapshot |-> desk[r].snapshot,
                                               proposed |-> 0, status |-> "OPEN"])
    /\ Committed(r, {<<"expiry", Len(expiryReviews) + 1>>})
    /\ UNCHANGED <<lots, recordings, writeOffs, sold>>

\* The proposal is held against the remaining quantity of the day the session was opened.
RecordExpiryReview(r, i, quantity) ==
    /\ expiryReviews[i].status = "OPEN"
    /\ quantity > 0 /\ quantity <= expiryReviews[i].snapshot
    /\ Looks(r, [op |-> "propose", review |-> i, quantity |-> quantity])

StoreProposal(r) ==
    /\ Doing(r, "propose")
    /\ expiryReviews' = [expiryReviews EXCEPT ![desk[r].review].proposed = desk[r].quantity,
                                              ![desk[r].review].status = "REVIEWED"]
    /\ Committed(r, {<<"expiry", desk[r].review>>})
    /\ UNCHANGED <<lots, recordings, writeOffs, sold>>

\* Mutant of ReviewApprovable: an approved session may be approved again.
ReviewApprovableAgain(i) == expiryReviews[i].status \in {"REVIEWED", "APPROVED"}

\* ensure_batch_expiry_review_approvable
ReviewApprovable(i) == expiryReviews[i].status = "REVIEWED"

\* The proposal is held against what remains today.
ApproveExpiryReview(r, i) ==
    /\ Looks(r, [op |-> "writeoff", lot |-> expiryReviews[i].lot, quantity |-> expiryReviews[i].proposed, review |-> i])
    /\ ReviewApprovable(i) /\ WriteOffAllowed(expiryReviews[i].lot, expiryReviews[i].proposed)
    /\ Len(writeOffs) < MaxWriteOffs

\* A write-off and its ledger entry; a session's approval is in the same transaction.
StoreWriteOff(r) ==
    /\ Doing(r, "writeoff")
    /\ LET d == desk[r]
       IN  /\ writeOffs' = Append(writeOffs, [lot |-> d.lot, quantity |-> d.quantity, review |-> d.review])
           /\ expiryReviews' = IF d.review = 0 THEN expiryReviews ELSE [expiryReviews EXCEPT ![d.review].status = "APPROVED"]
           /\ Committed(r, {<<"writeoff", Len(writeOffs) + 1>>} \cup {<<"expiry", i>> : i \in {d.review} \ {0}})
    /\ UNCHANGED <<lots, recordings, sold>>

CancelExpiryReview(r, i) ==
    /\ expiryReviews[i].status \notin {"APPROVED", "CANCELED"}
    /\ Looks(r, [op |-> "withdraw", review |-> i])

StoreExpiryCancel(r) ==
    /\ Doing(r, "withdraw")
    /\ expiryReviews' = [expiryReviews EXCEPT ![desk[r].review].status = "CANCELED"]
    /\ Committed(r, {<<"expiry", desk[r].review>>})
    /\ UNCHANGED <<lots, recordings, writeOffs, sold>>

\* A sale (Billing), which knows of no lots.
SellOne ==
    /\ ProductStock > 0
    /\ sold' = sold + 1
    /\ AtOnce
    /\ UNCHANGED <<lots, recordings, writeOffs, expiryReviews>>

BatchFails(r) == RolledBack(r) /\ UNCHANGED batchRows

BatchLotsNext ==
    \/ \E r \in Desks :
         \/ \E split \in Splits : CreateBatchLots(r, split)
         \/ \E n \in DOMAIN lots :
              \/ CreateExpiryReview(r, n)
              \/ \E q \in 1 .. lots[n] : CreateExpiryWriteOff(r, n, q)
         \/ \E i \in DOMAIN expiryReviews :
              \/ ApproveExpiryReview(r, i) \/ CancelExpiryReview(r, i)
              \/ \E q \in 1 .. expiryReviews[i].snapshot : RecordExpiryReview(r, i, q)
         \/ StoreBatchLots(r) \/ StoreExpiryReview(r) \/ StoreProposal(r) \/ StoreWriteOff(r)
         \/ StoreExpiryCancel(r) \/ BatchFails(r)
    \/ SellOne

BatchLotsSpec == BatchLotsInit /\ [][BatchLotsNext]_batchVars

-----------------------------------------------------------------------------
(* Properties. *)

\* The report spreads no more over the lots than is in stock, all of it where the lots can hold it,
\* and shows a lot as begun only when those that expire before it are used up.
FirstExpiryFirstOut ==
    LET report == Depleted IN
    /\ Added(report.remaining) = Lesser(NonNegative(ProductStock), report.total)
    /\ \A m, n \in DOMAIN lots : m < n /\ report.remaining[m] > 0 => report.remaining[n] = report.net[n]

\* The lots are the receipt's quantity, recorded once; no lot loses more than it has, nor the product
\* more than is in stock; an approved review has written off once: unless a request that another one
\* overtook has written.
LotsCovered ==
    /\ Added(lots) \in {0, ReceivedQuantity} \/ \E n \in DOMAIN recordings : ~Seen("recording", n)
    /\ \A n \in DOMAIN lots :
          WrittenOff(n) > lots[n] => \E w \in DOMAIN writeOffs : ~Seen("writeoff", w)
    /\ ProductStock < 0 => \E w \in DOMAIN writeOffs : ~Seen("writeoff", w)
    /\ \A i \in DOMAIN expiryReviews :
          Seen("expiry", i)
            => Cardinality({w \in DOMAIN writeOffs : writeOffs[w].review = i})
                 = IF expiryReviews[i].status = "APPROVED" THEN 1 ELSE 0
=============================================================================
