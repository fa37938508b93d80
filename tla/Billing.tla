------------------------------- MODULE Billing -------------------------------
(***************************************************************************)
(* Sales, returns, exchanges and refund approvals of one branch, and the   *)
(* inventory ledger they write (services/billing.py, billing_policy.py,    *)
(* returns_policy.py, exchange_policy.py, repositories/billing.py).        *)
(*                                                                         *)
(* Every request is one database transaction under READ COMMITTED.  It     *)
(* first reads and checks, then counts the branch's documents to number    *)
(* its own, and then writes and commits, so other requests commit between  *)
(* its reads.  The only thing that orders two requests is the unique       *)
(* constraint on (branch, number): an INSERT waits for a transaction that  *)
(* holds the same number and fails if that one commits.                    *)
(*                                                                         *)
(* Amounts are whole multiples of a smallest price; a request has lines of *)
(* one product, one line or two.                                           *)
(***************************************************************************)
EXTENDS Integers, FiniteSets, Functions

CONSTANTS
    Requests,    \* HTTP requests; each carries out one operation at most
    Products,
    Price,       \* product -> unit price, tax included
    Opening,     \* product -> stock the branch opens with
    Serials,     \* product -> its serialized units, {} when it has none
    MaxQty,      \* bound: quantity of a line
    MaxSecond    \* bound: quantity of a second line of the same product

ASSUME BillingAssumption ==
    /\ IsFiniteSet(Requests)
    /\ Price \in [Products -> Nat \ {0}]
    /\ Opening \in [Products -> Nat]
    /\ MaxQty \in Nat \ {0}
    /\ MaxSecond \in Nat

VARIABLES
    pc,        \* request -> where it stands
    op,        \* request -> what it asks for, as it was checked
    noteNo,    \* request -> credit note number it computed, or 0
    saleNo,    \* request -> invoice number it computed, or 0
    sale,      \* request -> the sale and invoice it committed, or NoSale
    note,      \* request -> the return and credit note it committed, or NoNote
    ledger,    \* product -> sum of its inventory ledger entries
    credited,  \* request -> store credit issued for its return
    behind,    \* history: requests whose figures another one has changed since they read them
    late       \* history: requests that committed although they were behind

vars == <<pc, op, noteNo, saleNo, sale, note, ledger, credited, behind, late>>

Lines       == [first : 1 .. MaxQty, second : 0 .. MaxSecond]   \* second = 0: no such line
Qty(l)      == l.first + l.second
EachLine(l, max) == l.first <= max /\ l.second <= max
LastLine(l) == IF l.second = 0 THEN l.first ELSE l.second

NoOp   == [kind |-> "none"]
NoSale == [number |-> 0]
NoNote == [number |-> 0]

Methods    == {"CASH", "STORE_CREDIT"}
NoteStatus == {"REFUND_PENDING_APPROVAL", "REFUND_APPROVED", "EXCHANGE_SETTLED"}

Sold     == {r \in Requests : sale[r] # NoSale}
Returned == {r \in Requests : note[r] # NoNote}
NotesOf(s) == {r \in Returned : note[r].of = s}

ReturnedQty(s) == SumFunctionOnSet([r \in NotesOf(s) |-> note[r].qty], NotesOf(s))
Refunded(s)    == SumFunctionOnSet([r \in NotesOf(s) |-> note[r].refund], NotesOf(s))

SoldUnits    == UNION {sale[s].units : s \in Sold}
Available(p) == Serials[p] \ SoldUnits

Init ==
    /\ pc = [r \in Requests |-> "idle"]
    /\ op = [r \in Requests |-> NoOp]
    /\ noteNo = [r \in Requests |-> 0]
    /\ saleNo = [r \in Requests |-> 0]
    /\ sale = [r \in Requests |-> NoSale]
    /\ note = [r \in Requests |-> NoNote]
    /\ ledger = Opening
    /\ credited = [r \in Requests |-> 0]
    /\ behind = {}
    /\ late = {}

-----------------------------------------------------------------------------
(* Reading and checking. *)

Checked(r, o) ==
    /\ pc[r] = "idle"
    /\ op' = [op EXCEPT ![r] = o]
    /\ pc' = [pc EXCEPT ![r] = "checked"]
    /\ UNCHANGED <<noteNo, saleNo, sale, note, ledger, credited, behind, late>>

\* build_preview: every line on its own against the stock on hand, and the
\* serial numbers asked for against the available units.
CheckSale(r, p, l, units) ==
    /\ EachLine(l, ledger[p])
    /\ Serials[p] # {} => Cardinality(units) = Qty(l)
    /\ units \subseteq Available(p)
    /\ Checked(r, [kind |-> "sale", product |-> p, out |-> Qty(l), last |-> LastLine(l), units |-> units])

\* Mutant of ReturnAllowed: forgets what came back before.
ReturnAllowedOfSold(s, l) == EachLine(l, sale[s].last)

\* build_sale_return_draft: every line on its own, against what earlier returns
\* left of the last line that sold the product.
ReturnAllowed(s, l) == EachLine(l, sale[s].last - ReturnedQty(s))

\* ensure_refund_amount_allowed.
RefundAllowed(s, refund, value) ==
    /\ refund <= sale[s].qty * Price[sale[s].product] - Refunded(s)
    /\ refund <= value

CheckReturn(r, s, l, refund, method, approver) ==
    /\ s \in Sold
    /\ ReturnAllowed(s, l)
    /\ RefundAllowed(s, refund, Qty(l) * Price[sale[s].product])
    /\ Checked(r, [kind |-> "return", of |-> s, in |-> Qty(l), refund |-> refund, method |-> method,
                   status |-> IF approver THEN "REFUND_APPROVED" ELSE "REFUND_PENDING_APPROVAL"])

\* build_exchange_settlement: what is refunded, and how the return is settled.
Settlement(value, total, method, approver) ==
    IF total < value
    THEN [refund |-> value - total, method |-> method,
          status |-> IF approver THEN "REFUND_APPROVED" ELSE "REFUND_PENDING_APPROVAL"]
    ELSE [refund |-> 0, method |-> "EXCHANGE_CREDIT", status |-> "EXCHANGE_SETTLED"]

\* Mutant of ComingBack: counts what comes back for every product.
ComingBackOfAny(s, l, p) == LastLine(l)

\* The stock check of an exchange adds what comes back, of the last line of a product.
ComingBack(s, l, p) == IF p = sale[s].product THEN LastLine(l) ELSE 0

CheckExchange(r, s, l, p, out, method, approver) ==
    /\ s \in Sold
    /\ ReturnAllowed(s, l)
    /\ EachLine(out, ledger[p] + ComingBack(s, l, p))
    /\ LET value  == Qty(l) * Price[sale[s].product]
           settle == Settlement(value, Qty(out) * Price[p], method, approver)
       IN /\ RefundAllowed(s, settle.refund, value)
          /\ Checked(r, [kind |-> "exchange", of |-> s, in |-> Qty(l), product |-> p, out |-> Qty(out),
                         last |-> LastLine(out), refund |-> settle.refund, method |-> settle.method, status |-> settle.status,
                         value |-> value])

ReadForApproval(r, n) ==
    /\ n \in Returned
    /\ Checked(r, [kind |-> "approve", note |-> n, already |-> note[n].status = "REFUND_APPROVED"])

-----------------------------------------------------------------------------
(* Numbering: one more than the documents that are committed now.  The     *)
(* INSERT that follows holds the number until its transaction ends.        *)

HasNoteNo(r) == pc[r] = "noteIn" \/ (pc[r] \in {"saleCounted", "saleIn"} /\ op[r].kind = "exchange")
HasSaleNo(r) == pc[r] = "saleIn"

\* Mutant of NoteNoTaken: no unique constraint on the credit note number.
NoteNoTakenNever(r) == FALSE

NoteNoTaken(r) == \E o \in Returned : note[o].number = noteNo[r]
SaleNoTaken(r) == \E o \in Sold : sale[o].number = saleNo[r]
NoteNoHeld(r)  == \E o \in Requests : HasNoteNo(o) /\ noteNo[o] = noteNo[r]
SaleNoHeld(r)  == \E o \in Requests : HasSaleNo(o) /\ saleNo[o] = saleNo[r]

CountNotes(r) ==
    /\ pc[r] = "checked"
    /\ op[r].kind \in {"return", "exchange"}
    /\ noteNo' = [noteNo EXCEPT ![r] = Cardinality(Returned) + 1]
    /\ pc' = [pc EXCEPT ![r] = "noteCounted"]
    /\ UNCHANGED <<op, saleNo, sale, note, ledger, credited, behind, late>>

InsertNote(r) ==
    /\ pc[r] = "noteCounted"
    /\ ~NoteNoTaken(r) /\ ~NoteNoHeld(r)
    /\ pc' = [pc EXCEPT ![r] = "noteIn"]
    /\ UNCHANGED <<op, noteNo, saleNo, sale, note, ledger, credited, behind, late>>

CountSales(r) ==
    /\ \/ pc[r] = "checked" /\ op[r].kind = "sale"
       \/ pc[r] = "noteIn" /\ op[r].kind = "exchange"
    /\ saleNo' = [saleNo EXCEPT ![r] = Cardinality(Sold) + 1]
    /\ pc' = [pc EXCEPT ![r] = "saleCounted"]
    /\ UNCHANGED <<op, noteNo, sale, note, ledger, credited, behind, late>>

\* Mutant of InsertSale: does not look for the units again.
InsertSaleTrusting(r) ==
    /\ pc[r] = "saleCounted"
    /\ ~SaleNoTaken(r) /\ ~SaleNoHeld(r)
    /\ pc' = [pc EXCEPT ![r] = "saleIn"]
    /\ UNCHANGED <<op, noteNo, saleNo, sale, note, ledger, credited, behind, late>>

\* After its invoice is in, a sale looks for its serialized units again.
InsertSale(r) ==
    /\ pc[r] = "saleCounted"
    /\ ~SaleNoTaken(r) /\ ~SaleNoHeld(r)
    /\ op[r].kind = "sale" => op[r].units \subseteq Available(op[r].product)
    /\ pc' = [pc EXCEPT ![r] = "saleIn"]
    /\ UNCHANGED <<op, noteNo, saleNo, sale, note, ledger, credited, behind, late>>

\* The unique constraint, or units sold meanwhile: the transaction rolls back.
Refused(r) ==
    \/ pc[r] = "noteCounted" /\ NoteNoTaken(r)
    \/ pc[r] = "saleCounted" /\ SaleNoTaken(r)
    \/ pc[r] = "saleCounted" /\ op[r].kind = "sale" /\ ~(op[r].units \subseteq Available(op[r].product))

RollBack(r) ==
    /\ Refused(r)
    /\ pc' = [pc EXCEPT ![r] = "done"]
    /\ behind' = behind \ {r}
    /\ UNCHANGED <<op, noteNo, saleNo, sale, note, ledger, credited, late>>

-----------------------------------------------------------------------------
(* Writing and committing. *)

\* What a request read that another one's commit may change.
Figures(o) ==
    CASE o.kind = "sale"     -> {<<"stock", o.product>>}
      [] o.kind = "return"   -> {<<"returns", o.of>>}
      [] o.kind = "exchange" -> {<<"stock", o.product>>, <<"returns", o.of>>}
      [] o.kind = "approve"  -> {<<"approval", o.note>>}
      [] OTHER               -> {}

Overtaken(r) ==
    {o \in Requests \ {r} : pc[o] \notin {"idle", "done"} /\ Figures(op[o]) \cap Figures(op[r]) # {}}

Commit(r) ==
    /\ pc' = [pc EXCEPT ![r] = "done"]
    /\ late' = IF r \in behind THEN late \cup {r} ELSE late
    /\ behind' = (behind \cup Overtaken(r)) \ {r}
    /\ UNCHANGED <<op, noteNo, saleNo>>

Total(r) == op[r].out * Price[op[r].product]

SaleOf(r, cash, units) ==
    [number |-> saleNo[r], product |-> op[r].product, qty |-> op[r].out, last |-> op[r].last,
     cash |-> cash, units |-> units]

\* create_sale: sale, invoice, payments, units and ledger entries in one commit.
PostSale(r) ==
    /\ pc[r] = "saleIn" /\ op[r].kind = "sale"
    /\ sale' = [sale EXCEPT ![r] = SaleOf(r, Total(r), op[r].units)]
    /\ ledger' = [ledger EXCEPT ![op[r].product] = @ - op[r].out]
    /\ Commit(r)
    /\ UNCHANGED <<note, credited>>

NoteOf(r) ==
    [number |-> noteNo[r], of |-> op[r].of, qty |-> op[r].in, refund |-> op[r].refund,
     method |-> op[r].method, status |-> op[r].status]

\* create_sale_return: an approver's return to store credit issues it at once.
PostReturn(r) ==
    /\ pc[r] = "noteIn" /\ op[r].kind = "return"
    /\ note' = [note EXCEPT ![r] = NoteOf(r)]
    /\ ledger' = [ledger EXCEPT ![sale[op[r].of].product] = @ + op[r].in]
    /\ credited' = [credited EXCEPT ![r] =
                      IF op[r].status = "REFUND_APPROVED" /\ op[r].method = "STORE_CREDIT"
                      THEN op[r].refund ELSE 0]
    /\ Commit(r)
    /\ UNCHANGED sale

\* The replacement is paid with the credit of what comes back, the rest in cash.
Replacement(r) == SaleOf(r, IF Total(r) > op[r].value THEN Total(r) - op[r].value ELSE 0, {})

\* Mutant of PostExchange: books what comes back and not what goes out.
PostExchangeTakeBackOnly(r) ==
    /\ pc[r] = "saleIn" /\ op[r].kind = "exchange"
    /\ sale' = [sale EXCEPT ![r] = Replacement(r)]
    /\ note' = [note EXCEPT ![r] = NoteOf(r)]
    /\ ledger' = [ledger EXCEPT ![sale[op[r].of].product] = @ + op[r].in]
    /\ Commit(r)
    /\ UNCHANGED credited

\* create_exchange: the return and the replacement sale in one commit.  It
\* touches no serialized unit and issues no store credit.
PostExchange(r) ==
    /\ pc[r] = "saleIn" /\ op[r].kind = "exchange"
    /\ sale' = [sale EXCEPT ![r] = Replacement(r)]
    /\ note' = [note EXCEPT ![r] = NoteOf(r)]
    /\ ledger' = [p \in Products |-> ledger[p]
                    + (IF p = sale[op[r].of].product THEN op[r].in ELSE 0)
                    - (IF p = op[r].product THEN op[r].out ELSE 0)]
    /\ Commit(r)
    /\ UNCHANGED credited

Approved(r) == [note EXCEPT ![op[r].note].status = "REFUND_APPROVED"]

\* Mutant of PostApproval: issues the credit of an approved return again.
PostApprovalAgain(r) ==
    /\ pc[r] = "checked" /\ op[r].kind = "approve"
    /\ note' = Approved(r)
    /\ LET n == op[r].note IN
         credited' = [credited EXCEPT ![n] = IF note[n].method = "STORE_CREDIT" THEN @ + note[n].refund ELSE @]
    /\ Commit(r)
    /\ UNCHANGED <<sale, ledger>>

\* approve_sale_return_refund: any return becomes approved; store credit is
\* issued unless the return was approved when this request read it.
PostApproval(r) ==
    /\ pc[r] = "checked" /\ op[r].kind = "approve"
    /\ note' = Approved(r)
    /\ LET n == op[r].note IN
         credited' = [credited EXCEPT ![n] =
                        IF ~op[r].already /\ note[n].method = "STORE_CREDIT" THEN @ + note[n].refund ELSE @]
    /\ Commit(r)
    /\ UNCHANGED <<sale, ledger>>

-----------------------------------------------------------------------------
Ask(r) ==
    \/ \E p \in Products, l \in Lines : \E units \in SUBSET Serials[p] : CheckSale(r, p, l, units)
    \/ \E s \in Sold, l \in Lines, m \in Methods, approver \in BOOLEAN :
         \/ \E refund \in 0 .. Qty(l) * Price[sale[s].product] : CheckReturn(r, s, l, refund, m, approver)
         \/ \E p \in Products, out \in Lines : CheckExchange(r, s, l, p, out, m, approver)
    \/ \E n \in Returned : ReadForApproval(r, n)

Step(r) ==
    \/ CountNotes(r) \/ InsertNote(r) \/ CountSales(r) \/ InsertSale(r) \/ RollBack(r)
    \/ PostSale(r) \/ PostReturn(r) \/ PostExchange(r) \/ PostApproval(r)

\* Every request that was made has been answered.
Quiet == (\A r \in Requests : pc[r] \in {"idle", "done"}) /\ UNCHANGED vars

Next == (\E r \in Requests : Ask(r) \/ Step(r)) \/ Quiet

Spec == Init /\ [][Next]_vars

-----------------------------------------------------------------------------
Ops ==
    {NoOp}
    \cup [kind : {"sale"}, product : Products, out : Nat, last : Nat, units : SUBSET UNION {Serials[p] : p \in Products}]
    \cup [kind : {"return"}, of : Requests, in : Nat, refund : Nat, method : Methods, status : NoteStatus]
    \cup [kind : {"exchange"}, of : Requests, in : Nat, product : Products, out : Nat, last : Nat, refund : Nat,
          method : Methods \cup {"EXCHANGE_CREDIT"}, status : NoteStatus, value : Nat]
    \cup [kind : {"approve"}, note : Requests, already : BOOLEAN]

\* Type correctness of the tables and of the requests in flight.
TypeOK ==
    /\ pc \in [Requests -> {"idle", "checked", "noteCounted", "noteIn", "saleCounted", "saleIn", "done"}]
    /\ op \in [Requests -> Ops]
    /\ noteNo \in [Requests -> Nat]
    /\ saleNo \in [Requests -> Nat]
    /\ \A r \in Sold : sale[r] \in [number : Nat \ {0}, product : Products, qty : Nat \ {0}, last : Nat, cash : Nat,
                                    units : SUBSET Serials[sale[r].product]]
    /\ \A r \in Returned : note[r] \in [number : Nat \ {0}, of : Sold, qty : Nat \ {0}, refund : Nat,
                                        method : Methods \cup {"EXCHANGE_CREDIT"}, status : NoteStatus]
    /\ ledger \in [Products -> Int]
    /\ credited \in [Requests -> Nat]
    /\ behind \subseteq Requests /\ late \subseteq Requests

\* Invoices are numbered 1, 2, 3, ... without gap or repetition, and so are
\* credit notes, although every number is a count read some time before.
NumbersWithoutGap ==
    /\ {sale[r].number : r \in Sold} = 1 .. Cardinality(Sold)
    /\ {note[r].number : r \in Returned} = 1 .. Cardinality(Returned)

\* A serialized unit is sold once: the units are read again while the
\* transaction holds its invoice number, and that serializes the sales.
UnitSoldOnce ==
    \A r1, r2 \in Sold : r1 # r2 => sale[r1].units \cap sale[r2].units = {}

\* Stock goes below zero only through a sale or an exchange that committed
\* after another one took the stock it had checked (or, with MaxSecond > 0,
\* through two lines of one product, which are checked one by one).
StockCovered ==
    \A p \in Products : ledger[p] < 0 => \E r \in Sold \cap late : sale[r].product = p

\* No more comes back than was sold, and no more is refunded than was paid,
\* unless two returns of one sale were checked before either was posted (or,
\* with MaxSecond > 0, a return has two lines of one product).
ReturnsCovered ==
    \A s \in Sold : NotesOf(s) \cap late = {} =>
        /\ ReturnedQty(s) <= sale[s].qty
        /\ Refunded(s) <= sale[s].qty * Price[sale[s].product]

\* Over all sales, returns and exchanges, never more money is given back than
\* was taken in, although an exchange pays for goods with credit.
RefundsWithinTakings ==
    Returned \cap late = {} =>
        SumFunctionOnSet([r \in Returned |-> note[r].refund], Returned)
          <= SumFunctionOnSet([r \in Sold |-> sale[r].cash], Sold)

\* What comes back, goods and money, is covered by what went out.
ReturnsSettle == ReturnsCovered /\ RefundsWithinTakings

\* Store credit follows approval exactly: a return to store credit has issued
\* its refund once when it is approved and nothing before, whether an approver
\* made it or a later request approved it, unless two approvals both read it
\* before either committed.  An exchange may issue less, and never more.
CreditMatchesApproval ==
    \A n \in Returned :
        \/ \E r \in late : op[r].kind = "approve" /\ op[r].note = n
        \/ IF note[n].status = "REFUND_APPROVED" /\ note[n].method = "STORE_CREDIT"
           THEN IF op[n].kind = "return" THEN credited[n] = note[n].refund
                                         ELSE credited[n] \in {0, note[n].refund}
           ELSE credited[n] = 0

\* What returns_policy says it refuses: more coming back of a sale than was
\* sold ("Return quantity exceeds remaining sale quantity").
ReturnsWithinSold == \A s \in Sold : ReturnedQty(s) <= sale[s].qty

-----------------------------------------------------------------------------
\* The tables read as a branch's books: documents in the order of their numbers.
Invoices ==
    [n \in 1 .. Cardinality(Sold) |->
       LET r == CHOOSE r \in Sold : sale[r].number = n
       IN [product |-> sale[r].product, qty |-> sale[r].qty]]

CreditNotes ==
    [n \in 1 .. Cardinality(Returned) |->
       LET r == CHOOSE r \in Returned : note[r].number = n
       IN [invoice |-> sale[note[r].of].number, qty |-> note[r].qty]]

Books == INSTANCE BranchLedger WITH invoices <- Invoices, notes <- CreditNotes, stock <- ledger,
                               Quantities <- 1 .. MaxQty + MaxSecond

\* Each request takes effect at one instant, in the order of its numbers.
ImplementsBranchLedger == Books!Spec
=============================================================================
