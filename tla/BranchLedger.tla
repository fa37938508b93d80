---------------------------- MODULE BranchLedger ----------------------------
(***************************************************************************)
(* What a branch's books promise, whoever is writing them: invoices and    *)
(* credit notes are numbered one after the other with no gap, a document   *)
(* once posted is never changed, and stock moves with the documents and    *)
(* with nothing else.  Billing implements it.                              *)
(***************************************************************************)
EXTENDS Integers, Sequences

CONSTANTS
    Products,   \* products the branch sells
    Opening,    \* stock each product starts from
    Quantities  \* quantities a document may have

VARIABLES
    invoices,   \* the sales invoices, in the order of their numbers
    notes,      \* the credit notes, in the order of their numbers
    stock       \* product -> quantity on hand

ledgerVars == <<invoices, notes, stock>>

Init ==
    /\ invoices = <<>>
    /\ notes = <<>>
    /\ stock = Opening

Invoice(p, q) == [product |-> p, qty |-> q]
Note(n, q)    == [invoice |-> n, qty |-> q]

\* Goods leave the branch on the next invoice.
Sell(p, q) ==
    /\ invoices' = Append(invoices, Invoice(p, q))
    /\ stock' = [stock EXCEPT ![p] = @ - q]
    /\ UNCHANGED notes

\* Goods of invoice n come back on the next credit note.
TakeBack(n, q) ==
    /\ notes' = Append(notes, Note(n, q))
    /\ stock' = [stock EXCEPT ![invoices[n].product] = @ + q]
    /\ UNCHANGED invoices

\* Both at once, the replacement on the next invoice.
Swap(n, q, p, out) ==
    /\ notes' = Append(notes, Note(n, q))
    /\ invoices' = Append(invoices, Invoice(p, out))
    /\ stock' = [s \in Products |-> stock[s]
                    + (IF s = invoices[n].product THEN q ELSE 0)
                    - (IF s = p THEN out ELSE 0)]

Next ==
    \/ \E p \in Products, q \in Quantities : Sell(p, q)
    \/ \E n \in DOMAIN invoices, q \in Quantities : TakeBack(n, q)
    \/ \E n \in DOMAIN invoices, q \in Quantities, p \in Products, out \in Quantities :
         Swap(n, q, p, out)

Spec == Init /\ [][Next]_ledgerVars
=============================================================================
