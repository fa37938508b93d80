----------------------------- MODULE MCPlatform -----------------------------
(* A small platform for TLC. *)
EXTENDS Platform, TLC

CONSTANTS
    r1, r2,     \* requests
    t1, t2,     \* tenants
    b1, b2      \* their branches

\* The provider's events.
MCEvents ==
    [e1 |-> "subscription.activated", e2 |-> "subscription.canceled", e3 |-> "subscription.renewal_failed"]

MCSites == t1 :> {b1} @@ t2 :> {b2}

\* A legacy store in the middle of its day: a till, orders, a receipt with its invoice and lot, a
\* sale and a stock count.
MCOpening ==
    [tenant |-> "ACTIVE", invoices |-> 1, stock |-> [home |-> 1, away |-> 0], docs |->
        << [kind |-> "till", status |-> "OPEN", cash |-> 2],
           [kind |-> "order", qty |-> 1, status |-> "APPROVED"],
           [kind |-> "receipt", of |-> 2, qty |-> 1],
           [kind |-> "invoice", of |-> 3, qty |-> 1],
           [kind |-> "lot", of |-> 3, qty |-> 1, off |-> 0],
           [kind |-> "sale", qty |-> 2, till |-> 1, number |-> 1, irn |-> "NOT_REQUIRED"],
           [kind |-> "order", qty |-> 1, status |-> "PENDING_APPROVAL"],
           [kind |-> "count", qty |-> 2] >>]

\* Requests are interchangeable, those of the control plane and those of the legacy store; so are the
\* tenants, each with its branch.
MCSwap == t1 :> t2 @@ t2 :> t1 @@ b1 :> b2 @@ b2 :> b1
MCSymmetry == Permutations(Desks) \cup {MCSwap}
=============================================================================
