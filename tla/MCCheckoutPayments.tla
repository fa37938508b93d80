------------------------- MODULE MCCheckoutPayments -------------------------
(* Small instances of CheckoutPayments for TLC. *)
EXTENDS CheckoutPayments, TLC

CONSTANTS s1, s2, q1, q2, cart

MCOneSession  == {s1}
MCTwoSessions == {s1, s2}
MCRequests    == {q1, q2}
MCTenders     == [c \in Carts |-> <<"gift card", "store credit">>]
MCNoTenders   == [c \in Carts |-> <<>>]

\* Requests and session identifiers are interchangeable where only safety is checked.
MCSymmetry == Permutations(MCRequests) \cup Permutations(Sessions)
=============================================================================
