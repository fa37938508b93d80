---------------------------- MODULE MCBackOffice ----------------------------
(* A small back office for TLC. *)
EXTENDS BackOffice, TLC

CONSTANTS
    r1, r2,             \* requests
    b1, b2,             \* branches
    order, receipt, sale,
    code1, code2, voucher

MCOrdered == [o \in PurchaseOrders |-> 2]
MCOrderedAt == [o \in PurchaseOrders |-> b1]
MCReceiptTotal == [g \in GoodsReceipts |-> 2]
MCSplits == {<<2>>, <<1, 1>>}

\* Carts of three lines, some of a paisa, of five with small lines at the ends, and one in which the
\* campaign MCDeep takes the last line below zero before the code takes its share.
MCLine(amount, targeted, rate) == [amount |-> amount, targeted |-> targeted, rate |-> rate]
MCAmounts == {1, 100}
MCCarts ==
    {<<MCLine(a, TRUE, 5), MCLine(b, FALSE, 18), MCLine(1, TRUE, 5)>> : a, b \in MCAmounts}
    \cup {<<MCLine(a, TRUE, 18), MCLine(100, TRUE, 5), MCLine(100, TRUE, 5), MCLine(100, FALSE, 5), MCLine(b, TRUE, 5)>> :
            a, b \in MCAmounts}
    \cup {[i \in 1 .. 6 |-> MCLine(CASE i < 5 -> 5 [] i = 5 -> 391 [] i = 6 -> 1, TRUE, 18)]}

MCCampaign(scope, type, value, most, least, priority, stackable) ==
    [scope |-> scope, type |-> type, value |-> value, most |-> most, least |-> least,
     priority |-> priority, stackable |-> stackable]
MCFlat    == MCCampaign("CART", "FLAT_AMOUNT", 2, 0, 0, 1, TRUE)
MCPercent == MCCampaign("CART", "PERCENTAGE", 33, 20, 50, 2, TRUE)
MCItems   == MCCampaign("ITEM_CATEGORY", "PERCENTAGE", 50, 0, 0, 1, FALSE)
MCDeep    == MCCampaign("CART", "FLAT_AMOUNT", 288, 0, 300, 2, TRUE)
MCAutomatic == {<<>>, <<MCDeep>>, <<MCFlat>>, <<MCFlat, MCPercent>>, <<MCFlat, MCItems>>, <<MCItems, MCPercent, MCFlat>>}

MCOffer(kind, type, value, least, priority, stackable) ==
    [kind |-> kind, type |-> type, value |-> value, most |-> 0, least |-> least,
     priority |-> priority, stackable |-> stackable]
MCByHand ==
    {NoOffer, MCOffer("CODE", "PERCENTAGE", 10, 5, 1, TRUE), MCOffer("CODE", "FLAT_AMOUNT", 2, 100, 2, FALSE),
     MCOffer("CODE", "FLAT_AMOUNT", 96, 100, 1, TRUE), MCOffer("ASSIGNED_VOUCHER", "FLAT_AMOUNT", 250, 0, 1, TRUE)}
MCTenders == {[points |-> 0, credit |-> 2, gift |-> 90], [points |-> 3, credit |-> 2, gift |-> 0]}

\* Requests are interchangeable.
MCSymmetry == Permutations(Desks)
=============================================================================
