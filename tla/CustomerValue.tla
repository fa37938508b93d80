--------------------------- MODULE CustomerValue ---------------------------
(***************************************************************************)
(* What a customer can pay with besides money: a gift card, store credit    *)
(* and loyalty points (services/gift_cards.py, store_credit.py, loyalty.py  *)
(* and customer_profiles.py), and what a sale or a return does to them.     *)
(*                                                                          *)
(* The rows belong to the tenant; sales lock only their own branch, so two  *)
(* branches work on them at once.  A request reads a row once, and writes   *)
(* the columns it has changed as absolute values.  One card, one customer,  *)
(* one unit of each value to a point; a sale that takes several kinds of    *)
(* value is one request of each kind in one transaction.                    *)
(***************************************************************************)
EXTENDS Desk, Sums

CONSTANTS
    RedeemStep,         \* tenant_loyalty_programs.redeem_step_points
    MinimumRedeem,      \* tenant_loyalty_programs.minimum_redeem_points
    MaxValue,           \* bound: amounts asked for and points moved
    MaxAsked            \* bound: requests that have begun

ASSUME CustomerValueAssumption ==
    RedeemStep \in Nat \ {0} /\ MinimumRedeem \in Nat /\ {MaxValue, MaxAsked} \subseteq Nat

VARIABLES
    card,       \* gift_cards: status, balance; and the sum of its ledger, book
    credit,     \* customer_credit_accounts: available; the remaining_amount of its lots, by age; book
    points,     \* customer_loyalty_accounts: available; book; and of that, what was adjusted by hand
    program,    \* tenant_loyalty_programs.status
    profile,    \* customer_profiles.status
    pointSales,   \* sales that moved points: by how many, and whether they were returned
    asked       \* requests that have begun

valueRows == <<card, credit, points, program, profile, pointSales, asked>>
valueVars == <<valueRows, deskVars>>

CustomerValueInit ==
    /\ card = [status |-> "none", balance |-> 0, book |-> 0]
    /\ credit = [available |-> 0, lots |-> <<>>, book |-> 0]
    /\ points = [available |-> 0, book |-> 0, byHand |-> 0]
    /\ program = "ACTIVE" /\ profile = "ACTIVE"
    /\ pointSales = <<>> /\ asked = 0
    /\ DeskInit

Requests(r, errand) ==
    /\ asked < MaxAsked /\ asked' = asked + 1
    /\ Checked(r, errand)
    /\ UNCHANGED <<card, credit, points, program, profile, pointSales>>

\* A column is written if the request has changed what it read.
Column(read, written, now) == IF written = read THEN now ELSE written

-----------------------------------------------------------------------------
(* The gift card. *)

\* _sync_balance_status
Synced(status, balance) ==
    IF status = "DISABLED" THEN status ELSE IF balance > 0 THEN "ACTIVE" ELSE "DEPLETED"

CardAsks(r, kind, status, balance, amount) ==
    Requests(r, [op |-> "card", kind |-> kind, read |-> card, status |-> status, balance |-> balance, amount |-> amount])

IssueGiftCard(r, amount) == card.status = "none" /\ CardAsks(r, "issue", "ACTIVE", amount, amount)

AdjustGiftCard(r, delta) ==
    /\ card.status # "none" /\ delta # 0 /\ card.balance + delta >= 0
    /\ CardAsks(r, "adjust", Synced(card.status, card.balance + delta), card.balance + delta, delta)

DisableGiftCard(r) == card.status # "none" /\ CardAsks(r, "disable", "DISABLED", card.balance, 0)

ReactivateGiftCard(r) ==
    /\ card.status # "none"
    /\ CardAsks(r, "reactivate", IF card.balance > 0 THEN "ACTIVE" ELSE "DEPLETED", card.balance, 0)

\* preview_redemption, and redeem_gift_card again
CardCovers(amount) == card.status = "ACTIVE" /\ amount <= card.balance

RedeemGiftCard(r, amount) ==
    /\ amount > 0 /\ CardCovers(amount)
    /\ CardAsks(r, "redeem", Synced(card.status, card.balance - amount), card.balance - amount, -amount)

\* The row, and its ledger entry; the code of a card is unique.
StoreCard(r) ==
    LET d == desk[r] IN
    /\ Doing(r, "card")
    /\ d.kind = "issue" => card.status = "none"
    /\ card' = [status |-> Column(d.read.status, d.status, card.status),
                balance |-> Column(d.read.balance, d.balance, card.balance),
                book |-> card.book + d.amount]
    /\ Committed(r, IF card = d.read THEN {} ELSE {<<"card", 1>>})
    /\ UNCHANGED <<credit, points, program, profile, pointSales, asked>>

-----------------------------------------------------------------------------
(* Store credit. *)

Smaller(m, n) == IF m < n THEN m ELSE n

\* What is left of lots, oldest first, once n is taken.
TakenFrom(lots, n) ==
    [i \in DOMAIN lots |->
        LET older == Added(SubSeq(lots, 1, i - 1))
        IN  lots[i] - Smaller(lots[i], IF n > older THEN n - older ELSE 0)]

CreditAsks(r, kind, amount) ==
    /\ profile = "ACTIVE"
    /\ Requests(r, [op |-> "credit", kind |-> kind, amount |-> amount, available |-> credit.available, lots |-> credit.lots])

\* By hand, or as the refund of an approved sale return or exchange; an adjustment upwards is the same.
IssueStoreCredit(r, amount) == amount > 0 /\ CreditAsks(r, "issue", amount)

\* The preview of a sale, and redeem_customer_store_credit again.
RedeemStoreCredit(r, amount) == amount \in 1 .. credit.available /\ CreditAsks(r, "redeem", amount)

AdjustStoreCreditDown(r, amount) == amount \in 1 .. credit.available /\ CreditAsks(r, "remove", amount)

\* Mutant of LotsAfter: takes from the newest lot.
LotsAfterNewest(read, now, n) ==
    [i \in DOMAIN now |-> IF i = Len(read) THEN read[i] - n ELSE now[i]]

\* The lots once n was taken of those read: the others, and those it leaves alone, stay as they are.
LotsAfter(read, now, n) ==
    [i \in DOMAIN now |-> IF i \in DOMAIN read THEN Column(read[i], TakenFrom(read, n)[i], now[i]) ELSE now[i]]

\* The account was read at the start; the lots are read when they are taken from, late or not.  A
\* redemption the lots do not cover is refused, an adjustment is not.
StoreCredit(r, late) ==
    LET d == desk[r]
        lots == IF late THEN credit.lots ELSE d.lots
    IN  /\ Doing(r, "credit")
        /\ d.kind = "redeem" => Added(lots) >= d.amount
        /\ credit' =
             IF d.kind = "issue"
             THEN [available |-> d.available + d.amount, lots |-> Append(credit.lots, d.amount), book |-> credit.book + d.amount]
             ELSE [available |-> d.available - d.amount, lots |-> LotsAfter(lots, credit.lots, d.amount),
                   book |-> credit.book - d.amount]
        /\ Committed(r, IF credit.available = d.available /\ credit.lots = d.lots THEN {} ELSE {<<"credit", 1>>})
        /\ UNCHANGED <<card, points, program, profile, pointSales, asked>>

-----------------------------------------------------------------------------
(* Loyalty points. *)

\* A sale takes points and earns points; by hand they go up or down.
PointsAsks(r, kind, taken, earned) ==
    /\ profile = "ACTIVE"
    /\ Requests(r, [op |-> "points", kind |-> kind, moved |-> earned - taken, available |-> points.available])

AdjustLoyalty(r, delta) ==
    delta # 0 /\ points.available + delta >= 0 /\ PointsAsks(r, "adjust", 0, delta)

\* calculate_sale_redemption
PointsCover(taken) ==
    taken >= MinimumRedeem /\ taken % RedeemStep = 0 /\ taken <= points.available

SellWithPoints(r, taken, earned) ==
    /\ taken > 0 => program = "ACTIVE" /\ PointsCover(taken)
    /\ earned > 0 => program = "ACTIVE"
    /\ taken + earned > 0
    /\ PointsAsks(r, "sale", taken, earned)

StorePoints(r) ==
    LET d == desk[r] IN
    /\ Doing(r, "points")
    /\ points' = [available |-> d.available + d.moved, book |-> points.book + d.moved,
                  byHand |-> points.byHand + (IF d.kind = "adjust" THEN d.moved ELSE 0)]
    /\ pointSales' = IF d.kind = "sale" THEN Append(pointSales, [moved |-> d.moved, returned |-> FALSE]) ELSE pointSales
    /\ Committed(r, IF points.available = d.available THEN {} ELSE {<<"points", 1>>})
    /\ UNCHANGED <<card, credit, program, profile, asked>>

\* create_sale_return of the whole sale: what is in services/billing.py does not call the loyalty
\* service (reverse_sale_loyalty has no caller).
ReturnSale(i) ==
    /\ ~pointSales[i].returned
    /\ pointSales' = [pointSales EXCEPT ![i].returned = TRUE]
    /\ AtOnce
    /\ UNCHANGED <<card, credit, points, program, profile, asked>>

-----------------------------------------------------------------------------
(* Settings; and the requests that fail. *)

UpdateLoyaltyProgram ==
    /\ asked < MaxAsked /\ asked' = asked + 1
    /\ program' = IF program = "ACTIVE" THEN "DISABLED" ELSE "ACTIVE"
    /\ AtOnce
    /\ UNCHANGED <<card, credit, points, profile, pointSales>>

\* archive_customer_profile and reactivate_customer_profile
SwitchCustomerProfile ==
    /\ asked < MaxAsked /\ asked' = asked + 1
    /\ profile' = IF profile = "ACTIVE" THEN "ARCHIVED" ELSE "ACTIVE"
    /\ AtOnce
    /\ UNCHANGED <<card, credit, points, program, pointSales>>

ValueRequestFails(r) == RolledBack(r) /\ UNCHANGED valueRows

CustomerValueNext ==
    \/ \E r \in Desks :
         \/ \E n \in 1 .. MaxValue :
              \/ IssueGiftCard(r, n) \/ RedeemGiftCard(r, n)
              \/ IssueStoreCredit(r, n) \/ RedeemStoreCredit(r, n) \/ AdjustStoreCreditDown(r, n)
         \/ \E delta \in -MaxValue .. MaxValue : AdjustGiftCard(r, delta) \/ AdjustLoyalty(r, delta)
         \/ \E taken, earned \in 0 .. MaxValue : SellWithPoints(r, taken, earned)
         \/ DisableGiftCard(r) \/ ReactivateGiftCard(r)
         \/ StoreCard(r) \/ StorePoints(r) \/ ValueRequestFails(r)
         \/ \E late \in BOOLEAN : StoreCredit(r, late)
    \/ \E i \in DOMAIN pointSales : ReturnSale(i)
    \/ UpdateLoyaltyProgram \/ SwitchCustomerProfile

CustomerValueSpec == CustomerValueInit /\ [][CustomerValueNext]_valueVars

-----------------------------------------------------------------------------
(* Properties. *)

\* Nothing is spent twice and nothing is lost: card, store credit and points are what their ledgers
\* add up to and never below zero, the credit is what its lots hold, and a card shows ACTIVE only
\* with money on it; but for a row that was written from a copy another request had overtaken.
ValueFollowsLedger ==
    /\ Seen("card", 1) =>
         /\ card.balance = card.book /\ card.balance >= 0
         /\ card.status = "ACTIVE" => card.balance > 0
         /\ card.status = "DEPLETED" => card.balance = 0
    /\ Seen("credit", 1) =>
         /\ credit.available = credit.book /\ credit.available = Added(credit.lots)
         /\ \A i \in DOMAIN credit.lots : credit.lots[i] >= 0
    /\ Seen("points", 1) => points.available = points.book /\ points.available >= 0
=============================================================================
