-------------------------- MODULE CheckoutPricing --------------------------
(***************************************************************************)
(* What a cart costs (services/checkout_pricing.py build_preview and        *)
(* services/billing_policy.py): the automatic campaign, the code or voucher *)
(* given by hand, how a discount is spread over the lines, the taxes and    *)
(* what is left to pay.  A preview reads and computes; one is one step.     *)
(*                                                                          *)
(* Amounts are whole paise, as money() leaves them.  A tie of its rounding  *)
(* goes up here; in binary fractions it may go either way.                  *)
(***************************************************************************)
EXTENDS Integers, Sequences, Sums

CONSTANTS
    Carts,      \* lines: amount (quantity times price, MRP aside), targeted by item campaigns, rate of GST in percent
    Automatic,  \* lists of active automatic campaigns: scope, type, value, most, least, priority, stackable
    ByHand,     \* codes and vouchers: kind, type, value, most, least, priority, stackable; or NoOffer
    NoOffer,
    Tenders     \* discount for loyalty points, store credit and gift card asked for

ASSUME PricingAssumption ==
    /\ \A c \in Carts : c \in Seq([amount : Nat, targeted : BOOLEAN, rate : Int])
    /\ \A list \in Automatic : list \in Seq({list[k] : k \in DOMAIN list})
    /\ \A list \in Automatic : \A k \in DOMAIN list :
         list[k] # NoOffer /\ {list[k].value, list[k].most, list[k].least, list[k].priority} \subseteq Int
    /\ \A o \in ByHand \ {NoOffer} : {o.value, o.most, o.least, o.priority} \subseteq Int
    /\ \A t \in Tenders : {t.points, t.credit, t.gift} \subseteq Int

VARIABLES
    request,    \* the cart, the campaigns and the tenders a preview is asked for, or Nothing
    preview     \* its answer

pricingRows == <<request, preview>>

Nothing == [cart |-> <<>>]

CheckoutPricingInit == request = Nothing /\ preview = [state |-> "none"]

\* The request comes in, and the rows it reads are these.
AskPreview ==
    /\ request = Nothing
    /\ \E c \in Carts, list \in Automatic, o \in ByHand, t \in Tenders, interState \in BOOLEAN :
          request' = [cart |-> c, campaigns |-> list, offer |-> o, tender |-> t, interState |-> interState]
    /\ UNCHANGED preview

\* money(n / d)
Paise(n, d) == (2 * n + d) \div (2 * d)
AmountsOf(lines) == [i \in DOMAIN lines |-> lines[i].amount]
Least2(m, n) == IF m < n THEN m ELSE n

-----------------------------------------------------------------------------
(* Campaigns. *)

\* _discount_amount_for_total, and the same in validate_promotion_code; most = 0 is no maximum.
DiscountOf(c, total) ==
    IF total <= 0 THEN 0
    ELSE Least2(total, CASE c.type = "FLAT_AMOUNT" -> c.value
                         [] c.type = "PERCENTAGE" /\ c.most = 0 -> Paise(total * c.value, 100)
                         [] OTHER -> Least2(Paise(total * c.value, 100), c.most))

\* Mutant of Allocation: the first lines take all they can.
AllocationInOrder(total, weights) ==
    [i \in DOMAIN weights |->
        LET before == Added(SubSeq(weights, 1, i - 1))
        IN  Least2(weights[i], IF total > before THEN total - before ELSE 0)]

\* What the lines bear of a discount: those that weigh nothing, or less, bear none.
Bearing(weights) == [i \in DOMAIN weights |-> IF weights[i] > 0 THEN weights[i] ELSE 0]

\* A line's share: by weight, rounded, and all that remains to the last.
Share(total, sum, weights, i, remaining) ==
    IF weights[i] <= 0 THEN 0
    ELSE IF \A k \in i + 1 .. Len(weights) : weights[k] <= 0 THEN remaining
    ELSE Least2(Least2(Paise(total * weights[i], sum), weights[i]), remaining)

\* _allocate_discount
Allocation(total, weights) ==
    LET sum == Added(Bearing(weights))
        remaining[i \in 0 .. Len(weights)] ==
            IF i = 0 THEN total
            ELSE LET before == remaining[i - 1] IN before - Share(total, sum, weights, i, before)
    IN  IF total <= 0 THEN [i \in DOMAIN weights |-> 0]
        ELSE [i \in DOMAIN weights |-> remaining[i - 1] - remaining[i]]

\* What the lines weigh that a campaign is for.
Weights(lines, c) ==
    [i \in DOMAIN lines |-> IF c.scope = "CART" \/ lines[i].targeted THEN lines[i].amount ELSE 0] \o <<>>

\* _evaluate_automatic_campaign: the discount of each line
Evaluated(lines, c) ==
    IF Added(AmountsOf(lines)) < c.least THEN [i \in DOMAIN lines |-> 0]
    ELSE Allocation(DiscountOf(c, Added(Weights(lines, c))), Weights(lines, c))

Gain(lines, c) == Added(Evaluated(lines, c))

\* _automatic_campaign_outranks, of campaigns that give so much
Outranks(c, gain, d, less) ==
    \/ c.priority > d.priority
    \/ c.priority = d.priority /\ gain > less

\* _select_best_automatic_campaign: of those that give something the first none outranks, or NoOffer
BestOf(list, gains) ==
    LET giving == {k \in DOMAIN list : gains[k] > 0}
        best == {k \in giving : \A j \in giving : ~Outranks(list[j], gains[j], list[k], gains[k])}
    IN  IF giving = {} THEN NoOffer ELSE list[CHOOSE k \in best : \A j \in best : k <= j]
BestAutomatic(wanted) ==
    BestOf(wanted.campaigns, [k \in DOMAIN wanted.campaigns |-> Gain(wanted.cart, wanted.campaigns[k])])

\* _select_preferred_campaign_source, of two that may not stack
PrefersAutomatic(wanted, c, total) ==
    \/ c.priority > wanted.offer.priority
    \/ c.priority = wanted.offer.priority /\ Gain(wanted.cart, c) >= DiscountOf(wanted.offer, total)

-----------------------------------------------------------------------------
(* The preview. *)

LeftOf(lines, automatic) == [i \in DOMAIN lines |-> lines[i].amount - automatic[i]] \o <<>>

\* What was given by hand is taken off what the automatic campaign has left of the lines; its least
\* amount is looked at on the cart, and again on what is left when both apply.
Spread(wanted, automatic, given, stack) ==
    LET lines == wanted.cart
        left == LeftOf(lines, automatic)
    IN  [automatic |-> automatic,
         byHand |-> IF given THEN Allocation(DiscountOf(wanted.offer, Added(left)), left)
                    ELSE [i \in DOMAIN lines |-> 0],
         refused |-> wanted.offer # NoOffer /\ (\/ Added(AmountsOf(lines)) < wanted.offer.least
                                                \/ stack /\ Added(left) < wanted.offer.least)]

\* Discounts of the lines: the best automatic campaign, what was given by hand, or the preferred one.
DiscountsWith(wanted, best) ==
    LET both == best # NoOffer /\ wanted.offer # NoOffer
        stack == both /\ best.stackable /\ wanted.offer.stackable
        prefersBest == PrefersAutomatic(wanted, best, Added(AmountsOf(wanted.cart)))
    IN  Spread(wanted,
               IF best # NoOffer /\ (~both \/ stack \/ prefersBest) THEN Evaluated(wanted.cart, best)
               ELSE [i \in DOMAIN wanted.cart |-> 0],
               wanted.offer # NoOffer /\ (~both \/ stack \/ ~prefersBest), stack)
Discounts(wanted) ==
    LET With(best) == DiscountsWith(wanted, best)
    IN  With(BestAutomatic(wanted))

\* _accumulate_tax_group: within a state a line's tax is split in two.
TaxSplit(interState, tax) == IF interState THEN <<tax>> ELSE <<Paise(tax, 2), tax - Paise(tax, 2)>>

TaxableOf(lines, d) == [i \in DOMAIN lines |-> lines[i].amount - d.automatic[i] - d.byHand[i]]
TaxOf(lines, taxable) == [i \in DOMAIN lines |-> Paise(taxable[i] * lines[i].rate, 100)]

\* build_preview
PreviewOf(wanted, d, taxable, tax, invoice) ==
    LET grand == invoice - wanted.tender.points
        refused == d.refused \/ wanted.tender.points > invoice \/ wanted.tender.credit > grand
        gift == Least2(wanted.tender.gift, IF grand > wanted.tender.credit THEN grand - wanted.tender.credit ELSE 0)
    IN  IF refused THEN [state |-> "refused"]
        ELSE [state |-> "given", automatic |-> d.automatic, byHand |-> d.byHand, taxable |-> taxable,
              taxes |-> [i \in DOMAIN wanted.cart |-> TaxSplit(wanted.interState, tax[i])],
              invoice |-> invoice, payable |-> grand - wanted.tender.credit - gift]
Priced(wanted) ==
    LET Taxed(d, taxable, tax) == PreviewOf(wanted, d, taxable, tax, Added(taxable) + Added(tax))
        Lined(d, taxable) == Taxed(d, taxable, TaxOf(wanted.cart, taxable))
        Discounted(d) == Lined(d, TaxableOf(wanted.cart, d))
    IN  Discounted(Discounts(wanted))

Preview ==
    /\ request # Nothing /\ preview.state = "none"
    /\ preview' = Priced(request)
    /\ UNCHANGED request

CheckoutPricingNext == AskPreview \/ Preview

CheckoutPricingSpec == CheckoutPricingInit /\ [][CheckoutPricingNext]_pricingRows

-----------------------------------------------------------------------------
(* Properties. *)

\* Each line bears its share of a discount, but for half a paisa for each line of the cart: so a
\* line of few paise at the end of a long cart can end below zero, by no more than that.
SharesAreFair(discounts, weights) ==
    LET d == Added(discounts)
        bears == Bearing(weights)
        w == Added(bears)
    IN  \A i \in DOMAIN weights :
            LET off == 2 * (discounts[i] * w - d * bears[i])
            IN  off <= Len(weights) * w /\ -off <= Len(weights) * w

\* The preview adds up: discounts never exceed the cart, lines bear fair shares of them, and invoice
\* and payable are what lines, taxes and tenders make; no campaign that gives something and stands
\* higher was passed over for the one that was applied.
AddsUp(wanted, p) ==
    LET taxes == [i \in DOMAIN wanted.cart |-> Added(p.taxes[i])]
        best == BestAutomatic(wanted)
    IN  /\ Added(p.automatic) + Added(p.byHand) <= Added(AmountsOf(wanted.cart))
        /\ best # NoOffer => SharesAreFair(p.automatic, Weights(wanted.cart, best))
        /\ SharesAreFair(p.byHand, LeftOf(wanted.cart, p.automatic))
        /\ p.invoice = Added(p.taxable) + Added(taxes)
        /\ p.payable >= 0
        /\ Added(p.automatic) > 0
             => ~ \E k \in DOMAIN wanted.campaigns :
                    /\ Gain(wanted.cart, wanted.campaigns[k]) > 0
                    /\ wanted.campaigns[k].priority > best.priority
PreviewAddsUp == preview.state = "given" => AddsUp(request, preview)
=============================================================================
