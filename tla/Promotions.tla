----------------------------- MODULE Promotions -----------------------------
(***************************************************************************)
(* Promotion codes and customer vouchers (services/promotions.py): their    *)
(* campaigns, what is issued and cancelled, and what sales redeem.  A sale  *)
(* checks the limits in its preview; the counts it read there are what it   *)
(* raises when it is booked, however many sales of other branches were      *)
(* booked in between.                                                       *)
(*                                                                          *)
(* One campaign of codes and one of vouchers; campaigns that discount by    *)
(* themselves count nothing and are part of the pricing.                    *)
(***************************************************************************)
EXTENDS Desk, FiniteSetsExt

CONSTANTS
    Codes, Vouchers,
    CampaignLimit,  \* promotion_campaigns.redemption_limit_total of the codes' campaign
    CodeLimit,      \* promotion_codes.redemption_limit_per_code
    MaxSwitches     \* bound: times a campaign was disabled or reactivated

ASSUME PromotionsAssumption ==
    /\ {CampaignLimit, CodeLimit, MaxSwitches} \subseteq Nat
    /\ IsFiniteSet(Codes) /\ IsFiniteSet(Vouchers)

VARIABLES
    campaigns,  \* promotion_campaigns: status and redemption_count
    codes,      \* promotion_codes: status, redemption_count; history: the sales that redeemed it
    vouchers,   \* customer_voucher_assignments: status; history: the sales that redeemed it
    switches    \* how often a campaign's status was changed

promotionRows == <<campaigns, codes, vouchers, switches>>
promotionVars == <<promotionRows, deskVars>>

PromotionsInit ==
    /\ campaigns = [k \in {"CODE", "ASSIGNED_VOUCHER"} |-> [status |-> "ACTIVE", count |-> 0]]
    /\ codes = [c \in Codes |-> [status |-> "none", count |-> 0, sales |-> 0]]
    /\ vouchers = [v \in Vouchers |-> [status |-> "none", sales |-> 0]]
    /\ switches = 0
    /\ DeskInit

Wants(r, errand) == Checked(r, errand) /\ UNCHANGED promotionRows

Live(k) == campaigns[k].status = "ACTIVE"

-----------------------------------------------------------------------------
(* What owners and cashiers do beside selling. *)

\* update_campaign's status, disable_campaign, reactivate_campaign
SwitchCampaign(k, status) ==
    /\ switches < MaxSwitches /\ campaigns[k].status # status
    /\ campaigns' = [campaigns EXCEPT ![k].status = status]
    /\ switches' = switches + 1
    /\ AtOnce
    /\ UNCHANGED <<codes, vouchers>>

CreateCode(r, c, status) == codes[c].status = "none" /\ Wants(r, [op |-> "create", code |-> c, status |-> status])

StoreCode(r) ==
    LET d == desk[r] IN
    /\ Doing(r, "create") /\ codes[d.code].status = "none"
    /\ codes' = [codes EXCEPT ![d.code].status = d.status]
    /\ Committed(r, {})
    /\ UNCHANGED <<campaigns, vouchers, switches>>

IssueCustomerVoucher(r, v) ==
    /\ Live("ASSIGNED_VOUCHER") /\ vouchers[v].status = "none"
    /\ Wants(r, [op |-> "issue", voucher |-> v])

StoreVoucher(r) ==
    LET v == desk[r].voucher IN
    /\ Doing(r, "issue") /\ vouchers[v].status = "none"
    /\ vouchers' = [vouchers EXCEPT ![v].status = "ACTIVE"]
    /\ Committed(r, {})
    /\ UNCHANGED <<campaigns, codes, switches>>

CancelCustomerVoucher(r, v) ==
    vouchers[v].status = "ACTIVE" /\ Wants(r, [op |-> "cancel", voucher |-> v])

StoreCancel(r) ==
    LET v == desk[r].voucher IN
    /\ Doing(r, "cancel")
    /\ vouchers' = [vouchers EXCEPT ![v].status = "CANCELED"]
    /\ Committed(r, IF vouchers[v].status = "ACTIVE" THEN {} ELSE {<<"voucher", v>>})
    /\ UNCHANGED <<campaigns, codes, switches>>

-----------------------------------------------------------------------------
(* Sales. *)

\* Mutant of CodeValid: looks at the campaign's limit only.
CodeValidForCampaign(c) ==
    codes[c].status = "ACTIVE" /\ Live("CODE") /\ campaigns["CODE"].count < CampaignLimit

\* validate_promotion_code, in the sale's preview
CodeValid(c) ==
    /\ codes[c].status = "ACTIVE" /\ Live("CODE")
    /\ campaigns["CODE"].count < CampaignLimit /\ codes[c].count < CodeLimit

SellWithCode(r, c) ==
    /\ CodeValid(c)
    /\ Wants(r, [op |-> "code", code |-> c, count |-> codes[c].count, total |-> campaigns["CODE"].count])

\* mark_code_redeemed: no limit is looked at again.
StoreCodeSale(r) ==
    LET d == desk[r]
        k == campaigns["CODE"]
        c == codes[d.code]
    IN  /\ Doing(r, "code")
        /\ campaigns' = [campaigns EXCEPT !["CODE"].count = d.total + 1]
        /\ codes' = [codes EXCEPT ![d.code].count = d.count + 1, ![d.code].sales = c.sales + 1]
        /\ Committed(r, (IF k.count = d.total THEN {} ELSE {<<"campaign", "CODE">>})
                        \cup (IF c.count = d.count THEN {} ELSE {<<"code", d.code>>}))
        /\ UNCHANGED <<vouchers, switches>>

\* validate_customer_voucher; the status is looked at again when it is marked, on the same copy.
VoucherValid(v) == vouchers[v].status = "ACTIVE" /\ Live("ASSIGNED_VOUCHER")

SellWithVoucher(r, v) ==
    /\ VoucherValid(v)
    /\ Wants(r, [op |-> "voucher", voucher |-> v, total |-> campaigns["ASSIGNED_VOUCHER"].count])

\* mark_customer_voucher_redeemed
StoreVoucherSale(r) ==
    LET d == desk[r]
        k == campaigns["ASSIGNED_VOUCHER"]
        v == vouchers[d.voucher]
    IN  /\ Doing(r, "voucher")
        /\ campaigns' = [campaigns EXCEPT !["ASSIGNED_VOUCHER"].count = d.total + 1]
        /\ vouchers' = [vouchers EXCEPT ![d.voucher] = [status |-> "REDEEMED", sales |-> v.sales + 1]]
        /\ Committed(r, (IF k.count = d.total THEN {} ELSE {<<"campaign", "ASSIGNED_VOUCHER">>})
                        \cup (IF v.status = "ACTIVE" THEN {} ELSE {<<"voucher", d.voucher>>}))
        /\ UNCHANGED <<codes, switches>>

PromotionRequestFails(r) == RolledBack(r) /\ UNCHANGED promotionRows

PromotionsNext ==
    \/ \E r \in Desks :
         \/ \E c \in Codes :
              \/ \E status \in {"ACTIVE", "DISABLED"} : CreateCode(r, c, status)
              \/ SellWithCode(r, c)
         \/ \E v \in Vouchers :
              IssueCustomerVoucher(r, v) \/ CancelCustomerVoucher(r, v) \/ SellWithVoucher(r, v)
         \/ StoreCode(r) \/ StoreVoucher(r) \/ StoreCancel(r)
         \/ StoreCodeSale(r) \/ StoreVoucherSale(r) \/ PromotionRequestFails(r)
    \/ \E k \in DOMAIN campaigns, status \in {"ACTIVE", "DISABLED"} : SwitchCampaign(k, status)

PromotionsSpec == PromotionsInit /\ [][PromotionsNext]_promotionVars

-----------------------------------------------------------------------------
(* Properties. *)

SalesOf(f) == MapThenSumSet(LAMBDA x : f[x].sales, DOMAIN f)

\* No code and no campaign of codes is redeemed beyond its limit, no voucher twice or after it was
\* cancelled, and the counts are the numbers of the sales: but for rows written by a sale (or a
\* cancellation) that had read them before another request changed them.
RedeemedWithinLimits ==
    /\ \A c \in Codes : Seen("code", c) => codes[c].count = codes[c].sales /\ codes[c].sales <= CodeLimit
    /\ Seen("campaign", "CODE") =>
         /\ campaigns["CODE"].count = SalesOf(codes)
         /\ SalesOf(codes) <= CampaignLimit
    /\ Seen("campaign", "ASSIGNED_VOUCHER") => campaigns["ASSIGNED_VOUCHER"].count = SalesOf(vouchers)
    /\ \A v \in Vouchers :
         Seen("voucher", v) => vouchers[v].sales = (IF vouchers[v].status = "REDEEMED" THEN 1 ELSE 0)
=============================================================================
