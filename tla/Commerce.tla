------------------------------ MODULE Commerce ------------------------------
(***************************************************************************)
(* A tenant's subscription and what it entitles the tenant to               *)
(* (services/commerce.py, commercial_access.py, repositories/commerce.py,   *)
(* and the two routers in front of them).  The entitlement is one row,      *)
(* written by three ways that do not look at the same things: a fresh       *)
(* trial, a provider's event, and the rebuild that platform requests do.    *)
(*                                                                          *)
(* Time is a day; 0 stands for no date.  Reading the lifecycle summary      *)
(* rebuilds the entitlement and may issue a trial, but flushes only: the    *)
(* request ends without a commit and nothing of it stays.                   *)
(***************************************************************************)
EXTENDS Desk, Sequences, FiniteSetsExt

CONSTANTS
    Plans,          \* billing_plans.code
    LaunchPlan,     \* DEFAULT_LAUNCH_PLAN
    Events,         \* provider event id -> its event_type
    TrialDays, GraceDays, PeriodDays,
    MaxDay,         \* bound: days that pass
    MaxSubs,        \* bound: subscriptions a tenant gets
    MaxOrders       \* bound: requests that have begun

Kinds == {"subscription.activated", "subscription.renewal_failed", "subscription.canceled"}

ASSUME CommerceAssumption ==
    /\ LaunchPlan \in Plans /\ Events \in [DOMAIN Events -> Kinds]
    /\ {TrialDays, GraceDays, PeriodDays} \subseteq Nat \ {0} /\ {MaxDay, MaxSubs, MaxOrders} \subseteq Nat

VARIABLES
    today,
    plans,          \* billing_plans: "none", "other" or "default"
    tenantStatus,   \* tenants.status
    subs,           \* tenant_subscriptions, oldest first
    entitlement,    \* tenant_entitlements: its row
    override,       \* tenant_billing_overrides: the day the latest one ends
    events,         \* subscription_webhook_events: the ids that are PROCESSED
    orders,         \* requests that have begun
    applied,        \* history: how often an event was applied to a subscription
    lifted          \* history: since the tenant was suspended, an event or a trial wrote its entitlement

commerceRows == <<today, plans, tenantStatus, subs, entitlement, override, events, orders, applied, lifted>>
commerceVars == <<commerceRows, deskVars>>

CommerceInit ==
    /\ today = 1
    /\ plans = [p \in Plans |-> "none"]
    /\ tenantStatus = "none" /\ subs = <<>>
    /\ entitlement = [status |-> "none", plan |-> "none", grace |-> 0, suspendAt |-> 0, source |-> "none"]
    /\ override = 0
    /\ events = {} /\ orders = 0 /\ applied = [e \in DOMAIN Events |-> 0]
    /\ lifted = FALSE
    /\ DeskInit

-----------------------------------------------------------------------------
(* What the service works out. *)

\* _compute_suspend_at
SuspendAt(sub) ==
    CASE sub.status = "GRACE" -> sub.grace
      [] sub.status = "CANCELED" -> sub.canceledAt
      [] sub.status = "TRIALING" -> sub.trialEnds + GraceDays
      [] sub.status = "ACTIVE" -> sub.periodEnds + GraceDays

\* _derive_base_lifecycle
BaseLifecycle(sub) ==
    CASE sub.status = "CANCELED" -> "SUSPENDED"
      [] sub.status \in {"ACTIVE", "GRACE"} -> sub.status
      [] sub.status = "TRIALING" -> IF today <= sub.trialEnds THEN "TRIALING" ELSE "SUSPENDED"

Entitles(sub, status, source) ==
    [status |-> status, plan |-> sub.plan, grace |-> sub.grace, suspendAt |-> SuspendAt(sub), source |-> source]

\* Mutant of Rebuilt: an override is stronger than the suspension of the tenant.
RebuiltOverrideFirst(sub, tenant, until) ==
    IF until > today THEN Entitles(sub, "ACTIVE", "billing_override")
    ELSE IF tenant = "SUSPENDED" THEN Entitles(sub, "SUSPENDED", "tenant_status")
    ELSE Entitles(sub, BaseLifecycle(sub), "subscription")

\* _rebuild_entitlement: a tenant's suspension is stronger than an override that has not ended (it
\* grants ACTIVE), and that is stronger than the subscription.
Rebuilt(sub, tenant, until) ==
    IF tenant = "SUSPENDED" THEN Entitles(sub, "SUSPENDED", "tenant_status")
    ELSE IF until > today THEN Entitles(sub, "ACTIVE", "billing_override")
    ELSE Entitles(sub, BaseLifecycle(sub), "subscription")

\* _assert_lifecycle and its callers: may a device of the tenant sign in (withGrace) or be activated?
RuntimeAllowed(withGrace) ==
    CASE entitlement.status = "SUSPENDED" -> FALSE
      [] entitlement.status = "GRACE" ->
           withGrace /\ ~(entitlement.grace # 0 /\ today > entitlement.grace)
      [] entitlement.status = "TRIALING" -> ~(today > entitlement.suspendAt)
      [] OTHER -> TRUE

\* get_current_subscription: the newest that is not canceled, 0 if there is none.
Live(s) == {i \in DOMAIN s : s[i].status # "CANCELED"}
Current(s) == IF Live(s) = {} THEN 0 ELSE Max(Live(s))

DefaultPlan == IF \E p \in Plans : plans[p] = "default" THEN CHOOSE p \in Plans : plans[p] = "default" ELSE LaunchPlan

\* issue_trial_subscription: the row it adds.
Trial(plan) ==
    [status |-> "TRIALING", plan |-> plan, trialEnds |-> today + TrialDays, periodEnds |-> 0, grace |-> 0,
     canceledAt |-> 0, ref |-> FALSE]

Orders(r, errand) ==
    /\ orders < MaxOrders /\ orders' = orders + 1
    /\ Checked(r, errand)
    /\ UNCHANGED <<today, plans, tenantStatus, subs, entitlement, override, events, applied, lifted>>

-----------------------------------------------------------------------------
(* Plans and tenants. *)

AskPlan(r, p, isDefault) ==
    /\ plans[p] = "none"
    /\ Orders(r, [op |-> "plan", plan |-> p, isDefault |-> isDefault, seen |-> {q \in Plans : plans[q] = "default"}])

\* create_billing_plan: the flags of the plans it has listed go; a code is unique.
CreateBillingPlan(r) ==
    LET d == desk[r]
        cleared(q) == IF d.isDefault /\ q \in d.seen THEN "other" ELSE plans[q]
    IN  /\ Doing(r, "plan") /\ plans[d.plan] = "none"
        /\ plans' = [q \in Plans |-> IF q = d.plan THEN IF d.isDefault THEN "default" ELSE "other" ELSE cleared(q)]
        /\ Committed(r, IF d.isDefault THEN {<<"plans", 1>>} ELSE {})
        /\ UNCHANGED <<today, tenantStatus, subs, entitlement, override, events, orders, applied, lifted>>

\* create_tenant, with its trial and, if there is no default plan, the launch plan.
CreateTenant ==
    /\ tenantStatus = "none"
    /\ \E p \in Plans : plans[p] = "default" \/ plans[LaunchPlan] = "none"
    /\ tenantStatus' = "ACTIVE"
    /\ plans' = [plans EXCEPT ![DefaultPlan] = "default"]
    /\ subs' = <<Trial(DefaultPlan)>>
    /\ entitlement' = Entitles(Trial(DefaultPlan), "TRIALING", "subscription")
    /\ AtOnce
    /\ UNCHANGED <<today, override, events, orders, applied, lifted>>

-----------------------------------------------------------------------------
(* Platform and owner requests.  What they work on is read at the start:    *)
(* the tenant, the current subscription (or a fresh trial, when the last    *)
(* one was canceled) and the override.                                      *)

Asks(r, op, until) ==
    LET i == Current(subs) IN
    /\ tenantStatus # "none"
    /\ i = 0 => Len(subs) < MaxSubs
    /\ Orders(r, [op |-> op, tenant |-> tenantStatus, until |-> Max({until, override}), new |-> until,
                   at |-> i, sub |-> IF i = 0 THEN Trial(DefaultPlan) ELSE subs[i]])

AskSuspension(r) == Asks(r, "suspend", 0)
AskReactivation(r) == Asks(r, "reactivate", 0)
AskOverride(r, until) == until > today /\ Asks(r, "override", until)
AskBootstrap(r) == Asks(r, "bootstrap", 0)

SubsAfter(d) == IF d.at = 0 THEN Append(subs, d.sub) ELSE subs

\* A column is written if the request has changed what it read.
Written(read, new, now) == IF new = read THEN now ELSE new

Rewrites(r, status) ==
    LET d == desk[r] IN
    /\ subs' = SubsAfter(d)
    /\ entitlement' = Rebuilt(d.sub, status, d.until)
    /\ Committed(r, {<<"entitlement", 1>>} \cup (IF d.at = 0 THEN {<<"subs", 1>>} ELSE {}))
    /\ UNCHANGED <<today, plans, events, orders, applied>>

SuspendTenant(r) ==
    /\ Doing(r, "suspend")
    /\ Rewrites(r, "SUSPENDED")
    /\ tenantStatus' = Written(desk[r].tenant, "SUSPENDED", tenantStatus)
    /\ lifted' = FALSE
    /\ UNCHANGED override

ReactivateTenant(r) ==
    /\ Doing(r, "reactivate")
    /\ Rewrites(r, "ACTIVE")
    /\ tenantStatus' = Written(desk[r].tenant, "ACTIVE", tenantStatus)
    /\ UNCHANGED <<override, lifted>>

CreateBillingOverride(r) ==
    /\ Doing(r, "override")
    /\ Rewrites(r, desk[r].tenant)
    /\ override' = Max({override, desk[r].new})
    /\ UNCHANGED <<tenantStatus, lifted>>

\* The provider's reference is written to the subscription; the entitlement only with a fresh trial.
BootstrapCheckout(r) ==
    LET d == desk[r] IN
    /\ Doing(r, "bootstrap")
    /\ subs' = IF d.at = 0 THEN Append(subs, [d.sub EXCEPT !.ref = TRUE]) ELSE [subs EXCEPT ![d.at].ref = TRUE]
    /\ entitlement' = IF d.at = 0 THEN Entitles(d.sub, "TRIALING", "subscription") ELSE entitlement
    /\ lifted' = (lifted \/ d.at = 0)
    /\ Committed(r, IF d.at = 0 THEN {<<"entitlement", 1>>, <<"subs", 1>>} ELSE {})
    /\ UNCHANGED <<today, plans, tenantStatus, override, events, orders, applied>>

-----------------------------------------------------------------------------
(* The provider's events: at least once, in any order, with or without the  *)
(* tenant's id.                                                             *)

\* The subscription an event is for: the tenant's current one, else the one the provider knows.
Subject(withTenant) ==
    IF withTenant /\ Current(subs) # 0 THEN Current(subs)
    ELSE IF \E i \in DOMAIN subs : subs[i].ref THEN CHOOSE i \in DOMAIN subs : subs[i].ref /\ \A j \in 1 .. i - 1 : ~subs[j].ref
    ELSE 0

\* _apply_normalized_event_to_subscription
Applies(sub, kind) ==
    CASE kind = "subscription.activated" ->
           [sub EXCEPT !.status = "ACTIVE", !.grace = 0, !.periodEnds = today + PeriodDays, !.ref = TRUE]
      [] kind = "subscription.renewal_failed" ->
           [sub EXCEPT !.status = "GRACE", !.grace = today + GraceDays, !.ref = TRUE]
      [] kind = "subscription.canceled" ->
           [sub EXCEPT !.status = "CANCELED", !.grace = 0, !.canceledAt = today, !.ref = TRUE]

\* An event that was PROCESSED is answered and left; one whose subscription was not found was IGNORED
\* without a commit and comes as a new one.
Fresh(e) == e \notin events

ReceiveEvent(r, e, withTenant) ==
    LET i == Subject(withTenant) IN
    /\ Fresh(e) /\ i # 0
    /\ Orders(r, [op |-> "event", event |-> e, at |-> i, read |-> subs[i], sub |-> Applies(subs[i], Events[e])])

\* Mutant of EntitledByEvent: the entitlement is left to the next rebuild.
EntitledLater(sub) == entitlement

\* The entitlement takes the subscription's status as it is, CANCELED too, whatever the tenant's
\* status and its override are.
EntitledByEvent(sub) == Entitles(sub, sub.status, "subscription")

\* Its row is inserted first: of two that were sent at once one fails on the unique id.
ApplyEvent(r) ==
    LET d == desk[r] IN
    /\ Doing(r, "event") /\ Fresh(d.event)
    /\ subs' = [subs EXCEPT ![d.at] = [c \in DOMAIN @ |-> Written(d.read[c], d.sub[c], @[c])]]
    /\ entitlement' = EntitledByEvent(d.sub)
    /\ events' = events \cup {d.event}
    /\ applied' = [applied EXCEPT ![d.event] = @ + 1]
    /\ lifted' = TRUE
    /\ Committed(r, {<<"entitlement", 1>>, <<"subs", 1>>})
    /\ UNCHANGED <<today, plans, tenantStatus, override, orders>>

CommerceRequestFails(r) == RolledBack(r) /\ UNCHANGED commerceRows

DayPasses ==
    /\ today < MaxDay
    /\ today' = today + 1
    /\ UNCHANGED <<plans, tenantStatus, subs, entitlement, override, events, orders, applied, lifted, deskVars>>

CommerceNext ==
    \/ \E r \in Desks :
         \/ \E p \in Plans, isDefault \in BOOLEAN : AskPlan(r, p, isDefault)
         \/ \E until \in 1 .. MaxDay : AskOverride(r, until)
         \/ \E e \in DOMAIN Events, withTenant \in BOOLEAN : ReceiveEvent(r, e, withTenant)
         \/ AskSuspension(r) \/ AskReactivation(r) \/ AskBootstrap(r)
         \/ CreateBillingPlan(r) \/ SuspendTenant(r) \/ ReactivateTenant(r) \/ CreateBillingOverride(r)
         \/ BootstrapCheckout(r) \/ ApplyEvent(r) \/ CommerceRequestFails(r)
    \/ CreateTenant \/ DayPasses

CommerceSpec == CommerceInit /\ [][CommerceNext]_commerceVars

-----------------------------------------------------------------------------
(* Properties. *)

\* However often and late the provider sends an event, it is applied to one subscription once; and but
\* for requests overtaken by another, the entitlement shows the dates of a subscription the tenant has
\* and one plan is the default.
EntitlementFollowsSubscription ==
    /\ \A e \in DOMAIN Events : applied[e] <= 1
    /\ Seen("entitlement", 1) /\ tenantStatus # "none" =>
         \E i \in DOMAIN subs :
            entitlement.plan = subs[i].plan /\ entitlement.grace = subs[i].grace /\ entitlement.suspendAt = SuspendAt(subs[i])
    /\ Seen("plans", 1) => Cardinality({p \in Plans : plans[p] = "default"}) <= 1

\* A tenant the platform has suspended stays locked out, whatever overrides it is given, until it is
\* reactivated; but for a provider's event, a fresh trial, or an overtaken request.
SuspensionHolds ==
    tenantStatus = "SUSPENDED" /\ ~lifted /\ Seen("entitlement", 1) => ~RuntimeAllowed(TRUE) /\ ~RuntimeAllowed(FALSE)
=============================================================================
