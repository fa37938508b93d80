------------------------------- MODULE Access -------------------------------
(***************************************************************************)
(* Who is signed in and what they may do: users and their sessions          *)
(* (services/auth.py, repositories/identity.py), the invites and            *)
(* memberships of tenants (services/onboarding.py, repositories/            *)
(* memberships.py and tenants.py), and the guards of the routes.            *)
(*                                                                          *)
(* Signing in updates the user's row before it reads anything else, so two  *)
(* sign-ins of one person follow each other; a refresh reads the session    *)
(* without a lock, makes its replacement and deletes what it has read.      *)
(***************************************************************************)
EXTENDS Desk, RouteGuards

CONSTANTS
    Staff,          \* people, by e-mail
    Tenants,
    BranchesOf,     \* tenant -> its branches
    TenantRoles,    \* role names memberships of a tenant are given
    BranchRoles,    \* role names memberships of a branch are given
    Admins,         \* settings.platform_admin_emails
    MaxSessions,    \* bound: sessions that were made
    MaxGrants       \* bound: invites, memberships and suspensions in force

ASSUME AccessAssumption ==
    Admins \subseteq Staff /\ DOMAIN BranchesOf = Tenants /\ {MaxSessions, MaxGrants} \subseteq Nat

VARIABLES
    provider,       \* users: the provider of the last sign-in; "none": no row
    admins,         \* platform_admin_accounts
    invites,        \* owner_invites that are PENDING: <<tenant, e-mail>>
    memberships,    \* tenant_memberships (branch "") and branch_memberships
    sessions,       \* app_sessions, by order of creation; history: the sign-in they come from
    signedOut,      \* history: the sign-ins that signed out
    suspended       \* tenants whose entitlement is SUSPENDED

accessRows == <<provider, admins, invites, memberships, sessions, signedOut, suspended>>
accessVars == <<accessRows, deskVars>>

Surfaces == {"store_desktop", "store_mobile"}
ActivationOf(surface) == IF surface = "store_desktop" THEN "store_desktop_activation" ELSE "store_mobile_activation"

AccessInit ==
    /\ provider = [s \in Staff |-> "none"]
    /\ admins = {} /\ invites = {} /\ memberships = {}
    /\ sessions = [i \in {} |-> {}]
    /\ signedOut = {} /\ suspended = {}
    /\ DeskInit

-----------------------------------------------------------------------------
(* What a person may do. *)

Branches == UNION {BranchesOf[t] : t \in Tenants}

Belongs(s, t) == {m \in memberships : m.email = s /\ m.tenant = t /\ m.status = "ACTIVE"}

Grants(ms, caps) == \E m \in ms : RoleCapabilities(m.role) \cap caps # {}

TenantMemberships(s, t) == {m \in Belongs(s, t) : m.branch = ""}

\* assert_platform_admin, assert_tenant_capability, assert_branch_capability, assert_branch_any_capability
Passes(s, t, b, guard) ==
    \/ guard.scope \in {"everyone", "actor"}
    \/ s \in admins /\ guard.scope # "device"
    \/ guard.scope = "tenant" /\ Grants(TenantMemberships(s, t), guard.caps)
    \/ guard.scope = "branch" /\ Grants({m \in Belongs(s, t) : m.branch \in {"", b}}, guard.caps)
    \/ guard.scope = "any branch" /\ Grants(Belongs(s, t), guard.caps)

\* _assert_runtime_commercial_access: it stands in front of users whose last sign-in was on a desktop.
RuntimeSuspended(s) ==
    provider[s] = "store_desktop_activation" /\ \E t \in suspended : Belongs(s, t) # {}

\* get_actor_context: the session is there and has not expired.
Signed(i) == i \in DOMAIN sessions /\ sessions[i].live /\ ~RuntimeSuspended(sessions[i].user)

\* The actor of session i may use the route guarded so in tenant t, branch b.
Allowed(i, t, b, guard) == Signed(i) /\ Passes(sessions[i].user, t, b, guard)

-----------------------------------------------------------------------------
(* Sessions. *)

NewSession(s, root, surface) ==
    LET i == Cardinality(DOMAIN sessions) + 1
    IN  [j \in DOMAIN sessions \cup {i} |->
            IF j = i THEN [user |-> s, root |-> IF root = 0 THEN i ELSE root, surface |-> surface, live |-> TRUE]
            ELSE sessions[j]]

\* activate_pending_memberships
Activated(s) == {IF m.email = s THEN [m EXCEPT !.status = "ACTIVE"] ELSE m : m \in memberships}

Membership(s, t, b, role, status) == [email |-> s, tenant |-> t, branch |-> b, role |-> role, status |-> status]

\* _accept_pending_owner_invites: an owner's membership that is there is made active.
Accepted(s) == {Membership(s, i[1], "", "tenant_owner", "ACTIVE") : i \in {i \in invites : i[2] = s}}

\* exchange_oidc_token
ExchangeToken(s) ==
    /\ Cardinality(DOMAIN sessions) < MaxSessions
    /\ provider' = [provider EXCEPT ![s] = "korsenex_idp"]
    /\ admins' = admins \cup ({s} \cap Admins)
    /\ memberships' = Activated(s) \cup Accepted(s)
    /\ invites' = {i \in invites : i[2] # s}
    /\ sessions' = NewSession(s, 0, "web")
    /\ AtOnce
    /\ UNCHANGED <<signedOut, suspended>>

\* redeem_store_desktop_activation, redeem_runtime_activation and the desktop's unlock, as far as the
\* user and the session go (DeviceAccess has the device): not for a person who signed in on the web or
\* on the other surface; they must belong to the branch, and the tenant's entitlement must allow it.
ActivateRuntime(s, t, b, surface) ==
    /\ Cardinality(DOMAIN sessions) < MaxSessions
    /\ provider[s] \in {"none", ActivationOf(surface)} /\ t \notin suspended
    /\ \E m \in memberships : m.email = s /\ m.tenant = t /\ m.branch = b
    /\ provider' = [provider EXCEPT ![s] = ActivationOf(surface)]
    /\ memberships' = Activated(s)
    /\ sessions' = NewSession(s, 0, surface)
    /\ AtOnce
    /\ UNCHANGED <<admins, invites, signedOut, suspended>>

\* refresh_session: what it reads,
AskRefresh(r, i) ==
    /\ Signed(i) /\ Cardinality(DOMAIN sessions) < MaxSessions
    /\ Checked(r, [op |-> "refresh", session |-> i])
    /\ UNCHANGED accessRows

\* Mutant of Retired: the session that was refreshed stays.
RetiredNot(all, i) == all

Retired(all, i) == [all EXCEPT ![i].live = FALSE]

\* rotate_session, and what it writes.
RotateSession(r) ==
    LET i == desk[r].session
        old == sessions[i]
    IN  /\ Doing(r, "refresh")
        /\ Cardinality(DOMAIN sessions) < MaxSessions
        /\ sessions' = Retired(NewSession(old.user, old.root, old.surface), i)
        /\ Committed(r, {<<"signin", old.root>>})
        /\ UNCHANGED <<provider, admins, invites, memberships, signedOut, suspended>>

SignOut(i) ==
    /\ i \in DOMAIN sessions /\ sessions[i].live
    /\ sessions' = Retired(sessions, i)
    /\ signedOut' = signedOut \cup {sessions[i].root}
    /\ AtOnce
    /\ UNCHANGED <<provider, admins, invites, memberships, suspended>>

SessionExpires(i) ==
    /\ i \in DOMAIN sessions /\ sessions[i].live
    /\ sessions' = Retired(sessions, i)
    /\ UNCHANGED <<provider, admins, invites, memberships, signedOut, suspended, deskVars>>

RefreshFails(r) == RolledBack(r) /\ UNCHANGED accessRows

-----------------------------------------------------------------------------
(* What actors do for the tenants.  Nothing takes a membership back. *)

Room == Cardinality(invites) + Cardinality(memberships) + Cardinality(suspended) < MaxGrants

CreateOwnerInvite(i, t, s) ==
    /\ Allowed(i, t, "", PlatformTenantRoutes.create_owner_invite)
    /\ <<t, s>> \notin invites /\ Room
    /\ invites' = invites \cup {<<t, s>>}
    /\ AtOnce
    /\ UNCHANGED <<provider, admins, memberships, sessions, signedOut, suspended>>

Assigns(i, t, s, b, role, guard) ==
    /\ Allowed(i, t, b, guard)
    /\ Room
    /\ \A m \in memberships : <<m.email, m.tenant, m.branch, m.role>> # <<s, t, b, role>>
    /\ memberships' = memberships \cup {Membership(s, t, b, role, "PENDING")}
    /\ AtOnce
    /\ UNCHANGED <<provider, admins, invites, sessions, signedOut, suspended>>

AssignTenantMembership(i, t, s, role) == Assigns(i, t, s, "", role, TenantRoutes.create_tenant_membership)

AssignBranchMembership(i, t, b, s, role) ==
    b \in BranchesOf[t] /\ Assigns(i, t, s, b, role, TenantRoutes.create_branch_membership)

\* suspend and reactivate of the platform, as far as the runtime's gate goes (Commerce has the rest).
SwitchSuspension(i, t) ==
    /\ Allowed(i, t, "", PlatformBillingRoutes.suspend_tenant_billing)
    /\ t \in suspended \/ Room
    /\ suspended' = IF t \in suspended THEN suspended \ {t} ELSE suspended \cup {t}
    /\ AtOnce
    /\ UNCHANGED <<provider, admins, invites, memberships, sessions, signedOut>>

AccessNext ==
    \/ \E s \in Staff :
         \/ ExchangeToken(s)
         \/ \E t \in Tenants : \E b \in BranchesOf[t], surface \in Surfaces : ActivateRuntime(s, t, b, surface)
    \/ \E i \in DOMAIN sessions :
         \/ SignOut(i) \/ SessionExpires(i)
         \/ \E r \in Desks : AskRefresh(r, i)
         \/ \E t \in Tenants : SwitchSuspension(i, t)
         \/ \E t \in Tenants, s \in Staff :
              \/ CreateOwnerInvite(i, t, s)
              \/ \E role \in TenantRoles : AssignTenantMembership(i, t, s, role)
              \/ \E b \in Branches, role \in BranchRoles : AssignBranchMembership(i, t, b, s, role)
    \/ \E r \in Desks : RotateSession(r) \/ RefreshFails(r)

AccessSpec == AccessInit /\ [][AccessNext]_accessVars

-----------------------------------------------------------------------------
(* Properties. *)

\* A sign-in holds one session, whatever refreshes follow it, and none once it was signed out; but for
\* a refresh that another refresh or the sign-out has overtaken.
OneSessionPerSignIn ==
    \A root \in DOMAIN sessions :
        LET alive == {i \in DOMAIN sessions : sessions[i].root = root /\ sessions[i].live}
        IN  Seen("signin", root) =>
                Cardinality(alive) <= 1 /\ (root \in signedOut => alive = {})

Holds(s, t, roles) == \E m \in Belongs(s, t) : m.role \in roles

\* What staff of the floor reach, in whatever roles, by whatever invites and sign-ins: nothing of
\* another tenant or (but for the tenant's customers) another branch, nothing of the platform, and
\* no hand on what should take two: a refund is approved, stored value is given out and money is paid
\* to suppliers by owners and by the tenant's own officers only.  (A role is any name the tenant
\* gives: a membership may say platform_super_admin, and has then what the map gives that name.)
FloorStaysOnTheFloor ==
    \A i \in DOMAIN sessions : LET s == sessions[i].user IN
        Signed(i) /\ s \notin admins => \A t \in Tenants :
            /\ Belongs(s, t) = {} => ~Allowed(i, t, "", TenantRoutes.get_tenant_summary)
            /\ ~Allowed(i, t, "", PlatformBillingRoutes.suspend_tenant_billing)
            /\ \A b \in BranchesOf[t] :
                 /\ Allowed(i, t, b, SaleReturnRoutes.approve_sale_return_refund) => Holds(s, t, {"tenant_owner", "finance_admin"})
                 /\ Allowed(i, t, b, ProcurementRoutes.create_supplier_payment) => Holds(s, t, {"tenant_owner", "inventory_admin"})
                 /\ Allowed(i, t, b, GiftCardRoutes.create_gift_card) =>
                      Holds(s, t, {"tenant_owner", "platform_super_admin"})
                 /\ Allowed(i, t, b, CheckoutRoutes.create_sale) =>
                      \E m \in Belongs(s, t) : m.branch \in {"", b} /\ "sales.bill" \in RoleCapabilities(m.role)
=============================================================================
