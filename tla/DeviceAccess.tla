---------------------------- MODULE DeviceAccess ----------------------------
(***************************************************************************)
(* How an installation becomes a device of the branch and its holder gets a *)
(* session: registration, claims, activation codes and unlock tokens        *)
(* (services/workforce.py, runtime.py, commercial_access.py).               *)
(*                                                                          *)
(* An installation that the store has approved is registered once in the    *)
(* whole database (unique installation_id).  Nothing else is unique: two    *)
(* claims of one installation, two hubs of one branch and two activations   *)
(* of one version can be committed by requests that overtake each other.    *)
(***************************************************************************)
EXTENDS Desk, Sequences

CONSTANTS
    Installations,  \* packaged runtimes in the field
    Surface,        \* installation -> the session_surface it is approved for
    Holder,         \* installation -> the staff profile its device is assigned to
    Hubs,           \* the installations an owner approves as branch hub
    MaxDevices,     \* bounds: rows of each table, redeemed codes
    MaxClaims,
    MaxActivations,
    MaxRedeemed

ASSUME DeviceAccessAssumption ==
    /\ "none" \notin Installations
    /\ {Surface[i] : i \in Installations} \subseteq {"store_desktop", "store_mobile"}
    /\ Hubs \subseteq Installations
    /\ {MaxDevices, MaxClaims, MaxActivations, MaxRedeemed} \subseteq Nat \ {0}

VARIABLES
    devices,        \* device_registrations, oldest first: the installation and the hub flag
    claims,         \* device_claims: the installation and the approved device, 0 while PENDING
    activations,    \* store_desktop_activations
    redeemed,       \* the installation of each redeemed code, in the order of redemption
    seat,           \* holder -> the surface its runtime user is bound to
    lifecycle       \* the tenant's entitlement: ACTIVE, GRACE or SUSPENDED

deviceRows == <<devices, claims, activations, redeemed, seat, lifecycle>>
deviceVars == <<deviceRows, deskVars>>

None == "none"

\* get_device_registration_by_installation_id, by approved_device_id and get_branch_hub_device.
DeviceOf(i) == {d \in DOMAIN devices : devices[d].installation = i}
HubDevices  == {d \in DOMAIN devices : devices[d].hub}
\* get_device_claim_by_installation_id
ClaimsOf(i) == {c \in DOMAIN claims : claims[c].installation = i}

ActivationsOf(d) == {a \in DOMAIN activations : activations[a].device = d}
Live(d) == {a \in ActivationsOf(d) : activations[a].status \in {"ISSUED", "ACTIVE"}}
Newest(S) == CHOOSE n \in S : \A m \in S : m <= n
LatestVersion(d) ==
    LET versions == {activations[a].version : a \in ActivationsOf(d)}
    IN  IF versions = {} THEN 0 ELSE Newest(versions)

\* assert_runtime_activation_allowed and assert_runtime_session_allowed
ActivationAllowed == lifecycle = "ACTIVE"
SessionAllowed    == lifecycle \in {"ACTIVE", "GRACE"}

DeviceAccessInit ==
    /\ devices = <<>> /\ claims = <<>> /\ activations = <<>> /\ redeemed = <<>>
    /\ seat = [p \in {Holder[i] : i \in Installations} |-> None]
    /\ lifecycle = "ACTIVE"
    /\ DeskInit

-----------------------------------------------------------------------------
(* What a request reads and checks. *)

Opens(r, errand) == Checked(r, errand) /\ UNCHANGED deviceRows

\* register_device, which the route calls without an installation.
RegisterDevice(r, hub) ==
    /\ hub => HubDevices = {}
    /\ Len(devices) < MaxDevices
    /\ Opens(r, [op |-> "register", hub |-> hub])

\* resolve_runtime_device_claim: a new claim, or a look at the newest one.
ResolveClaim(r, i) ==
    /\ ClaimsOf(i) = {} /\ Len(claims) < MaxClaims
    /\ Opens(r, [op |-> "claim", installation |-> i])

\* approve_device_claim, also of a claim that is approved already; found is the installation's device.
ApproveClaim(r, c) ==
    LET i == claims[c].installation
    IN  /\ i \in Hubs => HubDevices \subseteq DeviceOf(i) /\ DeviceOf(i) \subseteq HubDevices
        /\ DeviceOf(i) = {} => Len(devices) < MaxDevices
        /\ Opens(r, [op |-> "approve", claim |-> c, hub |-> i \in Hubs, found |-> DeviceOf(i)])

\* What issuing a code reads: the activations it supersedes, and the version it goes on from.
Issue(r, d) ==
    /\ ActivationAllowed
    /\ Len(activations) < MaxActivations
    /\ Opens(r, [op |-> "issue", device |-> d, old |-> Live(d), version |-> LatestVersion(d) + 1])

OnSurface(d, desktop) ==
    /\ devices[d].installation # None
    /\ (Surface[devices[d].installation] = "store_desktop") = desktop

\* issue_store_desktop_activation and issue_runtime_activation
IssueDesktopActivation(r, d) == OnSurface(d, TRUE) /\ Issue(r, d)
IssueRuntimeActivation(r, d) == OnSurface(d, FALSE) /\ Issue(r, d)

\* The profile's runtime user must be of the device's surface; its e-mail and subject are unique.
MayHold(i) == seat[Holder[i]] \in {None, Surface[i]}

Redeem(r, a) ==
    /\ ActivationAllowed
    /\ activations[a].status = "ISSUED"
    /\ MayHold(devices[activations[a].device].installation)
    /\ Len(redeemed) < MaxRedeemed
    /\ Opens(r, [op |-> "redeem", activation |-> a])

\* redeem_store_desktop_activation and redeem_runtime_activation, within the code's time to live.
RedeemDesktopActivation(r, a) == OnSurface(activations[a].device, TRUE) /\ Redeem(r, a)
RedeemRuntimeActivation(r, a) == OnSurface(activations[a].device, FALSE) /\ Redeem(r, a)

\* unlock_store_desktop_runtime with the token of the redemption t.
UnlockDesktop(r, t) ==
    /\ SessionAllowed
    /\ \E a \in DOMAIN activations :
         /\ activations[a].status = "ACTIVE" /\ activations[a].token = t
         /\ ~activations[a].unlocked
         /\ Opens(r, [op |-> "unlock", activation |-> a])

-----------------------------------------------------------------------------
(* What it writes. *)

StoreRegistration(r) ==
    /\ Doing(r, "register") /\ Len(devices) < MaxDevices
    /\ devices' = Append(devices, [installation |-> None, hub |-> desk[r].hub])
    /\ Committed(r, {<<"device", Len(devices) + 1>>})
    /\ UNCHANGED <<claims, activations, redeemed, seat, lifecycle>>

StoreClaim(r) ==
    /\ Doing(r, "claim") /\ Len(claims) < MaxClaims
    /\ claims' = Append(claims, [installation |-> desk[r].installation, device |-> 0])
    /\ Committed(r, {<<"claim", Len(claims) + 1>>})
    /\ UNCHANGED <<devices, activations, redeemed, seat, lifecycle>>

\* The device, unless one was found, and the claim; the unique installation decides a race.
StoreApproval(r) ==
    /\ Doing(r, "approve")
    /\ LET c == desk[r].claim
           i == claims[c].installation
           d == IF desk[r].found = {} THEN Len(devices) + 1 ELSE Newest(desk[r].found)
       IN  /\ IF desk[r].found # {} THEN UNCHANGED devices
              ELSE /\ DeviceOf(i) = {} /\ Len(devices) < MaxDevices
                   /\ devices' = Append(devices, [installation |-> i, hub |-> desk[r].hub])
           /\ claims' = [claims EXCEPT ![c].device = d]
           /\ Committed(r, {<<"device", d>>})
    /\ UNCHANGED <<activations, redeemed, seat, lifecycle>>

Superseded(old) ==
    [a \in DOMAIN activations |->
        IF a \in old THEN [activations[a] EXCEPT !.status = "SUPERSEDED"] ELSE activations[a]]

NewActivation(d, version) ==
    [device |-> d, version |-> version, status |-> "ISSUED", token |-> 0, unlocked |-> FALSE]

\* supersede_..., get_next_..._version, create_...: the version is read after the UPDATE of the
\* superseded rows has waited for whoever holds them.
StoreActivation(r) ==
    /\ Doing(r, "issue") /\ Len(activations) < MaxActivations
    /\ LET d == desk[r].device
           version == IF desk[r].old = {} THEN desk[r].version ELSE LatestVersion(d) + 1
       IN  activations' = Append(Superseded(desk[r].old), NewActivation(d, version))
    /\ Committed(r, {<<"activation", Len(activations) + 1>>} \cup {<<"activation", a>> : a \in desk[r].old})
    /\ UNCHANGED <<devices, claims, redeemed, seat, lifecycle>>

\* Mutant of StoreRedemption: a second runtime user of the person is created.
StoreRedemptionAnySeat(r) ==
    /\ Doing(r, "redeem") /\ Len(redeemed) < MaxRedeemed
    /\ LET a == desk[r].activation
           i == devices[activations[a].device].installation
       IN  /\ seat' = [seat EXCEPT ![Holder[i]] = Surface[i]]
           /\ redeemed' = Append(redeemed, i)
           /\ activations' = [activations EXCEPT ![a].status = "ACTIVE", ![a].token = Len(redeemed) + 1]
           /\ Committed(r, {<<"activation", a>>})
    /\ UNCHANGED <<devices, claims, lifecycle>>

\* ensure_runtime_user, whose second INSERT of an e-mail the database refuses, and the activation;
\* the local auth token of a desktop is new each time.
StoreRedemption(r) ==
    /\ Doing(r, "redeem") /\ Len(redeemed) < MaxRedeemed
    /\ LET a == desk[r].activation
           i == devices[activations[a].device].installation
       IN  /\ MayHold(i)
           /\ seat' = [seat EXCEPT ![Holder[i]] = Surface[i]]
           /\ redeemed' = Append(redeemed, i)
           /\ activations' = [activations EXCEPT ![a].status = "ACTIVE", ![a].token = Len(redeemed) + 1]
           /\ Committed(r, {<<"activation", a>>})
    /\ UNCHANGED <<devices, claims, lifecycle>>

\* touch_store_desktop_activation_unlock: does not write the status.
StoreUnlock(r) ==
    /\ Doing(r, "unlock")
    /\ activations' = [activations EXCEPT ![desk[r].activation].unlocked = TRUE]
    /\ Committed(r, {<<"unlock", desk[r].activation>>})
    /\ UNCHANGED <<devices, claims, redeemed, seat, lifecycle>>

AccessFails(r) == RolledBack(r) /\ UNCHANGED deviceRows

\* The subscription's state as Commerce writes it, whatever is under way.
EntitlementChanges(l) ==
    /\ lifecycle # l
    /\ lifecycle' = l
    /\ UNCHANGED <<devices, claims, activations, redeemed, seat, deskVars>>

DeviceAccessNext ==
    \/ \E r \in Desks :
         \/ \E hub \in BOOLEAN : RegisterDevice(r, hub)
         \/ \E i \in Installations : ResolveClaim(r, i)
         \/ \E c \in DOMAIN claims : ApproveClaim(r, c)
         \/ \E d \in DOMAIN devices : IssueDesktopActivation(r, d) \/ IssueRuntimeActivation(r, d)
         \/ \E a \in DOMAIN activations : RedeemDesktopActivation(r, a) \/ RedeemRuntimeActivation(r, a)
         \/ \E t \in DOMAIN redeemed : UnlockDesktop(r, t)
         \/ StoreRegistration(r) \/ StoreClaim(r) \/ StoreApproval(r)
         \/ StoreActivation(r) \/ StoreRedemption(r) \/ StoreUnlock(r)
         \/ AccessFails(r)
    \/ \E l \in {"ACTIVE", "GRACE", "SUSPENDED"} : EntitlementChanges(l)

DeviceAccessSpec == DeviceAccessInit /\ [][DeviceAccessNext]_deviceVars

-----------------------------------------------------------------------------
(* Properties. *)

\* The approved claims of one installation name one device, that of the installation, however
\* approvals and claims interleave.
ClaimsAgree ==
    \A c \in DOMAIN claims :
        claims[c].device # 0 => DeviceOf(claims[c].installation) = {claims[c].device}

\* A branch has one hub, and a device one activation that is issued or in use: a second one only
\* after a request that another one overtook has written one of the two.
OneHubOneActivation ==
    /\ \A d, e \in HubDevices : d < e => ~Seen("device", e)
    /\ \A d \in DOMAIN devices : \A a, b \in Live(d) :
         a < b => ~Seen("activation", a) \/ ~Seen("activation", b)

\* The runtimes in use of one person are of one surface, in whatever order codes are redeemed.
OneSurfacePerHolder ==
    \A a, b \in DOMAIN activations :
        LET i == devices[activations[a].device].installation
            j == devices[activations[b].device].installation
        IN  activations[a].token # 0 /\ activations[b].token # 0 /\ Holder[i] = Holder[j]
              => Surface[i] = Surface[j]

\* Claims, activations and seats agree, over all the calls that bring a device into use.
DevicesAgree == ClaimsAgree /\ OneHubOneActivation /\ OneSurfacePerHolder
=============================================================================
