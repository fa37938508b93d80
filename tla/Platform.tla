------------------------------ MODULE Platform ------------------------------
(***************************************************************************)
(* The components above the branches: subscriptions and entitlements, who   *)
(* may sign in and what each role reaches, and the legacy store that still  *)
(* serves the tenants which have not moved.  Their rows are apart, as on    *)
(* the BranchFloor, and platform says which part a behaviour explores.      *)
(***************************************************************************)
EXTENDS Commerce, Access, LegacyStore

VARIABLE platform

PlatformParts == {"commerce", "access", "legacy"}

platformVars == <<platform, deskVars, commerceRows, accessRows, legacyVars>>

PlatformInit ==
    /\ platform \in PlatformParts
    /\ CommerceInit /\ AccessInit /\ LegacyInit
    /\ platform # "legacy" => mode = CHOOSE m \in WriteModes : TRUE

\* The part is part, and the rows of the other parts stand still.
Within(part) ==
    /\ platform = part /\ UNCHANGED platform
    /\ part # "commerce" => UNCHANGED commerceRows
    /\ part # "access" => UNCHANGED accessRows
    /\ part # "legacy" => UNCHANGED legacyVars
    /\ part = "legacy" => UNCHANGED deskVars

PlatformNext ==
    \/ Within("commerce") /\ CommerceNext
    \/ Within("access") /\ AccessNext
    \/ Within("legacy") /\ LegacyNext

PlatformSpec == PlatformInit /\ [][PlatformNext]_platformVars
=============================================================================
