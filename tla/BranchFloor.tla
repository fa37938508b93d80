---------------------------- MODULE BranchFloor ----------------------------
(***************************************************************************)
(* The components that meet in a branch: the working day, the devices, the  *)
(* hub's desktop and its spokes, the sync of hub and cloud, the printers    *)
(* and the till without a cloud.  Each keeps rows of its own; what they     *)
(* share is the control plane that serves them, one request per desk.       *)
(*                                                                          *)
(* No handler of one reads a row of another, so a run of the floor is a     *)
(* shuffle of runs of its parts, and a property of one part's rows holds of *)
(* every shuffle if it holds of the part.  TLC therefore explores one part  *)
(* at a time: floor says which, the others stand still.                     *)
(***************************************************************************)
EXTENDS Workforce, DeviceAccess, HubRuntime, SpokeSync, PrintQueue, OfflineTill

VARIABLE floor

FloorParts == {"workforce", "devices", "hub", "sync", "printers", "till"}

floorVars == <<floor, deskVars, workforceRows, deviceRows, hubVars, syncRows, syncHub, printVars, tillVars>>

FloorInit ==
    /\ floor \in FloorParts
    /\ WorkforceInit /\ DeviceAccessInit /\ HubRuntimeInit /\ SpokeSyncInit /\ PrintInit /\ OfflineTillInit

\* The part is part, and the rows of the other parts stand still.
Stand(part) ==
    /\ floor = part /\ UNCHANGED floor
    /\ part # "workforce" => UNCHANGED workforceRows
    /\ part # "devices" => UNCHANGED deviceRows
    /\ part # "hub" => UNCHANGED hubVars
    /\ part # "sync" => UNCHANGED <<syncRows, syncHub>>
    /\ part # "printers" => UNCHANGED printVars
    /\ part # "till" => UNCHANGED tillVars
    /\ part \in {"printers", "till"} => UNCHANGED deskVars

FloorNext ==
    \/ Stand("workforce") /\ WorkforceNext
    \/ Stand("devices") /\ DeviceAccessNext
    \/ Stand("hub") /\ HubRuntimeNext
    \/ Stand("sync") /\ SpokeSyncNext
    \/ Stand("printers") /\ PrintNext
    \/ Stand("till") /\ OfflineTillNext

FloorSpec == FloorInit /\ [][FloorNext]_floorVars
=============================================================================
