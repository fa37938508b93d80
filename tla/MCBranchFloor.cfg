\* A branch with two members of staff at one till, two installations, a hub with two spokes, two
\* apps that print, two pushes and two offline sales; two requests of the control plane at a time,
\* after one row that an overtaken one has written none begins.
SPECIFICATION FloorSpec
CONSTANTS
    a1 = a1  a2 = a2  b1 = b1  b2 = b2  ann = ann  bob = bob  till1 = till1
    i1 = i1  i2 = i2  holder = holder
    k1 = k1  k2 = k2  s1 = s1  s2 = s2  rec1 = rec1  rec2 = rec2
    Desks = {a1, a2}
    MaxBlind = 1
    Staff = {ann, bob}
    Tills = {till1}
    AssignedStaff <- MCAssigned
    DayPolicies <- MCPolicies
    MaxShifts = 1
    MaxAttendances = 2
    MaxCashiers = 2
    MaxBills = 1
    Installations = {i1, i2}
    Surface <- MCSurface
    Holder <- MCHolder
    Hubs = {i1}
    MaxDevices = 2
    MaxClaims = 2
    MaxActivations = 2
    MaxRedeemed = 2
    Spokes = {b1, b2}
    SpokeProfiles = {"desktop_spoke"}
    MaxSecrets = 1
    MaxSpokeActivations = 2
    PushKeys = {k1, k2}
    SaleKeys = {s1, s2}
    SyncRecords = {rec1, rec2}
    Batch <- MCBatch
    Stock0 = 1
    PullLimit = 1
    MaxTill = 1
    Apps = {a1, a2}
    Timers = {b1, b2}
    MaxPrintJobs = 2
    MaxFaults = 1
    MaxByHand = 1
    Scopes = {"hub", "next hub"}
    MaxPending = 2
    MaxPurchases = 2
    MaxCrashes = 1
    MaxMoves = 1
SYMMETRY MCSymmetry
CHECK_DEADLOCK FALSE
INVARIANTS
    DayHolds
    DevicesAgree
    HubRowsAgree
    ReplayedOnce
    OnlyTheOvertakenErr
    PaperMatchesReports
    
