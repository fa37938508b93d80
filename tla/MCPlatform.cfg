\* One tenant's subscription with two plans and three events of the provider over three days; two
\* tenants with a branch each, an administrator and one of their staff; a legacy store that starts in
\* the middle of its day, two requests at a time.
SPECIFICATION PlatformSpec
CONSTANTS
    r1 = r1  r2 = r2  t1 = t1  t2 = t2  b1 = b1  b2 = b2
    Desks = {r1, r2}
    MaxBlind = 1
    Plans = {"launch", "growth"}
    LaunchPlan = "launch"
    Events <- MCEvents
    TrialDays = 1
    GraceDays = 1
    PeriodDays = 1
    MaxDay = 3
    MaxSubs = 2
    MaxOrders = 3
    Staff = {"root", "ann"}
    Tenants = {t1, t2}
    BranchesOf <- MCSites
    TenantRoles = {"finance_admin"}
    BranchRoles = {"cashier"}
    Admins = {"root"}
    MaxSessions = 3
    MaxGrants = 2
    Callers = {r1, r2}
    Opening <- MCOpening
    StateFile = TRUE
    WriteModes = {"shadow", "cutover"}
    MaxAmount = 1
    MaxCalls = 3
    Late = {"submit"}
SYMMETRY MCSymmetry
CHECK_DEADLOCK FALSE
INVARIANTS
    EntitlementFollowsSubscription
    SuspensionHolds
    
    
    
    LegacySettledOnce
