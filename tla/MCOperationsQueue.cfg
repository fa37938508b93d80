\* Safety: two workers, two rows of one key, a crash and an operator's retry.
SPECIFICATION Spec
CONSTANTS
    w1 = w1  w2 = w2
    j1 = j1  j2 = j2
    p1 = p1
    k1 = k1
    None = None
    Jobs <- MCJobs
    Keys <- MCKeys
    Producers = {p1}
    Workers <- MCWorkers
    MaxAttempts = 2
    BatchLimit = 2
    Outcomes <- MCOutcomes
    MaxCrashes = 1
    MaxRetries = 1
SYMMETRY MCSymmetry
INVARIANTS
    TypeOK
    LeaseMatchesStatus
    ExclusiveUntilLapse
PROPERTIES
    SucceededStaysSucceeded
