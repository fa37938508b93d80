\* A worker that outlives its lease settles the row under the next owner.
SPECIFICATION Spec
CONSTANTS
    w1 = w1  w2 = w2
    j1 = j1  j2 = j2
    p1 = p1
    k1 = k1
    None = None
    Jobs <- MCOneJob
    Keys <- MCKeys
    Producers = {p1}
    Workers <- MCWorkers
    MaxAttempts = 2
    BatchLimit = 2
    Outcomes <- MCOutcomes
    MaxCrashes = 0
    MaxRetries = 0
PROPERTIES
    StaleWorkerNeverSettles
