SPECIFICATION FairSpec
CONSTANTS
    Requests = {p1, p2}
    Orig = orig
    Edits = {broken}
    None = none
    MaxFailures = 1
    MaxCrashes = 1
INVARIANTS
    DistinctBases
    TradesOnValidLimits
PROPERTY
    WorkerCatchesUp
CHECK_DEADLOCK FALSE
