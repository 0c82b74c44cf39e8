SPECIFICATION FairSpec
CONSTANTS
    Requests = {p1}
    Orig = orig
    Edits = {}
    None = none
    MaxFailures = 0
    MaxCrashes = 0
PROPERTY ChangedLimitsReachWorker
CHECK_DEADLOCK FALSE
