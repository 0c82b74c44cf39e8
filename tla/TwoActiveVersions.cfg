SPECIFICATION VersionsSpec
CONSTANTS
    StrategyNames = {"s"}
    RuleSets = {"r1", "r2"}
    BadRuleSets = {}
    MaxVersionRequests = 3
INVARIANT OneActiveVersion
CHECK_DEADLOCK FALSE
