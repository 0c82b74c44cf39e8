SPECIFICATION ApiSpec
CONSTANTS
    MaxRequests = 3
    MaxRuns = 2
    PollLimit = 2
    MaxBacktests = 3
    Identities = {"a", "b"}
    MaxPending = 2
    MaxConcurrent = 1
    MaxJobs = 2
    Clients = {"browser"}
    Kinds = {"risk", "order"}
    LiveQueueSize = 1
    ReplaySize = 2
    MaxEvents = 3
    MaxStreams = 2
    Users = {"ann", "bob"}
    UserRoleNames = {"admin", "operator", "analyst"}
    MaxCommands = 3
    StrategyNames = {"s", "t"}
    RuleSets = {"r1", "r2", "bad"}
    BadRuleSets = {"bad"}
    MaxVersionRequests = 3
    Logins = {"ann"}
    DemoLogins = {"ann"}
    Asked = {"killswitch_release", "risk_read"}
    Attempts = {1, 2}
    Calls = {1}
    MaxLoginFailures = 2
    LoginWindow = 2
    TokenTtl = 2
    MaxTokens = 1
    MaxClock = 2
INVARIANTS
    JobsAreSound
    StreamIsExact
    VersionsAreNumbered
    AccessIsCurrent
    AppliedIsFresh
PROPERTIES
    ApiMakesProgress
    DemotionLeavesAdmin
CHECK_DEADLOCK FALSE
