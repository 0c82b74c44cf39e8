SPECIFICATION ChannelSpec
CONSTANTS
    MaxRequests = 2
    MaxRuns = 1
    PollLimit = 50
INVARIANT CommandNotLost
CHECK_DEADLOCK FALSE
