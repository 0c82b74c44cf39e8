SPECIFICATION SafeguardsSpec
CONSTANTS
    Equities <- MCEquities
    Cfgs <- MCCfgs
    Scale = 1000
    DwellCap = 2
    MaxReleases = 2
    Quantities <- MCQuantities
    Prices = {1, 3}
    GuardEquities = {0, 2, 5, 9}
    Atrs = {0, 1, 2}
    OtherNotionals = {0, 4}
    MarginFrac <- MCMarginFrac
    LevSet = 3
    MaxLeverage = 2
    MinDtl = 2
    BufferFrac <- MCBufferFrac
    StopMult = 1
    Mmr <- MCMmr
    Streams = {"kline", "depth"}
    Stamps = {1, 2, 3}
    MaxItems = 3
    MaxSessions = 2
    Minute = 2
    HourLength = 4
    LastHour = 1
    Silence = 3
    DedupWindow = 1
    QualityEvents <- MCQualityEvents
    Digests <- MCDigests
    Steps = {0, 2}
    MaxFrames = 3
    QualityGaps <- MCQualityGaps
    MaxLosses = 1
    MaxSession = 6
    Candles <- MCCandles
    MaxBatch = 3
    MaxUpserts = 2
    PageSize = 1
    Symbols <- MCSymbols
    JournalFlush = 2
    HourCandles = 1
    MaxEntries = 4
    MaxReleased = 2
    MaxStreamItems = 1
INVARIANTS
    ReleasesAreSound
    RecoveryTakesDwell
    GuardIsSafe
    RecordingIsFaithful
    QualityIsAccounted
    CandlesAreKept
    SessionIsRecorded
PROPERTIES
    LatchAgreesAfterBar
    BreachNeverUnderstated
    ImplementsRiskMode
CHECK_DEADLOCK FALSE
