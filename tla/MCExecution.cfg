SPECIFICATION ExecutionSpec
CONSTANTS
    Ids = {1, 2, 3}
    MinNotional = 2
    Prices = {1, 2, 3}
    Shapes <- MCShapes
    TpLevels = {3}
    LiqLevels = {1}
    BarPrices = {36, 72}
    FillQtys = {1, 2}
    MaxPosition = 3
    MaxBars = 4
    FeeDivisor = 6
    FundingDivisor = 36
    DayLength = 6
    FundingOffsets = {0, 2}
    OpenSteps = {2, 6}
    BarLength = 2
    MatchWindow = 2
    FundingSeries <- MCFundingSeries
    FallbackRate = 1
    OrderIds = {"o1", "o2"}
    Contents = {"buy", "sell", "tiny"}
    BadContents = {"tiny"}
    MaxSubmits = 4
    Intents <- MCIntents
    UnitU = 10
    UnitS = 4
    UnitK = 2
    Enter = 3
    Exit = 1
    SizingEquities = {0, 3000}
    SizingPrices = {7}
    Ranges = {0, 3}
    Kappas = {0, 1, 2}
    Sigmas = {0, 20}
    SigmaTarget = 4
    ScaleMin = 1
    ScaleMax = 12
    Gamma = 5
    RiskDivisor = 20
    Chi = 2
    MaxLeverage = 3
    StepSize = 2
    SizeMinNotional = 40
    ClosedBars <- MCBars
    MaxClosedBars = 6
    NEma = 2
    EmaHorizon = 1
    R2Points = 3
    NAtr = 2
    NRsi = 2
    DivLookback = 2
    BbN = 2
    BwRankWindow = 3
    DonchianN = 2
    ParkWindow = 2
    VolRankWindow = 3
    VolumeWindow = 3
    ResyncEvery = 2
    Capacity = 3
    DetectorStrengths <- MCStrengths
    Confidences = {0, 1}
    MaxRules = 4
INVARIANTS
    BookIsSound
    AccountsAreExact
    RouterIsTruthful
    FeaturesMatchHistory
    DecisionIsConsistent
PROPERTIES
    NothingOutlivesPosition
    StopBeforeTakeProfit
    SizingIsSteady
CHECK_DEADLOCK FALSE
