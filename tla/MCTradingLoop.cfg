SPECIFICATION FairSpec
CONSTANTS
    Ids = {1, 2, 3}
    MinNotional = 3
    Prices = {2, 3, 4}
    Sizes = {1, 2}
    StopDists = {0, 1}
    TpMultiple = 1
    LiqDist = 2
    Scaled = TRUE
INVARIANTS
    EngineAgreesWithVenue
PROPERTIES
    LatchedNeverGrows
    LatchFlattens
