SPECIFICATION FairSpec
CONSTANTS
    Minutes = {0, 1, 2}
    Trades = {1, 2, 3, 4}
    TF = 1
    Grace = 2
    MaxTime = 5
    MaxReorder = 1
INVARIANTS
    SeriesIsAccounted
    TradesAccounted
PROPERTY
    HeldIsReleased
CHECK_DEADLOCK FALSE
