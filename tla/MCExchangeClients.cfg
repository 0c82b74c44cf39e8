SPECIFICATION ClientsSpec
CONSTANTS
    Conns = {"market", "public"}
    QueueSize = 1
    MaxConnects = 2
    MaxFrames = 1
    Timeout = 1
    Callers = {"backfill", "trades"}
    Weights = {1, 2, 3}
    Rate = 1
    Window = 2
    MaxAttempts = 2
    MaxPause = 2
    LastKey = 4
    PageLimit = 2
INVARIANTS
    BudgetHeld
    PagesAreRight
PROPERTIES
    ConnectionsAreSound
    ClientsMakeProgress
CHECK_DEADLOCK FALSE
