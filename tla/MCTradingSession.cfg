SPECIFICATION Spec
CHECK_DEADLOCK FALSE
CONSTANTS
    MaxBar = 3
    MaxCommands = 2
INVARIANTS
    ChainVerifies
    RunIsRecorded
