SPECIFICATION Spec
CONSTANTS
    ThreadNum = 3
    OrchToSched = TRUE
    CoreNum = 3
    Singles = 1
    SyncBlocks = 3
    MaxLaunches = 1
INVARIANT DrainExclusive
CHECK_DEADLOCK FALSE
