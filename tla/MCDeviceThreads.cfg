SPECIFICATION FairSpec
CONSTANTS
    ThreadNum = 3
    OrchToSched = TRUE
    CoreNum = 3
    Singles = 2
    SyncBlocks = 2
    MaxLaunches = 1
CONSTRAINT NotRaced
INVARIANTS DrainExclusive SyncStartsWhole EndsComplete 
 
CHECK_DEADLOCK FALSE
