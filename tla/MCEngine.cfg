SPECIFICATION FairSpec
CONSTANTS
    Sessions <- AllSessions
    PoolSize <- Pools21
    HeapSlabs = 2
    MaxTasks = 4
    Outcomes = {"ok", "error"}
    MaxRingDepth = 2
    MaxScopeDepth = 2
CHECK_DEADLOCK FALSE
INVARIANTS EachTaskRunsOnce   DrainLeavesNothing
 
