CONSTANTS
    MaxRingDepth = 2
    HeapBytes = 6
    HeapAlign = 2
    AllocTimeout = 1
    Threads = {t1, t2}
    Requests = {0, 1, 3, 7}
    ScopeDepths = {0, 5}
    MaxSlots = 3
SPECIFICATION FairSpec
PROPERTIES ImplementsAllocator AllocReturns
INVARIANTS RingInv HeldSlabsDisjoint
