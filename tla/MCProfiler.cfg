SPECIFICATION FairSpec
CONSTANTS
    Cores = {1, 2}
    Threads = {1, 2}
    Owner <- Own
    SlotCount = 2
    BuffersPerCore = 2
    RecordsPerBuffer = 1
    ReadyQueueSize = 2
    MaxBuffers = 5
    MaxRecords = 3
INVARIANTS OneHolder Reconciles  
PROPERTY RunEnds
CHECK_DEADLOCK FALSE
