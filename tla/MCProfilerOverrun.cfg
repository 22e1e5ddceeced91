SPECIFICATION Spec
CONSTANTS
    Cores = {1}
    Threads = {1}
    Owner <- Own
    SlotCount = 2
    BuffersPerCore = 2
    RecordsPerBuffer = 1
    ReadyQueueSize = 3
    MaxBuffers = 5
    MaxRecords = 5
INVARIANT CountsReconcile
CHECK_DEADLOCK FALSE
