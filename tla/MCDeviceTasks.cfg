CONSTANTS
    t0 = t0
    t1 = t1
    Programs <- AllPrograms
    Depth = 2
    Window = 4
    HeapSize = 5
    Threads = {t0, t1}
    Wirer = t0
    QueueSize = 2
SPECIFICATION FairSpec
CONSTRAINT NotLate
INVARIANTS RunsOnceInOrder 
  
CHECK_DEADLOCK FALSE
