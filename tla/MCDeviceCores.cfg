SPECIFICATION FairSpec
CONSTANTS
    ThreadNum = 2
    OrchToSched = TRUE
    Launches <- AllLaunches
    TaskIdMask = 7
    ExitSignal = 4
INVARIANTS SlotsAgree PayloadIntact CompletesAfterItsBlocks
PROPERTY LaunchEnds
CHECK_DEADLOCK FALSE
