SPECIFICATION DFairSpec
CONSTANTS
    r1 = r1
    r2 = r2
    r3 = r3
    winA = winA
    winB = winB
    root = root
    Ranks = {r1, r2}
    Base = root
    Domains = {winA, winB}
    Members <- OnPair
    Program <- NoProgram
    MaxSegments = 4
    MaxFaults = 1
    AllocOrder <- Order
    DomainName <- OneName
    MaxTasks = 1
    MaxRuns = 2
INVARIANTS NothingStranded
CHECK_DEADLOCK FALSE
