SPECIFICATION FairSpec
CONSTANTS
    r1 = r1
    r2 = r2
    r3 = r3
    d1 = d1
    Ranks = {r1, r2}
    Base = base
    Domains = {d1}
    Members <- Pair
    Program <- OneLife
    MaxSegments = 3
    MaxFaults = 1
INVARIANTS AllocIsUnanimous NothingLingers
PROPERTIES BarriersImplement CallsReturn
CHECK_DEADLOCK FALSE
