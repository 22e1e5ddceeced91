SPECIFICATION FairSpec
CONSTANTS
    c1 = c1  c2 = c2  A = A  B = B  F = F
    NoCallable = NoCallable
    Children = {c1, c2}
    ChildKinds = {"chip", "worker"}
    MaxCids = 1
    Chips = {A, B}
    Fns = {F}
    Faults = {"prepare", "unregister"}
    MaxDeaths = 1
    Initial <- FirstId
    MaxCalls = 2
    MaxRequests = 1
    MaxInits = 2
INVARIANTS OneRequestAtATime RunsRegisteredCallable RegisteredEverywhere
PROPERTIES CallsReturn CloseReturns
