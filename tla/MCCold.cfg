SPECIFICATION FairSpec
CONSTANTS
    s1 = s1
    r1 = r1
    r2 = r2
    r3 = r3
    p1 = p1
    p2 = p2
    perf = perf
    NoReq = NoReq
    Seats = {s1}
    Performances = {perf}
    PerformanceOf <- MCPerformanceOf
    Requests = {r1, r3}
    SeatOf <- MCSeatOf
    Procs = {p1, p2}
    HomeOf <- MCHomeOf
    BatchMax = 2
    InitialCache = {"MISSING", "AVAILABLE"}
    Expiring = {"key"}
    MaxFaults = 1
    Handlers = {}
    Deletable = {}
    Browsed = {}
INVARIANTS
    RejectedLeavesNoTrace
    HoldIsAccounted
    SlowPathExclusive
PROPERTIES
    EveryRequestAnswered
    QueueDrains
CHECK_DEADLOCK FALSE
