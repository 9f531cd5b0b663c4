SPECIFICATION FairSpec
CONSTANTS
    s1 = s1
    r1 = r1
    r2 = r2
    r3 = r3
    p1 = p1
    p2 = p2
    perf = perf
    NoReq = NoReq
    Seats = {s1}
    Performances = {perf}
    PerformanceOf <- MCPerformanceOf
    Requests = {r1, r2, r3}
    SeatOf <- MCSeatOf
    Procs = {p1, p2}
    HomeOf <- MCHomeOf
    BatchMax = 2
    InitialCache = {"AVAILABLE"}
    Expiring = {}
    MaxFaults = 1
    Handlers = {}
    Deletable = {}
    Browsed = {s1}
INVARIANTS
    TypeOK
    AtMostOneAccepted
    AcceptedIsKept
    RejectedLeavesNoTrace
    HoldIsAccounted
PROPERTIES
    AcceptedIsPersisted
    EveryRequestAnswered
CHECK_DEADLOCK FALSE
