SPECIFICATION Spec
CONSTANTS
    s1 = s1
    r1 = r1
    r2 = r2
    r3 = r3
    p1 = p1
    p2 = p2
    perf = perf
    NoReq = NoReq
    Seats = {s1}
    Performances = {perf}
    PerformanceOf <- MCPerformanceOf
    Requests = {r1, r3}
    SeatOf <- MCSeatOf
    Procs = {p1, p2}
    HomeOf <- MCHomeOf
    BatchMax = 1
    InitialCache = {"AVAILABLE"}
    Expiring = {"key"}
    MaxFaults = 0
    Handlers = {h1}
    Deletable = {}
    Browsed = {}
INVARIANTS
    FreedSeatIsOffered
CHECK_DEADLOCK FALSE
