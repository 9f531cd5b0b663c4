SPECIFICATION Spec
CONSTANTS
    s1 = s1
    r1 = r1
    r2 = r2
    r3 = r3
    p1 = p1
    p2 = p2
    perf = perf
    NoReq = NoReq
    Seats = {s1}
    Performances = {perf}
    PerformanceOf <- MCPerformanceOf
    Requests = {r1, r3}
    SeatOf <- MCSeatOf
    Procs = {p1, p2}
    HomeOf <- MCHomeOf
    BatchMax = 1
    InitialCache = {"MISSING", "AVAILABLE"}
    Expiring = {"key", "lock"}
    MaxFaults = 1
    Handlers = {h1, h2}
    Deletable = {perf}
    Browsed = {}
INVARIANTS
    OneLossPerError
CHECK_DEADLOCK FALSE
