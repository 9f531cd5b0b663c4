SPECIFICATION Spec
CONSTANTS
    s1 = s1
    s2 = s2
    r1 = r1
    r2 = r2
    p1 = p1
    NoRes = NoRes
    Seats = {s1, s2}
    Performances = {p1}
    PerformanceOf <- MCPerformanceOf
    Reservations = {r1, r2}
    SeatOf <- MCSeatOf
    Conns = {c1, c2, c3}
PROPERTIES
    ConfirmedIsFinal
CHECK_DEADLOCK FALSE
