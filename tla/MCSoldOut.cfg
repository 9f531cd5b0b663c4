SPECIFICATION Spec
CONSTANTS
    s1 = s1
    s2 = s2
    s3 = s3
    r1 = r1
    r2 = r2
    r3 = r3
    NoOne = NoOne
    p1 = p1
    p2 = p2
    Seats = {s1, s2, s3}
    Performances = {p1, p2}
    PerformanceOf <- MCPerformanceOf
    Reservations = {r1, r2, r3}
    SeatOf <- MCSeatOf
    OrganiserCounts <- MCOrganiserCounts
    Jobs = {j1, j2}
    MaxChanges = 2
    MaxFaults = 0
PROPERTIES
    SoldOutIsShown
CHECK_DEADLOCK FALSE
