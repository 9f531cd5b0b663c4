SPECIFICATION Spec
CONSTANTS
    s1 = s1
    NoReq = NoReq
    Seats = {s1}
    Requests = {r1, r2, r3}
    SeatOf <- MCSeatOf
    Procs = {p1, p2}
    Jobs = {j1, j2}
    PerTick = 1
    HoldTtl = 2
    PayWithin = 2
    MaxFaults = 1
INVARIANTS
    TypeOK
    HoldOutlivesItem
PROPERTIES
    UnpaidIsReleased
    LostHoldHeals
    QueueDrains
CHECK_DEADLOCK FALSE
