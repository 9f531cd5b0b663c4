SPECIFICATION Spec
CONSTANTS
    NoEmail = NoEmail
    NoId = NoId
    UserIds = {u1, u2}
    Emails = {m1, m2}
    Events = {e1, e2}
    Performances = {p1}
    Handlers = {h1, h2}
INVARIANTS
    TypeOK
    OneAccountPerEmail
    NoOrphans
PROPERTIES
    RequestsEnd
CHECK_DEADLOCK FALSE
