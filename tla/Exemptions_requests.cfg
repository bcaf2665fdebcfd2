SPECIFICATION Spec
CONSTANTS
    None = None
    Bad = Bad
    x1 = x1
    x2 = x2
    a1 = a1
    a2 = a2
    c1 = c1
    p1 = p1
    p2 = p2
    Ids = {x1, x2}
    Scopes <- OneRank
    Expiries <- NoDate
    Resources <- OneResource
    Admins = {a1, a2}
    Callers = {c1}
    Pages = {p1, p2}
    TTL = 1
    MaxTime = 1
    MaxRequests = 4
    MaxFaults = 1
SYMMETRY Symmetry
INVARIANTS
    TypeOK
    OverlapOnly
    RevokeIsSeen
PROPERTIES
    RevokedStaysRevoked
CHECK_DEADLOCK FALSE
