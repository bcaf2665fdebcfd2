SPECIFICATION Spec
CONSTANTS
    None = None
    Bad = Bad
    x1 = x1
    x2 = x2
    a1 = a1
    a2 = a2
    c1 = c1
    p1 = p1
    p2 = p2
    Ids = {x1, x2}
    Scopes <- AllRanks
    Expiries <- SomeExpiries
    Resources <- TwoResources
    Admins = {a1}
    Callers = {c1}
    Pages = {p1}
    TTL = 2
    MaxTime = 1
    MaxRequests = 3
    MaxFaults = 0
INVARIANTS
    CoveredIsSkipped
CHECK_DEADLOCK FALSE
