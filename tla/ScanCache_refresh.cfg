SPECIFICATION Spec
CONSTANTS
    r1 = r1
    r2 = r2
    Accounts = {x1}
    Regions = {r1, r2}
    Requests <- TwoRegions
    Refreshers = {t1, t2}
    Reporters = {q1}
    Readers = {g1}
    Keep = 1
    HasLegacy = TRUE
    MaxScans = 2
    MaxFaults = 1
INVARIANTS
    TypeOK
    OneRefresh
    LatestIsWhole
    ServedIsWhole
PROPERTIES
    RefreshReleasesLock
CHECK_DEADLOCK FALSE
