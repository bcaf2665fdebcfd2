SPECIFICATION Spec
CONSTANTS
    k1 = k1
    k2 = k2
    v1 = v1
    v2 = v2
    Keys = {k1, k2}
    Values = {v1, v2}
    Payloads <- TwoKeys
    Modes = {"off", "detect", "revert"}
    Writers = {u1}
    Scans = {s1}
    Handlers = {h1, h2}
    MaxWrites = 1
    MaxEdits = 1
    MaxFaults = 1
INVARIANTS
    TypeOK
    BaselineWasLive
    CalmMeansProtected
PROPERTIES
    RevertsDieOut
CHECK_DEADLOCK FALSE
