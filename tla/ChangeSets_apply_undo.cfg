SPECIFICATION Spec
CONSTANTS
    r1 = r1
    r2 = r2
    k1 = k1
    v1 = v1
    v2 = v2
    o1 = o1
    Resources = {r1, r2}
    Keys = {k1}
    Values = {v1, v2}
    Allowed = {v1}
    Settings = {o1}
    Requests <- FixAndPropagate
    Users = {u1, u2}
    MaxRows = 3
    MaxEdits = 1
    MaxFaults = 1
SYMMETRY Symmetry
INVARIANTS
    TypeOK
    NoBlindWrite
    SuccessIsReal
    PreviewIsBinding
    UndoneMeansRestored
CHECK_DEADLOCK FALSE
