SPECIFICATION LoopSpec
CONSTANTS
    a1 = a1
    m1 = m1
    m2 = m2
    Actions = {a1}
    Fingerprints = {f1}
    Workers = {w1, w2}
    Callers = {}
    MaxAttempts = 2
    MaxFaults = 1
    StallsOutlastLease = FALSE
    Messages = {m1, m2}
    Body <- HealthBodies
    MaxBatch = 2
    MaxReceives = 3
    EarlyRedelivery = TRUE
    Stoppable = {}
SYMMETRY Symmetry
INVARIANTS
    LoopTypeOK
    DeletedMeansHandled
    OneExecutor
CHECK_DEADLOCK FALSE
