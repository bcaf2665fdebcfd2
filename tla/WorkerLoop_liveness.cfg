SPECIFICATION FairLoopSpec
CONSTANTS
    a1 = a1
    m1 = m1
    m2 = m2
    Actions = {a1}
    Fingerprints = {f1}
    Workers = {w1, w2}
    Callers = {}
    MaxAttempts = 2
    MaxFaults = 0
    StallsOutlastLease = FALSE
    Messages = {m1, m2}
    Body <- PoisonBodies
    MaxBatch = 2
    MaxReceives = 4
    EarlyRedelivery = FALSE
    Stoppable = {w1}
PROPERTIES
    ActionsFinish
    PoisonEndsInDLQ
    ShutdownCompletes
CHECK_DEADLOCK FALSE
