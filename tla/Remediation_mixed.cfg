SPECIFICATION Spec
CONSTANTS
    Actions = {a1}
    Fingerprints = {f1, f2}
    Workers = {w1, w2}
    Callers = {c1}
    MaxAttempts = 2
    MaxFaults = 2
    StallsOutlastLease = TRUE
SYMMETRY Symmetry
INVARIANTS
    TypeOK
    OneCallPerAttempt
    CompletedMeansTagged
    OnlyRequestedTags
    AuditTrail
PROPERTIES
    TerminalIsFinal
    LifecycleSpec
