SPECIFICATION Spec
CONSTANTS
    None = None
    c1 = c1
    c2 = c2
    u1 = u1
    Keys <- KeySet
    Values <- ValueSet
    Lower <- LowerOf
    Reserved = {}
    Blank = {""}
    SchemaFile <- TwoRules
    UnknownTags = "warn"
    Normalization = TRUE
    PROPAGATE_KEYS = {"schema"}
    PROPAGATE_EXCLUDE_KEYS = {"Name"}
    max_tasks = 2
    Stories <- AllStories
    Checkers = {c1, c2}
    Users = {u1}
    KeepRuns = 2
SYMMETRY Symmetry
INVARIANTS
    TypeOK
    GapsAreFound
    RoundsConverge
CHECK_DEADLOCK FALSE
