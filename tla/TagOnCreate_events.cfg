SPECIFICATION Spec
CONSTANTS
    None = None
    i1 = i1
    e1 = e1
    w1 = w1
    Keys <- KeySet
    Values <- ValueSet
    Lower <- LowerOf
    Reserved = {}
    Blank = {""}
    SchemaFile <- TwoRules
    UnknownTags = "warn"
    Normalization = TRUE
    DEFAULT_REGION = "r1"
    Stories <- AllStories
    Autos = {i1}
    Enforcers = {e1}
    Writers = {w1}
    Requests <- SomeRequests
    Editions <- SomeEditions
    LowerValue <- LowerValues
    Endings <- NoEndings
    OWNER_MATCH_TAGS = {"owner"}
    OWNER_TAG_KEY = "Owner"
    TAG_API_BATCH = 1
    TAG_LOOKUP_RETRIES = 2
    GOVERNANCE_STRICT_MODE = TRUE
    GOVERNANCE_REMEDIATION_ENABLED = TRUE
    PageSize = 1
INVARIANTS
    TypeOK
    AuditSuccessIsReal
PROPERTIES
    OwnerKept
    WriteKeepsCompliance
    OwnersWriteTheirOwn
    OwnedInTheEnd
CHECK_DEADLOCK FALSE
