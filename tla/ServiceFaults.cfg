\* Two workers, every service may fail, one worker crash.
CONSTANTS
    Tenants = {t1, t2}
    Files = {f1, f2}
    Processes = {p1, p2}
    NoDoc = NoDoc
    MaxChunks = 2
    MaxEntities = 1
    TopK = 1
    EnableRls = TRUE
    OwnerBypassesRls = TRUE
    Faulty = {"s3", "postgres", "audit", "ocr", "pii", "vectors", "bedrock"}
    Crashes = 1
    MaxRequests = 3
SPECIFICATION Spec
SYMMETRY Symmetry
INVARIANTS
    TypeOK
    ChildRowsBelong
    RowsHaveObjects
    IndexMatchesRows
    OrphansAccountedFor
    SuccessesAreAudited
    AuditTellsTruth
    AnswersStayInTenant
    Ownership
PROPERTIES
    OnlyOwnRequestsChange
    ImplementsLibrary
