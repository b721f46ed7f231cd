\* Only the audit insert may fail.
CONSTANTS
    Tenants = {t1}
    Files = {f1}
    Processes = {p1, p2}
    NoDoc = NoDoc
    MaxChunks = 1
    MaxEntities = 1
    TopK = 1
    EnableRls = TRUE
    OwnerBypassesRls = TRUE
    Faulty = {"audit"}
    Crashes = 0
    MaxRequests = 2
SPECIFICATION Spec
INVARIANTS
    FailedAuditRollsBack
