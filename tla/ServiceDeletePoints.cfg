\* A deletion overlaps the upload of its document; nothing fails.
CONSTANTS
    Tenants = {t1}
    Files = {f1}
    Processes = {p1, p2}
    NoDoc = NoDoc
    MaxChunks = 1
    MaxEntities = 1
    TopK = 1
    EnableRls = TRUE
    OwnerBypassesRls = TRUE
    Faulty = {}
    Crashes = 0
    MaxRequests = 2
SPECIFICATION Spec
INVARIANTS
    DeletedIsNotRetrievable
