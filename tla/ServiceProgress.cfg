\* Progress of two workers serving one tenant; the vector store may fail and
\* a worker may crash.  No symmetry: a liveness property is checked.
CONSTANTS
    Tenants = {t1}
    Files = {f1, f2}
    Processes = {p1, p2}
    NoDoc = NoDoc
    MaxChunks = 1
    MaxEntities = 0
    TopK = 1
    EnableRls = TRUE
    OwnerBypassesRls = TRUE
    Faulty = {"vectors"}
    Crashes = 1
    MaxRequests = 3
SPECIFICATION FairSpec
PROPERTIES
    RequestsEnd
    OrphansSettle
