SPECIFICATION Spec
CONSTANTS
    t1 = t1
    t2 = t2
    d1 = d1
    d2 = d2
    Tenants <- MCTenants
    Docs <- MCDocs
    Owner <- MCOwner
    MaxChunks = 2
    TopK = 1
    Callers = {c1, c2}
    Adapters = {"qdrant", "opensearch"}
    Faulty = TRUE
INVARIANTS
    TypeOK
    NothingComesBack
PROPERTIES
    SearchIsExact
    ImplementsPointStore
