\* One handler at a time, no failure.
CONSTANTS
    t1 = t1
    t2 = t2
    d1 = d1
    d2 = d2
    Tenants <- MCTenants
    Docs <- MCDocs
    Owner <- MCOwner
    MaxChunks = 1
    TopK = 1
    Callers = {c1}
    Adapters = {"opensearch"}
    Faulty = FALSE
SPECIFICATION Spec
PROPERTIES
    DeletionIsComplete
