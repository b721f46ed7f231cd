SPECIFICATION Spec
CONSTANTS
    Coroutines = {c1, c2}
    Kids = {k1, k2}
    Ttl = 3
    FetchSeconds = 2
    Epoch = 4
    Horizon = 9
SYMMETRY Symmetry
INVARIANTS
    TypeOK
    DatedRight
PROPERTIES
    TrustIsRecent
    RejectionIsRecent
    RegressBounded
