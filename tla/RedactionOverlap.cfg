SPECIFICATION Spec
CONSTANTS
    Length = 5
    Kinds = 2
    Limit = 3
INVARIANTS
    NoDetectedVisible
CHECK_DEADLOCK FALSE
