SPECIFICATION Spec
CONSTANTS
    Length = 5
    Kinds = 2
    Limit = 3
INVARIANTS
    TypeOK
    RedactedAsRecorded
    OverlapsHideTheStart
    KeptSeparately
CHECK_DEADLOCK FALSE
