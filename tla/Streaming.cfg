SPECIFICATION Spec
CONSTANTS
    Streams = {s1}
    Writers = {s1, w1}
    Limit = 1
    MaxTime = 1
    MaxTokens = 2
INVARIANTS
    TypeOK
    PageTellsTruth
    WalkMissesTiesOnly
PROPERTIES
    StreamsEnd
CHECK_DEADLOCK FALSE
