SPECIFICATION Spec
CONSTANTS
    Timeout = 7
    PollSeconds = 3
    CallSeconds = 2
    MaxAnswers = 4
    Horizon = 14
INVARIANTS
    TypeOK
    ResultIsWhole
    CollectedPrefix
    OvertimeBounded
PROPERTIES
    PollEnds
CHECK_DEADLOCK FALSE
