SPECIFICATION Spec
CONSTANTS
    ChunkSize = 7
    Overlap = 3
    Lengths = {2, 5}
    MaxSentences = 2
    MaxLength = 11
    MaxParagraphs = 3
INVARIANTS
    TypeOK
    TextIsKept
    SizeBounded
    IndexesInOrder
CHECK_DEADLOCK FALSE
