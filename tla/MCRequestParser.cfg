CONSTANTS
    Line <- AllLines
    CHUNK = 2
    LOOKAHEAD = 2
    WIDTH = 16
    MaxHeader = 10
    MaxPost = 3
    MaxLines = 5
SPECIFICATION Spec
INVARIANTS
    TypeOK
    RequestNotStranded
    HandedOverWhole
    BufferIsBounded
    LengthAsAnnounced
CHECK_DEADLOCK FALSE
