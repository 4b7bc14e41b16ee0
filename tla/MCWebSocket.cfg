CONSTANTS
    Frame <- AllFrames
    CHUNK = 3
    MaxBuffer = 3
    MaxFrames = 4
SPECIFICATION Spec
INVARIANTS
    TypeOK
    NothingStranded
    Reassembly
    
CHECK_DEADLOCK FALSE
