CONSTANTS
    c1 = c1
    c2 = c2
    k1 = k1
    k2 = k2
    k3 = k3
    r1 = r1
    r2 = r2
    Conn = {c1, c2}
    Client = {k1, k2, k3}
    Room = {r1, r2}
    NULL = NULL
    Item <- MCItem
    Units = 2
    MaxFrames = 1
    MaxMessages = 2
SPECIFICATION Spec
SYMMETRY Symmetry
CHECK_DEADLOCK FALSE
INVARIANTS
    TypeOK
    
    MembersAreOpen
    
    NobodySkipped
    NoLockCycle
