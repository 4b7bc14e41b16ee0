CONSTANTS
    c1 = c1
    c2 = c2
    c3 = c3
    Conn = {c1, c2, c3}
    NULL = NULL
    MaxConn = 2
SPECIFICATION Spec
SYMMETRY Symmetry
INVARIANTS
    TypeOK
    FreeListSound
    ActiveListSound
PROPERTY ImplementsAbstractPool
