CONSTANTS
    c1 = c1
    c2 = c2
    k1 = k1
    k2 = k2
    Conn = {c1, c2}
    Client = {k1, k2}
    NULL = NULL
    LISTEN = LISTEN
    MaxConn = 1
    MaxSends = 2
    Acts = {"respond"}
SPECIFICATION Spec
SYMMETRY Symmetry
INVARIANT OpenIsActive
