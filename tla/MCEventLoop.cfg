CONSTANTS
    c1 = c1
    c2 = c2
    k1 = k1
    k2 = k2
    k3 = k3
    Conn = {c1, c2}
    Client = {k1, k2, k3}
    NULL = NULL
    LISTEN = LISTEN
    MaxConn = 1
    MaxSends = 1
    Acts = {"respond", "upgrade", "close"}
SPECIFICATION Spec
SYMMETRY Symmetry
INVARIANTS
    TypeOK
    OneOwner
    OneHolderPerSocket
    TeardownExclusive
    
    EveryWebSocketNotified
PROPERTY AcceptTakesAll
