CONSTANTS
    c1 = c1
    c2 = c2
    k1 = k1
    Conn = {c1, c2}
    Client = {k1}
    NULL = NULL
    LISTEN = LISTEN
    MaxConn = 1
    MaxSends = 2
    Acts = {"respond", "upgrade", "close", "push"}
SPECIFICATION FairSpec

PROPERTIES
    GoneIsClosed
    QueuesAreServed
    ResponsesAreSent
    RequestQueuedOnce
