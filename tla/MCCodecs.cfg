CONSTANTS
    Char <- MCChar
    MaxLen = 4
    Field = {"Content-Length", "Connection", "Date", "X"}
    Value = {"close", "v"}
    MaxValues = 2
    MaxWritten = 2
    MaxErrors = 1
    Length <- MCLength
SPECIFICATION Spec
CHECK_DEADLOCK FALSE
INVARIANTS
    Base64IsBits
    
    HeadersAreRead
    
    FramesAreRead
