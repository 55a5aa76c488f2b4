SPECIFICATION FairSpec
CONSTANTS
    Requests <- FileRequests
    Handlers <- MCHandlers
    FileHandler = TRUE
    KeepaliveMaxConn = 3
    MaxSize = 2
    Word = 16
    Truncates = FALSE
INVARIANTS
    ResponsesDelimited
    FileClosed
