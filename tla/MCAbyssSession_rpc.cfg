SPECIFICATION FairSpec
CONSTANTS
    Requests <- RpcRequests
    Handlers <- MCHandlers
    FileHandler = FALSE
    KeepaliveMaxConn = 3
    MaxSize = 2
    Word = 16
    Truncates = FALSE
INVARIANTS
    TypeOK
    OneHead
PROPERTIES
    ConnectionAsAnnounced
    ImplementsExchange
