SPECIFICATION FairSpec
CONSTANTS
    Scripts <- MCScripts
    BufferSize = 13
    KeepaliveMaxConn = 3
INVARIANTS
    TypeOK
    IndexesInBounds
    StreamIntact
    KeepAliveAtBoundary
PROPERTIES
    JobReturns
    ImplementsExchange
    SentAnswered
