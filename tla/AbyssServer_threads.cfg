SPECIFICATION FairSpec
CONSTANTS
    Conn = {c1, c2, c3}
    Socket = {s1, s2, s3}
    NoConn = NoConn
    NoSocket = NoSocket
    MaxConn = 2
INVARIANTS
    TypeOK
    CountExact
    ThreadsTracked
    SocketsOwned
    JoinIsShort
PROPERTIES
    SocketsClosed
    ReturnsUnlessBlocked
    FinishedReclaimed
    ImplementsPool
