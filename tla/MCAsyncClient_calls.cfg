SPECIFICATION FairSpec
CONSTANTS
    Calls = {c1, c2, c3}
    c1 = c1
    c2 = c2
    c3 = c3
    Apis <- EveryInterface
    Transports = {"libwww", "curl"}
INVARIANTS
    TypeOK
    HandledOnce
    CountExact
    ParamsAlive
    LeaksExplained
PROPERTIES
    WaitsEnd
    ImplementsCalls
