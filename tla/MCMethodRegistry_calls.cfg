SPECIFICATION Spec
CONSTANTS
    Threads = {"main"}
    UserMethods = {"sample.add"}
    Signatures <- FiveSignatures
    Requests <- EveryRequest
INVARIANTS
    TypeOK
    NothingDangling
    RefsExact
    FreedWhole
