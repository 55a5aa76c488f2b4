SPECIFICATION Spec
CONSTANTS
    Threads = {"main", "worker"}
    UserMethods = {}
    Signatures = {}
    Requests <- OneRequest
INVARIANTS
    NothingDangling
