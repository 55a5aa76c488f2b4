SPECIFICATION FairSpec
CONSTANTS
    Calls = {c1, c2, c3}
    c1 = c1
    c2 = c2
    c3 = c3
    Apis <- PlainInterface
    Transports = {"libwww"}
PROPERTIES
    FinishCompletesAll
