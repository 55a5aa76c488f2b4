SPECIFICATION Spec
CONSTANTS
    Documents <- MCDocuments
    Elements <- MCElements
    NestingLimit = 3
    SizeLimit = 524288
    Scarce = {"parser", "element", "close", "value", "append", "string"}
INVARIANTS
    TypeOK
    NothingLost
    MeansTheDocument
