SPECIFICATION FairSpec
CONSTANTS
    Examples = {e1, e2, e3, e4}
    HoldoutRows = {h1}
    Null = Null
    Settings <- MCSettings
    MaxLevel = 4
    EMGain = 1
    AddGain = 2
INVARIANTS
    TypeOK
    DataAccounted
    BadEndsExplained
PROPERTIES
    TrainingEnds
