SPECIFICATION Spec
CONSTANTS
    Examples = {e1, e2, e3}
    HoldoutRows = {h1}
    Null = Null
    Settings <- MCSettings
    MaxLevel = 3
    EMGain = 1
    AddGain = 2
INVARIANTS
    RestoredAsMeasured
