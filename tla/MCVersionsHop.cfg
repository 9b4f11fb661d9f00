SPECIFICATION Spec
CONSTANTS
    MaxKey = 1
    MaxWrites = 4
    MaxCalls = 5
    Deletable <- NoKey
    Ranges <- Everything
    MaxExtras = 1
    NumLevels = 4
    MaxMemCompactLevel = 2
    L0Trigger = 1
    LevelLimit = 1
    Growth = 1
    TargetSize = 1
    MaxGrandparents = 2
    ExpandedLimit = 5
INVARIANT ReadsNewest
CHECK_DEADLOCK FALSE
