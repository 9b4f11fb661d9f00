SPECIFICATION MCSpec
CONSTANTS
    Parts = {"levels", "list", "log", "iterators", "cache", "table",
             "locks", "thread", "limits"}
    MaxKey = 3
    MaxWrites = 4
    MaxCalls = 5
    Deletable <- OneKey
    Ranges <- Everything
    MaxExtras = 2
    NumLevels = 4
    MaxMemCompactLevel = 2
    L0Trigger = 2
    LevelLimit = 2
    Growth = 1
    TargetSize = 2
    MaxGrandparents = 2
    ExpandedLimit = 5
    ListKeys = 3
    kMaxHeight = 3
    kBlockSize = 7
    kHeaderSize = 3
    RecordSizes = {0, 1, 3, 9}
    MaxRecords = 3
    MaxDamage = 2
    UserKeys = 2
    MaxPuts = 4
    Children = 2
    MaxBehind = 1
    CacheUser = {t1, t2, t3}
    Cached = {a, b}
    NoTable = NoTable
    Charges = {1, 2}
    capacity = 2
    MaxHandles = 3
    MaxByte = 3
    InternalKeys <- MCKeys
    TableSeqs = 2
    MaxAdded = 3
    Spans = {1, 2}
    kFilterBase = 2
    RestartInterval = 2
    Process = {p, q}
    ThreadId = {1, 2}
    MaxItems = 3
    MmapLimit = 1
    FdLimit = 1
    MaxFiles = 4
INVARIANTS
    UncutReadsNewest
    NoneMissed
    LogHonest
    ShowsWanted
    CacheSound
    TableHonest
    EnvironmentSound
PROPERTY OnlyManualAborts
CHECK_DEADLOCK FALSE
