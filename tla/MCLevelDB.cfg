SPECIFICATION Spec
SYMMETRY Threads
CONSTANTS
    w1 = w1
    w2 = w2
    r1 = r1
    Thread = {w1, w2}
    Reader = {r1}
    MaxBatch = 3
    MaxTrouble = 2
    WriteBuffer = 0
    MaxGroup = 2
    L0Trigger = 2
    L0Slowdown = 2
    L0Stop = 2
    ReuseLogs = TRUE
INVARIANTS
    LevelDBTypeOK
    ReadersComplete
    StoreComplete
    FilesKept
    KilledLosesNothing
    SyncedKeptUnlessTorn
PROPERTIES
    KeepsPromise
CHECK_DEADLOCK FALSE
