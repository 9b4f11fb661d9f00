SPECIFICATION Spec
CONSTANTS
    w1 = w1
    w2 = w2
    r1 = r1
    Thread = {w1, w2}
    Reader = {r1}
    MaxBatch = 3
    MaxTrouble = 1
    WriteBuffer = 0
    MaxGroup = 2
    L0Trigger = 1
    L0Slowdown = 1
    L0Stop = 1
    ReuseLogs = TRUE
INVARIANT
    SyncedKept
CHECK_DEADLOCK FALSE
