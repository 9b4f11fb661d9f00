SPECIFICATION MCSpec
CONSTANTS
    Field <- MCFields
    Value = {"", "x"}
    Absent = Absent
    Kind <- MCKinds
    Tag = {"signUp"}
    NoTag = NoTag
    NoSnap = NoSnap
    AppBlock <- MCHops
    MaxInputs = 4
    MaxRestarts = 1
    MaxReconnects = 1
INVARIANT NeverCrashes
CHECK_DEADLOCK FALSE
