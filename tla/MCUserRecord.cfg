SPECIFICATION MCFairSpec
CONSTANTS
    Field = {f1, f2}
    Value = {v1, v2}
    Absent = Absent
    Kind = {k1}
    Tag = {t1}
    NoTag = NoTag
    NoSnap = NoSnap
    AppBlock <- MCAppBlock
    MaxInputs = 3
    MaxFaults = 1
INVARIANTS TypeOK Delivery Converged AnswersInOrder
PROPERTIES Answered Settles
CHECK_DEADLOCK FALSE
