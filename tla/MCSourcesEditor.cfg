SPECIFICATION MCFairSpec
CONSTANTS
    Field = {"userSources", "userName"}
    SourcesField = "userSources"
    OtherField = "userName"
    Value <- MCValue
    Absent = Absent
    Kind = {s1, s2}
    Tag = {s1, s2}
    NoTag = NoTag
    NoSnap = NoSnap
    AppBlock = {}
    Id <- MCId
    Catalogue <- MCCatalogue
    Screen = {s1, s2}
    NoScreen = NoScreen
    MaxInputs = 4
    MaxFaults = 1
INVARIANTS EditorTypeOK TicksMatchList HiddenKept SaveRoundTrips
PROPERTY DoneAnswered
CHECK_DEADLOCK FALSE
