SPECIFICATION MCFairSpec
CONSTANTS
    Field = {"userSources", "userName"}
    SourcesField = "userSources"
    Value = {"", "abc"}
    Empty = ""
    DefaultSources = "default"
    NoNews = NoNews
    Absent = Absent
    Kind = {home}
    Home = home
    Tag = {}
    NoTag = NoTag
    NoSnap = NoSnap
    AppBlock = {}
    MaxInputs = 3
    MaxRestarts = 1
    MaxReconnects = 1
INVARIANTS AskedForView StaleOnlyIfDisturbed
PROPERTY RefreshEnds
CHECK_DEADLOCK FALSE
