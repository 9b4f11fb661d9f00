SPECIFICATION MCSpec
CONSTANTS
    Account = {a, b}
    Nobody = Nobody
    Unbound = Unbound
    Text = {"", "old", "new"}
    Lists <- MCLists
    Closed = Closed
    Parts = {"session"}
    MaxInputs = 6
    MaxRestarts = 0
    Pictures = {"url", "none"}
    MaxList = 1
    MaxPast = 0
INVARIANT BoundIsCurrent
CHECK_DEADLOCK FALSE
