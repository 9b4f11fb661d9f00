SPECIFICATION MCFairSpec
CONSTANTS
    Account = {a, b}
    Nobody = Nobody
    Unbound = Unbound
    Text = {"", "old", "new"}
    Lists <- MCLists
    Closed = Closed
    Parts = {"session", "password", "reader"}
    MaxInputs = 6
    MaxRestarts = 1
    Pictures = {"url", "none"}
    MaxList = 4
    MaxPast = 2
INVARIANTS ScreensTypeOK SignedInWhileOpen ToldTruth PictureOfLatest
PROPERTIES NeverWiped NeverOlder QueueMoves
CHECK_DEADLOCK FALSE
