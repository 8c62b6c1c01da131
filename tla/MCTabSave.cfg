\* One tab in each of two windows, and everything may be lost with a websocket.
CONSTANTS
    w1 = w1
    w2 = w2
    t1 = t1
    t2 = t2
    f1 = f1
    f2 = f2
    None = None
    Windows = {w1, w2}
    Tabs = {t1, t2}
    Names = {f1, f2}
    WindowOf <- OneEach
    FileOf <- SameFile
    Stored = {f1}
    LastSecond = 2
    MaxVersion = 3
    Rare = {"late", "click", "rename", "close", "lost", "broken"}
    MaxRare = 2
    Losses = {"nothing", "frames", "confirm", "session"}
SPECIFICATION TabSpec
CHECK_DEADLOCK FALSE
INVARIANTS
    TabTypeOK
    UnsavedIsUnderWay
    SavedIsNotStale
    LockedHasAWayOut
