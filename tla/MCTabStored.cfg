\* One new tab; nothing is lost with a websocket (LockedHasAWayOut and
\* UnsavedIsUnderWay say what is not, when frames are).
CONSTANTS
    w1 = w1
    w2 = w2
    t1 = t1
    t2 = t2
    f1 = f1
    f2 = f2
    None = None
    Windows = {w1}
    Tabs = {t1}
    Names = {f1, f2}
    WindowOf <- OneTab
    FileOf <- OneFile
    Stored = {}
    LastSecond = 2
    MaxVersion = 3
    Rare = {"late", "click", "rename", "close", "lost", "broken"}
    MaxRare = 3
    Losses = {"nothing"}
SPECIFICATION FairTabs
CHECK_DEADLOCK FALSE
PROPERTIES
    EditsAreStored
