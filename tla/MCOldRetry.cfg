\* The late warning of an older save is clicked after a newer one succeeded.
CONSTANTS
    w1 = w1
    w2 = w2
    t1 = t1
    t2 = t2
    f1 = f1
    f2 = f2
    None = None
    Windows = {w1}
    Tabs = {t1}
    Names = {f1}
    WindowOf <- OneTab
    FileOf <- OneFile
    Stored = {f1}
    LastSecond = 2
    MaxVersion = 3
    Rare = {"late", "click", "broken"}
    MaxRare = 4
    Losses = {"nothing"}
SPECIFICATION TabSpec
CHECK_DEADLOCK FALSE
INVARIANTS
    NothingStale
