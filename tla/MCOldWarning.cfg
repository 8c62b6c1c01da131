\* Two warnings stand, and the older one is clicked.
CONSTANTS
    w1 = w1
    w2 = w2
    t1 = t1
    t2 = t2
    f1 = f1
    f2 = f2
    None = None
    Windows = {w1}
    Tabs = {t1}
    Names = {f1}
    WindowOf <- OneTab
    FileOf <- OneFile
    Stored = {}
    LastSecond = 1
    MaxVersion = 3
    Rare = {"late", "click", "broken"}
    MaxRare = 5
    Losses = {"nothing"}
SPECIFICATION TabSpec
CHECK_DEADLOCK FALSE
INVARIANTS
    NothingForgotten
