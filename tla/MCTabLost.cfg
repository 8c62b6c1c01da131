\* A WRITE is lost with its websocket, and the answer of the save before ends its
\* 30 seconds: the tab saves for ever.
CONSTANTS
    w1 = w1
    w2 = w2
    t1 = t1
    t2 = t2
    f1 = f1
    f2 = f2
    None = None
    Windows = {w1}
    Tabs = {t1}
    Names = {f1}
    WindowOf <- OneTab
    FileOf <- OneFile
    Stored = {f1}
    LastSecond = 2
    MaxVersion = 3
    Rare = {"lost"}
    MaxRare = 1
    Losses = {"frames"}
SPECIFICATION TabSpec
CHECK_DEADLOCK FALSE
INVARIANTS
    NothingLocked
