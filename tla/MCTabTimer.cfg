\* Two tabs share the timer of their window.
CONSTANTS
    w1 = w1
    w2 = w2
    t1 = t1
    t2 = t2
    f1 = f1
    f2 = f2
    None = None
    Windows = {w1}
    Tabs = {t1, t2}
    Names = {f1, f2}
    WindowOf <- OneWindow
    FileOf <- OwnFile
    Stored = {f1, f2}
    LastSecond = 2
    MaxVersion = 3
    Rare = {}
    MaxRare = 0
    Losses = {"nothing"}
SPECIFICATION TabSpec
CHECK_DEADLOCK FALSE
INVARIANTS
    LeavingWarns
