\* One grid in each of two windows: neither sees what the other commits.
CONSTANTS
    s1 = s1
    s2 = s2
    g1 = g1
    g2 = g2
    r1 = r1
    r2 = r2
    None = None
    Sessions = {s1, s2}
    Grids = {g1, g2}
    Records = {r1, r2}
    SessionOf <- OneEach
    Missing = {r2}
    MaxEdits = 2
    MaxLost = 0
    MaxErrors = 0
SPECIFICATION EditsSpec
CHECK_DEADLOCK FALSE
PROPERTY NoLostUpdate
