\* Who is closed with an expired login.
CONSTANTS
    c1 = c1
    c2 = c2
    c3 = c3
    c4 = c4
    l1 = l1
    l2 = l2
    None = None
    Clients = {c1, c2, c3, c4}
    Logins = {l1, l2}
    Timeout = 1
SPECIFICATION LogSpec
SYMMETRY Symmetry
CHECK_DEADLOCK FALSE
PROPERTY ActiveSocketIsKept
