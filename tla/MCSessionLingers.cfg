\* Without login_timeout nothing wakes the loop.
CONSTANTS
    c1 = c1
    c2 = c2
    r1 = r1
    None = None
    Clients = {c1, c2}
    Requests = {r1}
    Window = 1
    LoginTimer = FALSE
    HandshakeMayFail = TRUE
    UsersLogOut = TRUE
SPECIFICATION FairSpec
CHECK_DEADLOCK FALSE
PROPERTY EverySessionEnds
