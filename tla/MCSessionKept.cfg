\* A running request is only lost to the window, if handshakes are written, and
\* every closed session ends, as login_timeout is set and its timer wakes the loop.
CONSTANTS
    c1 = c1
    c2 = c2
    c3 = c3
    r1 = r1
    None = None
    Clients = {c1, c2, c3}
    Requests = {r1}
    Window = 2
    LoginTimer = TRUE
    HandshakeMayFail = FALSE
    UsersLogOut = FALSE
SPECIFICATION FairSpec
CHECK_DEADLOCK FALSE
PROPERTIES
    RunningRequestIsKept
    ClosedSessionEnds
