\* Three websockets and two requests.
CONSTANTS
    c1 = c1
    c2 = c2
    c3 = c3
    r1 = r1
    r2 = r2
    None = None
    Clients = {c1, c2, c3}
    Requests = {r1, r2}
    Window = 1
    LoginTimer = TRUE
    HandshakeMayFail = TRUE
    UsersLogOut = TRUE
SPECIFICATION Spec
SYMMETRY Symmetry
CHECK_DEADLOCK FALSE
INVARIANTS
    TypeOK
    ConnectionHasOneHolder
    RequestHasOneHolder
    PausedWorkIsResumable
    IdleCoversWaiting
