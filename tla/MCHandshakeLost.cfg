\* A recovery whose handshake response cannot be written.
CONSTANTS
    c1 = c1
    c2 = c2
    r1 = r1
    None = None
    Clients = {c1, c2}
    Requests = {r1}
    Window = 1
    LoginTimer = TRUE
    HandshakeMayFail = TRUE
    UsersLogOut = FALSE
SPECIFICATION Spec
CHECK_DEADLOCK FALSE
PROPERTY RunningRequestIsKept
