\* Who hears from a recovered connection.
CONSTANTS
    c1 = c1
    c2 = c2
    r1 = r1
    None = None
    Clients = {c1, c2}
    Requests = {r1}
    Window = 1
    LoginTimer = TRUE
    HandshakeMayFail = FALSE
    UsersLogOut = TRUE
SPECIFICATION Spec
CHECK_DEADLOCK FALSE
INVARIANT CallbackFollowsConnection
