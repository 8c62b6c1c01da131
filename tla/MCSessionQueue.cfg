\* What a tab sees of its session.
CONSTANTS
    c1 = c1
    c2 = c2
    r1 = r1
    r2 = r2
    r3 = r3
    None = None
    Clients = {c1, c2}
    Requests = {r1, r2, r3}
    Window = 1
    LoginTimer = TRUE
    HandshakeMayFail = TRUE
    UsersLogOut = TRUE
SPECIFICATION Spec
SYMMETRY Symmetry
CHECK_DEADLOCK FALSE
PROPERTY RecoveryIsInvisible
