\* Four sockets and three logins.
CONSTANTS
    c1 = c1
    c2 = c2
    c3 = c3
    c4 = c4
    l1 = l1
    l2 = l2
    l3 = l3
    None = None
    Clients = {c1, c2, c3, c4}
    Logins = {l1, l2, l3}
    Timeout = 2
SPECIFICATION LogSpec
SYMMETRY Symmetry
CHECK_DEADLOCK FALSE
INVARIANTS
    LogTypeOK
    EntriesUnique
PROPERTIES
    SweepSparesBusy
    FreshLoginsStay
