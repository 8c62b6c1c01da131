\* The last answer is sent before the tab has asked for the missing ones.
CONSTANTS
    r1 = r1
    r2 = r2
    None = None
    Requests = {r1, r2}
    Copies = {r2}
    Answers = 2
    MaxCuts = 1
SPECIFICATION DeliverySpec
CHECK_DEADLOCK FALSE
INVARIANT EndedHasAll
