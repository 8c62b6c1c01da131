\* The websocket is lost with the last CONFIRM under way.
CONSTANTS
    r1 = r1
    r2 = r2
    None = None
    Requests = {r1, r2}
    Copies = {r2}
    Answers = 1
    MaxCuts = 1
SPECIFICATION FairDelivery
CHECK_DEADLOCK FALSE
PROPERTY QueuedIsStarted
