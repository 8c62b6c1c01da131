\* Two messages, three answers each, and a websocket lost twice.
CONSTANTS
    r1 = r1
    r2 = r2
    None = None
    Requests = {r1, r2}
    Copies = {r2}
    Answers = 3
    MaxCuts = 2
SPECIFICATION FairDelivery
CHECK_DEADLOCK FALSE
INVARIANTS
    DeliveryTypeOK
    ConfirmedIsReceived
    QuiescentTabHasAll
    QuiescentWorkGoesOn
PROPERTY RunningIsAnswered
