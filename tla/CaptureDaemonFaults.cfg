SPECIFICATION Spec
CONSTANTS
    Clients = {c1}
    None = None
    Sentinel = Sentinel
    MaxDrain = 2
    Faults = {"io", "bad", "timeout", "crash", "stop"}
    MaxRequests = 2
    MaxBoots = 1
INVARIANTS ConfirmedIsLogged AnswersMatch
PROPERTIES NoWriteAfterClose
CHECK_DEADLOCK FALSE
