SPECIFICATION MCSpec
CONSTANTS
    Clients = {c1, c2}
    None = None
    Sentinel = Sentinel
    MaxDrain = 2
    Faults = {"bad", "stop"}
    MaxRequests = 1
    MaxBoots = 1
    MaxRuns = 1
    Threads = {t1, t2}
    Handlers = {h1, h2}
    Ops = {"create", "retry", "start", "pause", "resume", "cancel", "delete"}
    LifeFaults = {"reject", "invalid", "odd", "replay", "sessions", "restart"}
INVARIANTS AllOrNothing
PROPERTIES ArrivalOrder EveryItemAnswered ShutdownEnds CancelEndsReplay RunningIsReplayed
CHECK_DEADLOCK FALSE
