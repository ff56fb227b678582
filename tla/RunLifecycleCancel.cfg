SPECIFICATION Spec
CONSTANTS
    MaxRuns = 1
    None = None
    Threads = {t1, t2}
    Handlers = {h1, h2}
    Ops = {"create", "start", "cancel"}
    Faults = {}
PROPERTY CancelStands
CHECK_DEADLOCK FALSE
