SPECIFICATION Spec
CONSTANTS
    MaxRuns = 2
    None = None
    Threads = {t1, t2}
    Handlers = {h1, h2}
    Ops = {"create", "retry", "start", "pause", "resume", "cancel", "delete"}
    Faults = {"odd", "replay", "restart"}
SYMMETRY Swap
INVARIANTS RunningIsServed OneActiveRun
CHECK_DEADLOCK FALSE
