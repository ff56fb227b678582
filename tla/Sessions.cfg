SPECIFICATION MCFairSpec
CONSTANTS
    NumSessions = 2
    MaxWorkers = 2
    Long = 3
    Short = 1
    Modes = {"strict-global", "parallel", "concurrent"}
    Faults = {"mismatch", "odd", "pause", "cancel"}
    None = None
    Quiet = 2
    InRoom = 1
    OutRoom = 2
    MaxTyped = 2
    MaxPrinted = 2
    MaxSignals = 1
INVARIANTS ResultsAreTrue QuietSoon RecordIsTrue
PROPERTIES ImplementsReplayPhase SessionsEnd
CHECK_DEADLOCK FALSE
