SPECIFICATION MCSpec
CONSTANTS
    Writers = {w1}
    None = None
    RotateLines = 0
    Faults = {"crash", "io", "save", "lost"}
    MaxFiles = 4
    MaxBatch = 2
    MaxSigned = 6
    Processes = {p1, p2}
    PartLines = 2
    AllFaults = {"crash", "io", "save", "lost", "tick", "torn"}
    MaxParts = 4
    MaxEvents = 3
    MaxWritten = 6
    FaultySigned = 4
    Rows = 3
    Cols = 2
    Words <- RecordedWords
    TabOrder <- NoStops
    MaxWords = 3
    MinErpSeq = 2
    Observed = {o1, o2}
    TrailLines = 2
    RunFailures = 1
SYMMETRY SwapProcesses
INVARIANTS TypeOK ChainOK AckedDurable CheckpointBehindLog FreshCacheIsCurrent ReaderAgrees RotationIsClean ScreensFollow TrailIsFaithful EvidenceStands
PROPERTIES ImplementsAuditLog
CHECK_DEADLOCK FALSE
