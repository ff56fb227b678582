SPECIFICATION MCSpec
CONSTANTS
    Logs <- MCLogs
    Requests <- MCRequests
    FullEvents = 2
    WindowLimit = 2
    Interval = 1
    Handlers = {h1}
    MaxServed = 2
    Readers = {r1, r2}
    MaxWrites = 3
    MaxFiles = 2
    MaxAnswers = 3
    Quiet = 2
    Timeout = 10
    Grace = 2
    MaxPieces = 3
    MaxPause = 2
    Trails <- MCTrails
    Loads <- MCLoads
    Length = 5
    StableMs = 2
    MaxChanges = 3
    Replayed <- MCReplayed
    Ways <- MCWays
    MaxPrinted = 2
SYMMETRY Swap
INVARIANTS ReadingIsSound WaitIsSound DivergencesAreRated ReplayIsFaithful BatchingIsSound
CHECK_DEADLOCK FALSE
