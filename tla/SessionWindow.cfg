SPECIFICATION Spec
CONSTANTS
    Logs <- MCLogs
    Requests <- MCRequests
    FullEvents = 2
    WindowLimit = 2
    Interval = 1
    Handlers = {h1}
    MaxServed = 2
INVARIANT SeekIsStream
CHECK_DEADLOCK FALSE
