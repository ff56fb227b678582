SPECIFICATION MCSpec
CONSTANTS
    Threads = {t1, t2, t3}
    Conns = {c1, c2, c3, c4}
    None = None
    MinSize = 1
    MaxSize = 2
    Handlers = {x1, x2}
    MaxBoots = 2
    MaxCaptures = 1
    Users = {u1, u2}
    JourneySteps = 2
    ErrorCap = 2
    FailedPasses = 2
    MaxPasses = 2
    Envs <- MCEnvs
    Levels <- MCLevels
    Iterations = 2
    MaxFailedRuns = 4
    Experiments = {"a", "b"}
    Runners = {x1, x2}
    MaxRequests = 2
    Jobs = {x1, x2}
    Pipelines = {p1}
    Nobody = Nobody
    PoolSize = 2
    WorkFaults = {"job", "run", "pipeline", "locked"}
    Clients = {x1, x2}
    MaxConnections = 1
    Casters = 2
    Addresses = {x1, x2}
    MaxAdmitted = 2
    Window = 3
    MaxKeys = 1
    MaxTime = 7
    Journeys <- MCJourneys
    MaxAttempts = 3
    MaxRows = 2
    Loops = {x1, x2}
    SeededSessions = {1, 2}
    MaxRuns = 2
    Intervals = 1
SYMMETRY Swap
INVARIANTS PoolIsSound CapturesFollowGateway BenchmarksAreHonest JourneyIsHonest ExecutionsAreTracked SyntheticWorkIsSound ConnectionsAreBounded
PROPERTIES FinishedIsFinal
CHECK_DEADLOCK FALSE
