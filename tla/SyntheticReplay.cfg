SPECIFICATION Spec
CONSTANTS
    Jobs = {j1}
    Pipelines = {}
    Nobody = Nobody
    PoolSize = 1
    Faults = {}
INVARIANT TrailIsReplayed
CHECK_DEADLOCK FALSE
