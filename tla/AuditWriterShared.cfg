SPECIFICATION Spec
CONSTANTS
    Writers = {w1, w2}
    None = None
    RotateLines = 0
    Faults = {"io"}
    MaxFiles = 4
    MaxBatch = 2
    MaxSigned = 6
INVARIANT ChainOK
