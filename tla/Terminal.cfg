SPECIFICATION Spec
CONSTANTS
    Rows = 1
    Cols = 80
    Words <- TabOnly
    TabOrder <- HashOrder
    MaxWords = 1
INVARIANT TabGoesToNextStop
CHECK_DEADLOCK FALSE
