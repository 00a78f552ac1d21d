CONSTANTS
    Faster = FALSE
    Responsive = TRUE
    Timeout = 2
    Depth = 2
    MaxTick = 8
SPECIFICATION Spec
INVARIANTS RealTimeLoopFresh
CHECK_DEADLOCK FALSE
