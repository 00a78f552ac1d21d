CONSTANTS
    Faster = TRUE
    Responsive = FALSE
    Timeout = 2
    Depth = 2
    MaxTick = 5
SPECIFICATION FairSpec
INVARIANTS InStep
PROPERTIES LoopImplementsGate RunCompletes
CHECK_DEADLOCK FALSE
