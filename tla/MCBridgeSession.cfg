CONSTANTS
    FrontEnds <- MCFrontEnds
    ResetWait = 8
    MaxReact = 2
    LapLine = FALSE
    Hasty = FALSE
    CommandLag = 2
    Depth = 2
    Late = 3
    MaxRequests = 2
    MaxLost = 1
SPECIFICATION FairSpec
INVARIANTS FreshAfterReset LevelsCovered
PROPERTIES RequestReachesSim HoldEnds
CHECK_DEADLOCK FALSE
