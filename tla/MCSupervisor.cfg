CONSTANTS
    Fields <- MCFields
    Limit <- MCLimit
    NaN = NaN
    Commands <- MCCommands
    Timeout = 3
    Period = 2
    Depth = 1
    HeartbeatModulus = 2
    MaxLag = 1
    MaxTime = 9
SPECIFICATION Spec
INVARIANTS OrphanHorizon StopTakesEffect
PROPERTIES EarnedStaleStop OutputExplained ImplementsGate
CHECK_DEADLOCK FALSE
