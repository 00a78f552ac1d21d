CONSTANTS
    ControlPeriod = 2
    TimerPeriod = 1
    StartHeld = FALSE
    Depth = 2
    MaxLag = 1
    MaxTime = 3
    MaxFires = 4
SPECIFICATION Spec
PROPERTIES SteppedHolds
CHECK_DEADLOCK FALSE
