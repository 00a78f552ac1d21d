CONSTANTS
    ControlPeriod = 2
    TimerPeriod = 1
    StartHeld = TRUE
    Depth = 2
    MaxLag = 1
    MaxTime = 3
    MaxFires = 4
SPECIFICATION Spec
INVARIANTS RateBounded
PROPERTIES ClockMonotone AnsweredRun
CHECK_DEADLOCK FALSE
