CONSTANTS
    Length = 3
    Laps = 2
    Clearances <- MCClearances
    Threshold = 0
    MaxDrive = 1
    MaxJump = 1
    MaxTime = 6
    MaxFailures = 1
SPECIFICATION Spec
INVARIANTS DistanceTrue CountedOnce ReportReliable
CHECK_DEADLOCK FALSE
