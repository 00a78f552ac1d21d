CONSTANTS
    FrontEnds <- MCFrontEnds
    Kinds <- MCKinds
    Count = 2
    Gaps <- MCGaps
    ReplyWait = 2
    StallTimeout = 1
    JoinTimeout = 6
    MaxHandling = 5
SPECIFICATION FairSpec
INVARIANTS DevkitLeftAtRest StuckIsReported ReplayVerdict
PROPERTIES SignalStops
CHECK_DEADLOCK FALSE
