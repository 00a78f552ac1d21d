SPECIFICATION FairSpec
CONSTANTS
    Window = 2
    Asked <- MCAsked
    NoRequest = NoRequest
    NoGraph = NoGraph
    StartPoseRadius = 1
    UntoldStarts <- MCUntoldStarts
    Reseeds = FALSE
    MaxResets = 1
    MaxPublished = 4
INVARIANTS CorrectionExact NoPoseInWrongFrame ScoresAgree
PROPERTIES LaunchFailsClosed HoldEnds
CHECK_DEADLOCK FALSE
