SPECIFICATION Spec
CONSTANTS
    Packages <- MCPackages
    NoPackage = "none"
    NoTest = "none"
    Place <- MCPlace
    Checkouts <- MCCheckouts
    Busy <- MCBusy
    MaxUses = 1
    Shapes <- MCShapes
    Arguments <- MCArguments
    NoReference = "none"
    MaxRuns = 2
    MaxEdits = 1
    MaxEvents = 2
    Regions = {"slam", "control"}
    Seeds = {42, 7}
    Tier5Seed = 42
    Suites <- MCSuites
    Documents <- MCDocuments
    GymSeeds = {1, 2}
    Drives <- MCDrives
    MaxRun = 3
    Window = 2
    Delta = 2
    Recordings <- MCRecordings
    BoundsFiles <- MCBounds
INVARIANTS CheckMissesNothing LeftInOrder FlushedIsOnDisk NightlyIsWhole NodeIsItsScenario ScoringSound CleanExit
PROPERTIES TimedRunEnds RunNeverCompiles
CHECK_DEADLOCK FALSE
