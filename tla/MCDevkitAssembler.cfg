CONSTANTS
    Topics <- MCTopics
    Lidar = "lidar"
    Located <- MCLocated
    Shift <- MCShift
    MaxFrames = 4
    Ahead = 2
    Restarts <- MCRestarts
    Bursts = 6
    Stalls <- MCStalls
    MaxLosses = 2
SPECIFICATION AssemblerSpec
INVARIANTS FramesAccounted StreamRecovers
PROPERTIES ImplementsFrameChannel
CHECK_DEADLOCK FALSE
