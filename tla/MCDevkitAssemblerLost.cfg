CONSTANTS
    Topics <- MCTopics
    Lidar = "lidar"
    Located <- MCLocated
    Shift <- MCShift
    MaxFrames = 2
    Ahead = 3
    Restarts <- NoRestart
    Bursts = 5
    Stalls <- NoStall
    MaxLosses = 1
SPECIFICATION AssemblerSpec
INVARIANTS LostFrameIsDropped
CHECK_DEADLOCK FALSE
