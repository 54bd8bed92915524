SPECIFICATION BusySpec
CONSTANTS
    Blocks = 11
    StepOverhead = 1
    Overhead = 2
    Headroom = 3
    ReclaimBatch = 3
    OrphansPerBatch = 1
    OrphansMax = 1
    RoomForMetadata = 2
    DelayedRoom = 2
    LowWater = 2
    RoomSteps = 1
    StepsPerTick = 1
    StepsPerRelease = 1
    StepsPerSync = 2
    WindowOpsMax = 6
    IdleTicks = 1
    AgeTicks = 1
    Requests = {"write", "delete", "sync", "durability", "maintenance"}
    Followable = {TRUE, FALSE}
    MaxFiles = 9
    MaxBacks = 0
    MaxFailures = 0
PROPERTY StaysUsable
