SPECIFICATION FairSpec
CONSTANTS
    Wires = {"memory"}
    MaxLog = 3
    MaxLive = 1
    PageSize = 2
    Capacity = 2
    MaxIdle = 1
    MaxFaults = 0
PROPERTY
    IdleTicksLoseNothing
CHECK_DEADLOCK FALSE
