SPECIFICATION FairSpec
CONSTANTS
    Wires <- BothWires
    MaxLog = 4
    MaxLive = 2
    PageSize = 2
    Capacity = 2
    MaxIdle = 1
    MaxFaults = 1
INVARIANTS
    NothingSlipsThrough
PROPERTIES
    SeamIsInOrder
    EveryEventArrives
CHECK_DEADLOCK FALSE
