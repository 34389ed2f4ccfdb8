SPECIFICATION FairSpec
CONSTANTS
    NumTasks = 4
    MaxSuspends = 2
    Names <- MCNames
    Fold <- MCFold
    Scenes <- AllScenes
INVARIANTS
    OnceEach
    NoRace
PROPERTIES
    DoneAndRefusedStaySo
    SuspendedCallsAreServed
    StartsInOrder
    HeldBatchIsIdle
    BatchComesToAnEnd
CHECK_DEADLOCK FALSE
