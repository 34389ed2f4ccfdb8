SPECIFICATION FairSpec
CONSTANTS
    t1 = t1
    t2 = t2
    Tasks = {t1, t2}
    MaxRunningTasks = 1
    Scenes <- AllScenes
INVARIANTS
    NobodyWaitsForTheEnded
PROPERTIES
    NoticesAreInOrder
    ImplementsLedger
    EveryEndIsTold
CHECK_DEADLOCK FALSE
