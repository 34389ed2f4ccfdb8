SPECIFICATION Spec
CONSTANTS
    Scenes <- AloneOnly
    MaxRecords = 2
INVARIANT
    TornTailIsTolerated
CHECK_DEADLOCK FALSE
