SPECIFICATION Spec
CONSTANTS
    Scenes <- AllScenes
    MaxRecords = 3
INVARIANTS
    LogSurvivesRestarts
    CheckpointReadIsSuffix
CHECK_DEADLOCK FALSE
