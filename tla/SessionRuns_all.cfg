SPECIFICATION FairSpec
CONSTANTS
    Runs = {r1, r2}
    Messages = {m1, m2}
    MaxTurns = 2
    MaxSteps = 2
    Scenes <- AllScenes
INVARIANTS
    QuietMeansQuiet
    WakeBringsInput
    FlagAgreesWithStore
    TurnsEnd
PROPERTIES
    DrainsKeepTheConversation
    QueuedIsTaken
    RunsEnd
CHECK_DEADLOCK FALSE
