SPECIFICATION FairSpec
CONSTANTS
    Scripts <- AllScripts
    Results = {1, 2}
    AgentCap = 4
    MaxRuns = 2
    MaxFaults = 1
INVARIANTS
    JournalIsThePast
    SlotsAndBudgetHold
PROPERTIES
    EveryRunEnds
CHECK_DEADLOCK FALSE
