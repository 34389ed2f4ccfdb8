SPECIFICATION Spec
CONSTANTS
    o1 = o1
    o2 = o2
    h1 = h1
    h2 = h2
    Sessions = {s1}
    Owners = {o1, o2}
    Leases = {h1, h2}
    NoOwner = NoOwner
    NoSession = NoSession
    TTL = 0
    MaxFence = 3
    MaxFaults = 2
    PageLimit = 16
    ShortPage = 2
    Concurrency = 2
    Scenes <- SafetyScenes
INVARIANTS
    OneDriverPerTurn
    CursorPassesOnlyDealtWith
    NothingForgotten
PROPERTIES
    TakenOncePerObject
    CancelledNeverReturns
CHECK_DEADLOCK FALSE
