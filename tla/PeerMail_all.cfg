SPECIFICATION Spec
CONSTANTS
    dba = dba
    m1 = m1
    m2 = m2
    Messages = {m1, m2}
    Members = {dba}
    To <- TwoForOne
    Scenes <- AllScenes
SYMMETRY Alike
INVARIANTS
    NothingIsLost
CHECK_DEADLOCK FALSE
