SPECIFICATION Spec
CONSTANTS
    Tabs = {t1}
    Ids = {i1}
    Conns = {k1, k2}
    Overlap = 2
    Patient = FALSE
    None = None
INVARIANTS
    OnlineIsReachable
CHECK_DEADLOCK FALSE
