SPECIFICATION Spec
CONSTANTS
    Tabs = {t1, t2}
    Ids = {i1, i2}
    Conns = {k1, k2}
    Overlap = 2
    Patient = TRUE
    None = None
INVARIANTS
    ListedOnce
CHECK_DEADLOCK FALSE
