SPECIFICATION Spec
CONSTANTS
    Tabs = {t1, t2}
    Ids = {i1, i2}
    Conns = {k1, k2, k3}
    Overlap = 1
    Patient = TRUE
    None = None
INVARIANTS
    CalmInv
    IInv
    RosterExact
PROPERTIES
    GhostsLeave
    JoinSettles
CHECK_DEADLOCK FALSE
