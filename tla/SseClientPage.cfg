SPECIFICATION Spec
CONSTANTS
    MaxSessions = 2
    Alerts = {a1, a2}
    Cap = 2
    BatchSize = 2
    MaxFaults = 2
INVARIANTS
    IInv
    StatusHonest
    ListIsNewest
    FormHonest
PROPERTIES
    AlertReachesScreen
    ComesBack
CHECK_DEADLOCK FALSE
