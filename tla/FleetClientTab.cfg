SPECIFICATION Spec
CONSTANTS
    v1 = v1
    v2 = v2
    d1 = d1
    Vehicles = {v1, v2}
    Drivers = {d1}
    Alerts = {1, 2}
    Statuses = {"Available", "InTransit"}
    Counts = {1, 2}
    DashboardCount = 1
    InitialCount = 2
    InitialData <- MCInitialData
    MaxEvents = 4
    Contested = {v1}
    Outliving <- MCOutliving
    MaxUpsets = 1
INVARIANTS
    TypeOK
    
PROPERTIES
    PageGetsData
CHECK_DEADLOCK FALSE
