SPECIFICATION Spec
CONSTANTS
    Clients = {c1}
    Alerts = {a1}
INVARIANTS
    TriggerSucceeds
CHECK_DEADLOCK FALSE
