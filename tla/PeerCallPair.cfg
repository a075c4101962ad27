SPECIFICATION Spec
CONSTANTS
    Peers = {p1, p2}
    Streaming = {p1, p2}
    MaxCalls = 2
    Leavers = {p1}
    Unlucky = {p1}
INVARIANTS
    TypeOK
    IInv
    GoneForGood
    LeaveHangsUp
    BadgeHonest
PROPERTIES
    CallConnects
    OthersHangUp
CHECK_DEADLOCK FALSE
