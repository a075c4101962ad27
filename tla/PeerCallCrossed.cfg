SPECIFICATION Spec
CONSTANTS
    Peers = {p1, p2}
    Streaming = {}
    MaxCalls = 2
    Leavers = {}
    Unlucky = {}
PROPERTIES
    CallEstablished
CHECK_DEADLOCK FALSE
