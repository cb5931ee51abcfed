SPECIFICATION BridgeFairSpec
CONSTANTS
    Target = {"direct", "managed"}
    MaxConn = 3
    Dials <- MCDials
    MaxFaults = 2
INVARIANTS OneLive
PROPERTIES BridgeEnds
CHECK_DEADLOCK FALSE
