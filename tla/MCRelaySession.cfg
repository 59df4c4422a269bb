CONSTANTS
    Timeout = 3
    ListenFor = {0, 2}
    PingNonces = {1, 2}
    Buffer = 2
SPECIFICATION SessionSpec
INVARIANTS
    SessionTypeOK
    PeerNeverMisused
    OkMeansDelivered
PROPERTIES
    KeepsContract
    Delivered
    Returns
CHECK_DEADLOCK FALSE
