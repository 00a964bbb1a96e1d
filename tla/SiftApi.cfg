SPECIFICATION Spec
CONSTANTS
    MaxSockets = 2
    MaxWire = 2
    Ops = {"connect", "hangUp", "reset", "answer", "decline"}
    Sends = {"ring", "hangup", "reset", "answer", "ping"}
    Peers = {p1}
INVARIANTS TypeOK TokenIffInitialized
PROPERTIES OnlyStaleSocketsKill
CHECK_DEADLOCK FALSE
