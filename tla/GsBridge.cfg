SPECIFICATION BridgeSpec
CONSTANTS
    MaxSockets = 1
    MaxWire = 2
    Ops = {"connect", "forward"}
    Sends = {"ring", "hangup", "reset", "answer", "offer", "candidate", "ping"}
    Peers = {1, 2}
    Streams = {a, b}
    MaxFeed = 2
INVARIANTS AuthenticatedIsAccepted
PROPERTIES ImplementsCall DeathsOfTheBridge
CHECK_DEADLOCK FALSE
