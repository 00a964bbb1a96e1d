SPECIFICATION Spec
CONSTANTS
    MaxSockets = 2
    MaxWire = 2
    Ops = {"connect", "reset"}
    Sends = {"hangup"}
    Peers = {p1}
INVARIANTS AuthenticatedIsAccepted
CHECK_DEADLOCK FALSE
