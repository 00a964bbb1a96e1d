SPECIFICATION BridgeSpec
CONSTANTS
    MaxSockets = 1
    MaxWire = 2
    Ops = {"connect", "forward"}
    Sends = {"hangup", "answer"}
    Peers = {1, 2}
    Streams = {a, b}
    MaxFeed = 2

PROPERTIES AnswerReachesOfferer
CHECK_DEADLOCK FALSE
