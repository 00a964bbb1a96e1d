SPECIFICATION Spec
CONSTANTS
    MaxSockets = 1
    MaxCalls = 2
    MaxWire = 2
PROPERTIES RemoteStreamConnects
CHECK_DEADLOCK FALSE
