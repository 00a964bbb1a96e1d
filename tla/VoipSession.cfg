SPECIFICATION Spec
CONSTANTS
    MaxSockets = 2
    MaxCalls = 2
    MaxWire = 2
INVARIANTS TypeOK AuthenticatedIsAccepted NothingLeftOfACall MuteHolds
CHECK_DEADLOCK FALSE
