SPECIFICATION Spec
CONSTANTS
    Calls = {c1, c2}
    MaxWire = 3
    Base = 16
INVARIANTS TypeOK PendingIsWatched ConnectGoesFirst MessagesReadBack
PROPERTIES ReplyIsNeverMissed EveryCallSettles ImplementsRpcCalls
CHECK_DEADLOCK FALSE
