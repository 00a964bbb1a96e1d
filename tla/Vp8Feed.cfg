SPECIFICATION FeedSpec
CONSTANTS
    Packet <- MCPacket
    MaxBuffered = 0
    MaxEncoded = 0
    Streams <- MCStreams
    MaxLost = 2
INVARIANTS LagIsExact PlayedInOrder LossIsLocal
PROPERTIES ImplementsFrameStream
CHECK_DEADLOCK FALSE
