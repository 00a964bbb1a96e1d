SPECIFICATION FeedSpec
CONSTANTS
    Packet <- MCPacket
    MaxBuffered = 0
    MaxEncoded = 0
    Streams <- MCStreams
    MaxLost = 0
INVARIANTS DiscardsBeforeKeyframe
CHECK_DEADLOCK FALSE
