SPECIFICATION Spec
CONSTANTS
    Packet <- MCPacket
    MaxBuffered = 4
    MaxEncoded = 2
    Descriptors <- MCDescriptors
    Payloads <- MCPayloads
INVARIANTS TypeOK NoNullPacket NoOverrun FramesWellShaped ParseReadsLayout
PROPERTIES NeverCatchesUp
CHECK_DEADLOCK FALSE
