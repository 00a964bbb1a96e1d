SPECIFICATION PupSpec
CONSTANTS
    Packet <- MCPacket
    MaxBuffered = 0
    MaxEncoded = 0
    StreamOf <- MCStreamOf
    Video <- MCVideo
    Offers <- MCOffers
    MaxOffers <- MCMaxOffers
    MaxAudio <- MCMaxAudio
    MaxPipe = 2
    MaxRestarts = 1
    MaxFailures = 1
INVARIANTS PupTypeOK DecoderIsThere NegotiatedIsKnown ShownInOrder ClockGoesForward
CHECK_DEADLOCK FALSE
