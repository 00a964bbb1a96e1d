-------------------------- MODULE MCRumorTransport --------------------------
EXTENDS RumorTransport, RumorMessage

\* Strings on both sides of the lengths that need the second byte.
Str(b, n) == [i \in 1..n |-> b]
MCStrings == {Str(1, n) : n \in {0, 1, Base - 1, Base, Base + 1}}

\* Headers with keys of one and of two bytes of length, and without.
MCHeaders == UNION {[K -> MCStrings] : K \in SUBSET {Str(2, 1), Str(3, Base + 1)}}

MCTopics == UNION {[1..n -> MCStrings] : n \in 0..2}

MCMessages ==
    {MessageMessage(topics, data, headers) :
        topics \in MCTopics, data \in {Str(4, 0), Str(4, Base + 1)}, headers \in MCHeaders}
    \cup {SubscribeMessage(topics) : topics \in MCTopics}
    \cup {UnsubscribeMessage(topics) : topics \in MCTopics}
    \cup {ConnectMessage(headers) : headers \in MCHeaders}
    \cup {DisconnectMessage, PingMessage}

\* What the bytes are depends on no state: they are checked once, at the start. Each
\* message the client can make reads back as it was written.
MessagesReadBack == Init => \A m \in MCMessages : Fits(m) => RoundTrip(m)
=============================================================================
