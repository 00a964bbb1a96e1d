-------------------------------- MODULE MCPup --------------------------------
EXTENDS Pup

\* A packet, by its position in what subscriber u is sent: its frame, and whether it
\* begins a keyframe and ends its frame.
V(u, i, frame, key, last) ==
    [from |-> u, seq |-> i, frame |-> frame, m |-> last, key |-> key, ok |-> TRUE,
     size |-> 2, plen |-> 1, ts |-> IF u = "u2" THEN frame - 1 ELSE 5 + frame]

\* s1 is subscribed to twice.
MCStreamOf == [u1 |-> "s1", u2 |-> "s1", u3 |-> "s2"]

\* u1 is sent a keyframe of two packets and another keyframe, timestamps from 6; u2, who
\* comes between keyframes, a delta frame, timestamp 0; u3 no video.
MCVideo ==
    [u1 |-> <<V("u1", 1, 1, TRUE, FALSE), V("u1", 2, 1, FALSE, TRUE),
              V("u1", 3, 2, TRUE, TRUE)>>,
     u2 |-> <<V("u2", 1, 1, FALSE, TRUE)>>,
     u3 |-> <<>>]

MCPacket == UNION {ToSet(MCVideo[u]) : u \in DOMAIN MCVideo}

MCOffers == {{"VP8", "opus"}, {"opus", "H264"}}

\* u1 is offered again, and u3 has the audio.
MCMaxOffers == [u1 |-> 2, u2 |-> 1, u3 |-> 1]
MCMaxAudio == [u1 |-> 0, u2 |-> 0, u3 |-> 1]
=============================================================================
