-------------------------- MODULE MCVp8Depacketizer --------------------------
EXTENDS Vp8Depacketizer, Vp8Descriptor

\* Descriptors with every combination of fields, at the ends of their ranges.
MCFields ==
    [pictureId : {kNoPictureId, 0, 127, 128, 32767}, tl0PicIdx : {kNoTl0PicIdx, 0, 255},
     temporalIdx : {kNoTemporalIdx, 0, 3}, layerSync : BOOLEAN,
     keyIdx : {kNoKeyIdx, 0, 31}]

MCDescriptors ==
    {d \in [fields : {f \in MCFields : f.layerSync => f.temporalIdx # kNoTemporalIdx},
            long : BOOLEAN, nonReference : BOOLEAN, beginning : BOOLEAN,
            partitionId : {0, 8}] :
        /\ d.fields.pictureId > 127 => d.long
        /\ d.long => d.fields.pictureId # kNoPictureId}

\* Nothing, and both frame types with and without room for a keyframe's header.
MCPayloads == {<<>>} \cup {[i \in 1..n |-> p] : n \in {1, 9, 10}, p \in {0, 1}}

\* The packet that bytes become, with or without the marker.
P(marker, bytes) ==
    LET r == Parse(bytes)
    IN  [m |-> marker, ok |-> r.ok, key |-> r.ok /\ r.key, size |-> Len(bytes),
         plen |-> IF r.ok THEN Len(r.payload) ELSE 0, ts |-> 0]

\* A keyframe, delta frames with and without an extension, and what does not parse.
MCPacket ==
    {P(m, <<16, 0, 0, 0, 0, 0, 0, 0, 0, 0, 0>>) : m \in BOOLEAN}
    \cup {P(m, <<0, 1>>) : m \in BOOLEAN}
    \cup {P(m, <<15, 0>>) : m \in BOOLEAN}
    \cup {P(TRUE, <<128, 240, 129, 2, 3, 4, 5, 6>>)}

\* What Parse makes of bytes depends on no state: it is checked once, at the start.
\* Parse reads back every descriptor that can be written, and finds the payload; a
\* packet that ends within its descriptor, or right after it, is refused.
ParseReadsLayout == Init => ReadsLayout /\ RefusesTruncated
=============================================================================
