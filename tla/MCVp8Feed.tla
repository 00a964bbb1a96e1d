------------------------------ MODULE MCVp8Feed ------------------------------
EXTENDS Vp8Feed, SequencesExt, TLC

\* The packets of frame f of a stream: n of them, the last with the marker. Every
\* frame has its own timestamp.
Cut(f, n, key) == [i \in 1..n |->
    [frame |-> f, m |-> i = n, key |-> key /\ i = 1, ok |-> TRUE, size |-> 2, plen |-> 1,
     ts |-> f]]

\* Number the packets of a sequence by position.
Numbered(q) == [i \in 1..Len(q) |-> [seq |-> i] @@ q[i]]

\* The stream whose frames have the lengths of ns, keyframes at the places of keys.
Sent(ns, keys) == FlattenSeq([f \in 1..Len(ns) |-> Cut(f, ns[f], f \in keys)])

\* Streams of six frames of one or two packets, with the first keyframe in every
\* place the buffer can still reach, joined at the first packet or at the second
\* (within a frame, when the first has two).
MCStreams ==
    LET Lengths == [1..6 -> 1..2]
        Keys == {{1}, {2}, {3}, {2, 4}, {3, 4}}
    IN  {Numbered(Sent(ns, ks)) : ns \in Lengths, ks \in Keys}
        \cup {Numbered(Tail(Sent(ns, ks))) : ns \in Lengths, ks \in Keys}

MCPacket == UNION {Range(w) : w \in MCStreams}
=============================================================================
