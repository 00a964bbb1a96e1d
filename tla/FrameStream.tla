----------------------------- MODULE FrameStream -----------------------------
(***************************************************************************)
(* What a depacketizer owes the decoder when the network loses nothing:    *)
(* the frames of the stream, whole and in order, from the first keyframe   *)
(* on. A frame is a run of packets of the wire that ends with the first    *)
(* packet carrying the marker.                                             *)
(***************************************************************************)
EXTENDS Naturals, Sequences

VARIABLES
    wire,     \* the packets of the stream, in the order they were sent
    played,   \* the frames played, each the sequence of its packets
    from      \* the position of the next packet to play; 0 before the keyframe

\* b ends the frame that begins at a.
FrameAt(a, b) ==
    /\ a \in 1..Len(wire) /\ b \in a..Len(wire)
    /\ wire[b].m
    /\ \A i \in a..(b - 1) : ~wire[i].m

\* The first packet of the stream that begins a keyframe.
IsFirstKey(a) ==
    /\ a \in 1..Len(wire) /\ wire[a].key
    /\ \A i \in 1..(a - 1) : ~wire[i].key

Init == played = <<>> /\ from = 0

Play(a, b) ==
    /\ FrameAt(a, b)
    /\ IF from = 0 THEN IsFirstKey(a) ELSE a = from
    /\ played' = Append(played, SubSeq(wire, a, b))
    /\ from' = b + 1
    /\ UNCHANGED wire

Next == \E a, b \in 1..Len(wire) : Play(a, b)

Spec == Init /\ [][Next]_<<wire, played, from>>
=============================================================================
