--------------------------- MODULE Vp8Depacketizer ---------------------------
(***************************************************************************)
(* The VP8 depacketizer of pup (pup/pup/vp8_depacketizer.c over            *)
(* pup/pup/rtp_packet_buffer.cc): RTP packets are appended to a buffer, a  *)
(* packet with the marker bit triggers try_parse, and try_parse joins the  *)
(* payloads of the packets at the FRONT of the buffer, up to the first     *)
(* marker, into one encoded frame.                                         *)
(*                                                                         *)
(* A packet is a record of what the code reads of it:                      *)
(*   m     the RTP marker bit            ts    the RTP timestamp           *)
(*   ok    Parse accepts its descriptor  key   Parse says kVideoFrameKey   *)
(*   size  end - pos, the bytes after the RTP header                       *)
(*   plen  payload_length, what Parse leaves after the descriptor          *)
(* Any packet may be pushed at any time: loss, reordering and the contents *)
(* of a real stream are the business of Vp8Feed.                           *)
(***************************************************************************)
EXTENDS Integers, Sequences, FiniteSets, FiniteSetsExt

CONSTANTS
    Packet,        \* the packets the depacketizer may be handed
    MaxBuffered,   \* bound: packets in packet_buffer when a push arrives
    MaxEncoded     \* bound: frames in encoded_fifo when a push arrives

ASSUME PacketAssumption ==
    \A p \in Packet : /\ p.m \in BOOLEAN /\ p.ok \in BOOLEAN /\ p.key \in BOOLEAN
                      /\ p.ts \in Nat /\ p.size \in Nat
                      /\ p.plen \in Nat /\ p.plen <= p.size

ASSUME BoundAssumption == MaxBuffered \in Nat /\ MaxEncoded \in Nat

VARIABLES
    packet_buffer,        \* the packets waiting, oldest first
    encoded_fifo,         \* the frames nobody has popped yet
    has_first_keyframe,
    fault                 \* what the C code would have run into

vars == <<packet_buffer, encoded_fifo, has_first_keyframe, fault>>

-----------------------------------------------------------------------------
\* Bytes of the packets of q at the indices of S, by field.
SizeOf(q, S) == MapThenSumSet(LAMBDA i : q[i].size, S)
PayloadOf(q, S) == MapThenSumSet(LAMBDA i : q[i].plen, S)

\* Mutant: the packet goes to the front.
PushedFront(q, p) == <<p>> \o q

\* The buffer is a vector that grows at the back and is popped at the front.
rtp_buffer_push(q, p) == Append(q, p)

\* Where rtp_buffer_walk stops over q: at the first marker, or at the end.
WalkEnd(q) == Min({i \in 1..Len(q) : q[i].m} \cup {Len(q)})

\* The bytes tally_packet_size adds up over the packets still buffered.
calculate_frame_size(q) == IF q = <<>> THEN 0 ELSE SizeOf(q, 1..WalkEnd(q))

\* Mutant: the packet already popped is forgotten (366 warns of it).
FrameSizeForgetsPopped(first, rest) == calculate_frame_size(rest)

\* The bytes allocated for the frame that begins with the popped packet first.
frame_size(first, rest) == first.plen + calculate_frame_size(rest)

\* Mutant: the result of Parse inside the loop is ignored.
LoopEndsAtMarkerOnly(q) == {i \in 1..Len(q) : q[i].m}

\* Mutant: the loop copies until the buffer is empty.
LoopEndsWithBuffer(q) == {Len(q)}

\* Mutant: the marker of the packet popped first is not looked at.
LoopEndsSkipFirst(q) == {i \in 2..Len(q) : q[i].m \/ ~q[i].ok}

\* Where the copy loop of try_parse may leave q: at a marker, or at a packet
\* that does not parse.
LoopEnds(q) == {i \in 1..Len(q) : q[i].m \/ ~q[i].ok}

\* try_parse gives up on the first packet: it does not parse, or there was no
\* keyframe yet and it does not begin one.
Refused(first, seen) == ~first.ok \/ ~(seen \/ first.key)

\* Mutant: the whole refused frame is dropped.
LeftByRefusalNoFrame(q) == SubSeq(q, WalkEnd(q) + 1, Len(q))

\* What a refusal leaves: only the packet popped is gone, not its frame.
LeftByRefusal(q) == Tail(q)

\* Mutant: pts is left as av_packet_alloc made it (AV_NOPTS_VALUE).
EncodedFrameNoPts(payload) == [payload |-> payload, pts |-> -1]

\* The frame made of the packets of payload, stamped by the first of them.
EncodedFrame(payload) == [payload |-> payload, pts |-> payload[1].ts]

\* What try_parse makes of a buffer q, given has_first_keyframe: the buffer it
\* leaves, the frame it appends (at most one), the flag and a fault. With no end in sight the
\* loop pops a NULL packet. A packet that fails to parse inside the loop takes
\* the packets copied so far with it.
try_parse(q, seen) ==
    LET first  == Head(q)
        last   == Min(LoopEnds(q))
        copied == PayloadOf(q, {i \in 1..last : q[i].ok})
        size   == frame_size(first, Tail(q))
    IN  IF Refused(first, seen)
        THEN [buffer |-> LeftByRefusal(q), frames |-> <<>>, seen |-> seen, fault |-> "none"]
        ELSE IF LoopEnds(q) = {}
        THEN [buffer |-> <<>>, frames |-> <<>>, seen |-> TRUE, fault |-> "null_packet"]
        ELSE [buffer |-> SubSeq(q, last + 1, Len(q)),
              frames |-> IF q[last].ok THEN <<EncodedFrame(SubSeq(q, 1, last))>>
                         ELSE <<>>,
              seen   |-> TRUE,
              fault  |-> IF copied > size THEN "overrun" ELSE "none"]

\* Mutant: try_parse runs for every packet.
PushedParsesAlways(p) ==
    try_parse(rtp_buffer_push(packet_buffer, p), has_first_keyframe)

\* What a push makes of the buffer: try_parse runs for a packet with the marker.
Pushed(p) ==
    LET q == rtp_buffer_push(packet_buffer, p)
    IN  IF p.m THEN try_parse(q, has_first_keyframe)
        ELSE [buffer |-> q, frames |-> <<>>, seen |-> has_first_keyframe,
              fault |-> "none"]

-----------------------------------------------------------------------------
Init ==
    /\ packet_buffer = <<>>
    /\ encoded_fifo = <<>>
    /\ has_first_keyframe = FALSE
    /\ fault = "none"

\* vp8_depacketizer_push
Push(p) ==
    /\ fault = "none"
    /\ Len(packet_buffer) < MaxBuffered
    /\ Len(encoded_fifo) < MaxEncoded
    /\ packet_buffer' = Pushed(p).buffer
    /\ encoded_fifo' = encoded_fifo \o Pushed(p).frames
    /\ has_first_keyframe' = Pushed(p).seen
    /\ fault' = Pushed(p).fault

\* vp8_depacketizer_pop, when there is a frame to return
Pop ==
    /\ fault = "none"
    /\ encoded_fifo # <<>>
    /\ encoded_fifo' = Tail(encoded_fifo)
    /\ UNCHANGED <<packet_buffer, has_first_keyframe, fault>>

Next == (\E p \in Packet : Push(p)) \/ Pop

Spec == Init /\ [][Next]_vars

-----------------------------------------------------------------------------
\* Markers in a buffer: the frames that have fully arrived and are still inside.
Markers(q) == Cardinality({i \in 1..Len(q) : q[i].m})

\* A frame as the decoder needs it: not empty, every packet parsed, the marker
\* on the last packet and on no other, the timestamp of its first packet.
WellShaped(f) ==
    LET n == Len(f.payload)
    IN  /\ n > 0
        /\ f.payload[n].m
        /\ \A i \in 1..(n - 1) : ~f.payload[i].m
        /\ \A i \in 1..n : f.payload[i].ok
        /\ f.pts = f.payload[1].ts

Frame == [payload : Seq(Packet), pts : Nat]

\* Types: what each variable of the depacketizer may hold.
TypeOK ==
    /\ packet_buffer \in Seq(Packet)
    /\ encoded_fifo \in Seq(Frame)
    /\ has_first_keyframe \in BOOLEAN
    /\ fault \in {"none", "null_packet", "overrun"}

\* The copy loop of try_parse never pops a NULL packet (387 dereferences it),
\* whatever an earlier try_parse left at the front of the buffer.
NoNullPacket == fault # "null_packet"

\* The memcpy of try_parse never writes past the allocation: what the walk
\* tallied before the loop covers what the loop copies, also when the popped
\* packet has the marker itself and the walk counts packets of the next frame.
NoOverrun == fault # "overrun"

\* Whatever is pushed and in whatever order, a frame that comes out has exactly
\* one marker, on its last packet, and holds no packet that failed to parse.
FramesWellShaped == \A i \in 1..Len(encoded_fifo) : WellShaped(encoded_fifo[i])

\* The frame that ends the wait for a keyframe begins with one: whatever was left
\* in the buffer by refused packets, no delta frame comes out first.
FirstFrameIsKeyframe ==
    [][~has_first_keyframe /\ encoded_fifo' # encoded_fifo
          => encoded_fifo'[Len(encoded_fifo')].payload[1].key]_vars

\* The depacketizer never catches up: one try_parse consumes at most one marker
\* and runs once per marker pushed, so a complete frame left behind in the
\* buffer (a refused or broken frame leaves them) stays behind for ever.
NeverCatchesUp == [][Markers(packet_buffer') >= Markers(packet_buffer)]_vars

=============================================================================
