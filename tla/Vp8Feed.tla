------------------------------- MODULE Vp8Feed -------------------------------
(****************************************************************************)
(* One VP8 stream through pup: the RTP packets of a subscribed stream, on a *)
(* network that may lose some, reach handle_rtp (pup/pup/pup_dogbone.cc),   *)
(* which pushes each into the depacketizer and hands every frame that comes *)
(* out to the network source. A subscription may begin anywhere in a        *)
(* stream: within a frame, or frames away from the next keyframe.           *)
(****************************************************************************)
EXTENDS Vp8Depacketizer

CONSTANTS
    Streams,    \* the packet sequences a sender may send
    MaxLost     \* bound: packets the network loses

\* A packet carries its position in the stream (seq), the frame it was cut from,
\* and parses.
ASSUME StreamAssumption ==
    /\ MaxLost \in Nat
    /\ \A w \in Streams : /\ w \in Seq(Packet)
                          /\ \A i \in 1..Len(w) : w[i].ok /\ w[i].seq = i

\* A frame is cut into packets that follow one another, of which the last has the
\* marker, and only the first can begin a keyframe (Parse, 296: the S bit, partition 0).
ASSUME FrameAssumption ==
    \A w \in Streams : \A i \in 1..Len(w) :
        /\ w[i].key /\ i > 1 => w[i - 1].m
        /\ \A j \in i..Len(w) :
              w[i].frame = w[j].frame <=> \A k \in i..(j - 1) : ~w[k].m

VARIABLES
    wire,     \* the stream being sent
    next,     \* the position of the next packet to arrive or be lost
    lost,     \* the positions of the packets lost
    video     \* the frames handed to network_source_push_video

feedVars == <<packet_buffer, encoded_fifo, has_first_keyframe, fault,
              wire, next, lost, video>>

FeedInit ==
    /\ Init
    /\ wire \in Streams
    /\ next = 1
    /\ lost = {}
    /\ video = <<>>

\* handle_rtp for a VP8 packet: push it, then pop until there is no frame left.
handle_rtp ==
    /\ fault = "none"
    /\ next <= Len(wire)
    /\ LET r == Pushed(wire[next])
       IN  /\ packet_buffer' = r.buffer
           /\ has_first_keyframe' = r.seen
           /\ fault' = r.fault
           /\ video' = video \o encoded_fifo \o r.frames
           /\ encoded_fifo' = <<>>
    /\ next' = next + 1
    /\ UNCHANGED <<wire, lost>>

\* The network loses a packet: pup never learns of it.
Lose ==
    /\ next <= Len(wire)
    /\ Cardinality(lost) < MaxLost
    /\ lost' = lost \cup {next}
    /\ next' = next + 1
    /\ UNCHANGED <<packet_buffer, encoded_fifo, has_first_keyframe, fault, wire, video>>

FeedNext == handle_rtp \/ Lose

FeedSpec == FeedInit /\ [][FeedNext]_feedVars

-----------------------------------------------------------------------------
\* The positions of a stream that belong to the same frame as position i.
SameFrame(i) == {j \in 1..Len(wire) : wire[j].frame = wire[i].frame}

\* The positions of the packets of a sequence.
Positions(q) == {q[i].seq : i \in 1..Len(q)}

\* The frames handed over whose packets were all sent before the first loss. They
\* come first (PlayedInOrder), so these are 1..n for some n.
BeforeLoss == {k \in 1..Len(video) : \A i \in Positions(video[k].payload), l \in lost : i < l}

\* Up to the first loss the decoder is handed the whole frames of the stream, in
\* order and without a gap, from its first keyframe on: the feed implements
\* FrameStream, wherever in a stream the subscription began. A loss does not
\* reach back: frames that were still buffered when it happened come out whole.
Payloads == [k \in BeforeLoss |-> video[k].payload]
From == IF BeforeLoss = {} THEN 0
        ELSE LET f == video[Cardinality(BeforeLoss)].payload IN f[Len(f)].seq + 1

Played == INSTANCE FrameStream WITH played <- Payloads, from <- From

ImplementsFrameStream == Played!Spec

\* The packets of a stream before its first keyframe.
Leading(w) == {i \in 1..Len(w) : \A j \in 1..i : ~w[j].key}

\* Without loss the lag is exact: try_parse refuses one packet per marker, so each
\* packet before the first keyframe that is not the last of its frame puts the
\* decoder one frame behind the network, for the rest of the stream.
LagIsExact ==
    lost = {} /\ has_first_keyframe =>
        Markers(packet_buffer) = Cardinality({i \in Leading(wire) : ~wire[i].m})

\* With loss, what is played keeps the order of the stream and repeats nothing:
\* the packets of the frames played, one frame after the other, and then those
\* still buffered, are in increasing order of position.
PlayedInOrder ==
    /\ \A k \in 1..Len(video) : LET f == video[k].payload IN
         \A i \in 1..(Len(f) - 1) : f[i].seq < f[i + 1].seq
    /\ \A k, l \in 1..Len(video) : k < l =>
         \A i \in Positions(video[k].payload), j \in Positions(video[l].payload) : i < j
    /\ \A k \in 1..Len(video) :
         \A i \in Positions(video[k].payload), j \in Positions(packet_buffer) : i < j

\* A loss stays where it happened: if no packet of a frame was lost, nor the
\* last packet of the frame before it, then that frame is played alone and whole
\* or not at all, whatever was lost elsewhere.
LossIsLocal ==
    \A k \in 1..Len(video) : \A i \in Positions(video[k].payload) :
        LET g == SameFrame(i)
        IN  /\ g \cap lost = {}
            /\ Min(g) > 1 => Min(g) - 1 \notin lost
            => Positions(video[k].payload) = g

\* try_parse, 357: "discard all data before the first keyframe". No complete
\* frame is left in the buffer while the first keyframe is awaited.
DiscardsBeforeKeyframe == ~has_first_keyframe => Markers(packet_buffer) = 0
=============================================================================
