--------------------------------- MODULE Pup ---------------------------------
(****************************************************************************)
(* dogbone (server.js) and pup: what the peer connection of each subscriber *)
(* receives goes as messages over one ZeroMQ pipe to pup's control thread   *)
(* (pup/pup/pup_dogbone.cc), which knows of each stream the codecs its      *)
(* offers named, and feeds the one depacketizer and the one network source  *)
(* (pup/pup/network_source.cc) there are for all streams. The compositor    *)
(* takes decoded frames in another thread, under a mutex.                   *)
(*                                                                          *)
(* A stream may have several subscribers: one that is announced twice is    *)
(* subscribed to twice, and both connections send under its id. A payload   *)
(* type stands for its codec: the offers of a stream number them alike. pup *)
(* keeps nothing: it ends when its ten seconds are composed, or in a crash, *)
(* and may be started again.                                                *)
(****************************************************************************)
EXTENDS Vp8Depacketizer, SequencesExt

CONSTANTS
    StreamOf,     \* the stream of each subscriber
    Video,        \* the VP8 packets each subscriber is sent
    Offers,       \* the sets of codecs an offer may name
    MaxOffers,    \* bound: the offers of each subscriber
    MaxAudio,     \* bound: the packets of each subscriber that are not VP8
    MaxPipe,      \* bound: messages in the pipe when a packet or an offer arrives
    MaxRestarts,  \* bound: restarts of pup
    MaxFailures   \* bound: decoders that cannot be set up

\* A packet carries its subscriber, its position in what that one is sent, and its
\* frame, and parses. A frame's packets are under one timestamp.
ASSUME VideoAssumption ==
    /\ DOMAIN StreamOf = DOMAIN Video
    /\ \A u \in DOMAIN Video :
        /\ Video[u] \in Seq(Packet)
        /\ \A i \in 1..Len(Video[u]) :
              LET p == Video[u][i] IN p.ok /\ p.from = u /\ p.seq = i

\* The timestamps of a subscriber do not go back, and go forward after a frame: their wrap
\* at 2^32 is left out.
ASSUME ClockAssumption ==
    \A u \in DOMAIN Video : \A i, j \in 1..Len(Video[u]) : i < j =>
        /\ Video[u][i].ts <= Video[u][j].ts
        /\ Video[u][i].m => Video[u][i].ts < Video[u][j].ts

subscribers == DOMAIN Video
streams == {StreamOf[u] : u \in subscribers}
Codecs == UNION Offers

VARIABLES
    offers,       \* offers each subscriber has had
    described,    \* the codecs of its latest offer
    negotiated,   \* the codecs that may flow, once an offer is answered
    sent,         \* VP8 packets each peer connection received
    voiced,       \* other packets it received
    pipe,         \* the messages on their way to pup
    restarts,
    stream_attrs,         \* the codecs pup knows of each stream
    video_codec_context,  \* "null", "closed", "new", or "primed" by a keyframe
    audio_codec_context,  \* "null", "closed" or "open"
    first_video_pts,
    video_frame_fifo,     \* frames decoded and not composed
    audio_fifo,           \* decoded audio, in packets
    shown,                \* frames composed by this pup
    refused,              \* a packet was of an unknown stream or payload type
    failures,             \* decoders that could not be set up
    failed,               \* the decoders that this pup could not set up
    missed                \* those that a packet found missing, or not open

dogbone == <<offers, described, negotiated, sent, voiced>>
depacketizer == <<packet_buffer, encoded_fifo, has_first_keyframe>>
source == <<video_codec_context, audio_codec_context, first_video_pts,
            video_frame_fifo, audio_fifo>>
history == <<refused, failures, failed, missed>>
pupVars == <<dogbone, pipe, restarts, stream_attrs, depacketizer, fault, source,
             shown, history>>

PupInit ==
    /\ Init
    /\ offers = [u \in subscribers |-> 0]
    /\ described = [u \in subscribers |-> {}]
    /\ negotiated = [u \in subscribers |-> {}]
    /\ sent = [u \in subscribers |-> 0]
    /\ voiced = [u \in subscribers |-> 0]
    /\ pipe = <<>>
    /\ restarts = 0
    /\ stream_attrs = [s \in streams |-> {}]
    /\ video_codec_context = "null" /\ audio_codec_context = "null"
    /\ first_video_pts = 0
    /\ video_frame_fifo = <<>> /\ audio_fifo = 0
    /\ shown = <<>>
    /\ refused = FALSE /\ failures = 0 /\ failed = {} /\ missed = {}

-----------------------------------------------------------------------------
\* pup.sendControlMessage: into the pipe, which keeps the order.
sendControlMessage(m) == pipe' = Append(pipe, m)

\* A subscriber's 'offer': it goes to pup before the peer connection gets it.
OnOffer(u, C) ==
    /\ offers[u] < MaxOffers[u] /\ Len(pipe) < MaxPipe
    /\ sendControlMessage([name |-> "offer", stream |-> StreamOf[u], codecs |-> C])
    /\ offers' = [offers EXCEPT ![u] = @ + 1]
    /\ described' = [described EXCEPT ![u] = C]
    /\ UNCHANGED <<negotiated, sent, voiced, restarts, stream_attrs, depacketizer, fault,
                   source, shown, history>>

\* setRemoteDescription and createAnswer are done: the answer is sent, and packets
\* of the codecs it names may come.
OnAnswer(u) ==
    /\ negotiated[u] # described[u]
    /\ negotiated' = [negotiated EXCEPT ![u] = described[u]]
    /\ UNCHANGED <<offers, described, sent, voiced, pipe, restarts, stream_attrs,
                   depacketizer, fault, source, shown, history>>

\* The remote stream's 'packet', of VP8 or of another codec.
OnPacket(u) ==
    /\ Len(pipe) < MaxPipe
    /\ \/ /\ "VP8" \in negotiated[u] /\ sent[u] < Len(Video[u])
          /\ sent' = [sent EXCEPT ![u] = @ + 1]
          /\ sendControlMessage([name |-> "data", stream |-> StreamOf[u], codec |-> "VP8",
                                 packet |-> Video[u][sent[u] + 1]])
          /\ UNCHANGED voiced
       \/ /\ voiced[u] < MaxAudio[u]
          /\ \E c \in negotiated[u] \ {"VP8"} :
                sendControlMessage([name |-> "data", stream |-> StreamOf[u], codec |-> c])
          /\ voiced' = [voiced EXCEPT ![u] = @ + 1]
          /\ UNCHANGED sent
    /\ UNCHANGED <<offers, described, negotiated, restarts, stream_attrs, depacketizer,
                   fault, source, shown, history>>

-----------------------------------------------------------------------------
\* Mutant: the map is made anew from each offer.
build_rtpmapAnew(s, C) == stream_attrs' = [stream_attrs EXCEPT ![s] = C]

\* The formats of an offer join those of the earlier ones.
build_rtpmap(s, C) == stream_attrs' = [stream_attrs EXCEPT ![s] = @ \cup C]

\* Mutant: the clock starts again with the decoders.
ClockFromZero == 0

\* The clock goes on when the decoders are replaced.
ClockKept == first_video_pts

\* New decoders replace those there were; the clock and the queues stay. A context is
\* not open when its codec is not found or does not open, and missing when there is no
\* memory; nobody looks at the result. A codec for opus that is not found is looked
\* into all the same.
setup_streams ==
    \E video \in {"new", "closed", "null"}, audio \in {"open", "closed", "null"}, found \in BOOLEAN :
        LET bad == {d \in {"video", "audio"} : IF d = "video" THEN video # "new" ELSE audio # "open"}
        IN  /\ video_codec_context' = video
            /\ audio_codec_context' = IF found THEN audio ELSE audio_codec_context
            /\ fault' = IF found THEN fault ELSE "null_codec"
            /\ failed' = failed \cup bad
            /\ failures' = failures + Cardinality(bad) + IF found THEN 0 ELSE 1
            /\ failures' <= MaxFailures
            /\ first_video_pts' = ClockKept
            /\ UNCHANGED <<video_frame_fifo, audio_fifo>>

\* handle_offer, whatever stream it is of.
handle_offer(m) ==
    /\ build_rtpmap(m.stream, m.codecs)
    /\ setup_streams
    /\ UNCHANGED <<depacketizer, refused, missed>>

\* What libavcodec may do with frame f: a context that is not open decodes nothing, an
\* intact frame is decoded, if a keyframe went before or it is one; of one that mixes
\* frames or subscribers, or lacks packets, nobody knows.
Intact(f) ==
    /\ \A i, j \in DOMAIN f.payload :
          /\ f.payload[i].from = f.payload[j].from /\ f.payload[i].frame = f.payload[j].frame
          /\ f.payload[i] = f.payload[j] => i = j
    /\ \A p \in Packet : p.from = f.payload[1].from /\ p.frame = f.payload[1].frame
                            => p \in ToSet(f.payload)
Decodes(f) ==
    IF \/ video_codec_context \in {"null", "closed"}
       \/ video_codec_context = "new" /\ ~f.payload[1].key THEN {FALSE}
    ELSE IF Intact(f) THEN {TRUE} ELSE BOOLEAN

\* network_source_push_video: the first timestamp, unless it is 0, becomes the zero
\* of the clock.
push_video(f) ==
    LET pts == IF first_video_pts > 0 THEN f.pts - first_video_pts ELSE 0
    IN  /\ first_video_pts' = IF first_video_pts > 0 THEN first_video_pts ELSE f.pts
        /\ \E decoded \in Decodes(f) :
           /\ video_codec_context' = IF decoded THEN "primed" ELSE video_codec_context
           /\ video_frame_fifo' = IF decoded THEN Append(video_frame_fifo,
                                                         [payload |-> f.payload, pts |-> pts])
                                  ELSE video_frame_fifo
        /\ UNCHANGED <<audio_codec_context, audio_fifo>>

\* Mutant: nothing is looked up.
KnownAlways(m) == TRUE

\* The stream has had an offer that named the payload type.
Known(m) == m.codec \in stream_attrs[m.stream]

\* avcodec_send_packet: an error where the context is not open, which nobody heeds;
\* a fault where there is none.
FaultOf(context, otherwise) == IF context = "null" THEN "null_context" ELSE otherwise
Missing(d, context) == IF context \in {"null", "closed"} THEN {d} ELSE {}

\* handle_rtp. try_parse makes at most one frame of a packet and the pop loop takes
\* it at once, so no frame waits in encoded_fifo.
handle_rtp(m) ==
    /\ UNCHANGED <<stream_attrs, encoded_fifo, failures, failed>>
    /\ refused' = (refused \/ ~Known(m))
    /\ IF ~Known(m) \/ m.codec \notin {"VP8", "opus"}
       THEN UNCHANGED <<depacketizer, fault, source, missed>>
       ELSE IF m.codec = "opus"
       THEN /\ fault' = FaultOf(audio_codec_context, fault)
            /\ missed' = missed \cup Missing("audio", audio_codec_context)
            /\ audio_fifo' = IF audio_codec_context = "open" THEN audio_fifo + 1 ELSE audio_fifo
            /\ UNCHANGED <<depacketizer, video_codec_context, audio_codec_context,
                           first_video_pts, video_frame_fifo>>
       ELSE LET r == Pushed(m.packet)
            IN  /\ packet_buffer' = r.buffer
                /\ has_first_keyframe' = r.seen
                /\ IF r.frames = <<>> THEN fault' = r.fault /\ UNCHANGED <<source, missed>>
                   ELSE /\ fault' = FaultOf(video_codec_context, r.fault)
                        /\ missed' = missed \cup Missing("video", video_codec_context)
                        /\ push_video(r.frames[1])

\* The control thread takes a message and handles it.
handle_message ==
    /\ fault = "none"
    /\ pipe # <<>>
    /\ pipe' = Tail(pipe)
    /\ IF Head(pipe).name = "offer" THEN handle_offer(Head(pipe)) ELSE handle_rtp(Head(pipe))
    /\ UNCHANGED <<dogbone, restarts, shown>>

\* Mutant: back() is taken where pop() removes the front.
video_callback_of_back ==
    /\ fault = "none" /\ video_frame_fifo # <<>>
    /\ video_frame_fifo' = Tail(video_frame_fifo)
    /\ shown' = Append(shown, Last(video_frame_fifo))
    /\ UNCHANGED <<dogbone, pipe, restarts, stream_attrs, depacketizer, fault,
                   video_codec_context, audio_codec_context, first_video_pts, audio_fifo,
                   history>>

\* The compositor's thread takes a frame.
media_stream_video_callback ==
    /\ fault = "none" /\ video_frame_fifo # <<>>
    /\ video_frame_fifo' = Tail(video_frame_fifo)
    /\ shown' = Append(shown, Head(video_frame_fifo))
    /\ UNCHANGED <<dogbone, pipe, restarts, stream_attrs, depacketizer, fault,
                   video_codec_context, audio_codec_context, first_video_pts, audio_fifo,
                   history>>

\* The compositor's thread takes audio.
media_stream_audio_callback ==
    /\ fault = "none" /\ audio_fifo > 0
    /\ audio_fifo' = audio_fifo - 1
    /\ UNCHANGED <<dogbone, pipe, restarts, stream_attrs, depacketizer, fault,
                   video_codec_context, audio_codec_context, first_video_pts,
                   video_frame_fifo, shown, history>>

\* pup ends and is started again: its memory is gone, and with it the messages that
\* had reached its end of the pipe. dogbone does not notice.
Restart ==
    /\ restarts < MaxRestarts
    /\ restarts' = restarts + 1
    /\ \E n \in 0..Len(pipe) : pipe' = SubSeq(pipe, n + 1, Len(pipe))
    /\ packet_buffer' = <<>> /\ has_first_keyframe' = FALSE /\ fault' = "none"
    /\ stream_attrs' = [s \in streams |-> {}]
    /\ video_codec_context' = "null" /\ audio_codec_context' = "null"
    /\ first_video_pts' = 0 /\ video_frame_fifo' = <<>> /\ audio_fifo' = 0
    /\ shown' = <<>> /\ failed' = {} /\ missed' = {}
    /\ UNCHANGED <<dogbone, encoded_fifo, refused, failures>>

PupNext ==
    \/ \E u \in subscribers : (\E C \in Offers : OnOffer(u, C)) \/ OnAnswer(u) \/ OnPacket(u)
    \/ handle_message \/ media_stream_video_callback \/ media_stream_audio_callback
    \/ Restart

PupSpec == PupInit /\ [][PupNext]_pupVars

-----------------------------------------------------------------------------
Decoded == shown \o video_frame_fifo

PupTypeOK ==
    /\ stream_attrs \in [streams -> SUBSET Codecs]
    /\ packet_buffer \in Seq(Packet) /\ encoded_fifo = <<>>
    /\ fault \in {"none", "null_packet", "overrun", "null_context", "null_codec"}
    /\ video_codec_context \in {"null", "closed", "new", "primed"}
    /\ audio_codec_context \in {"null", "closed", "open"}
    /\ first_video_pts \in Nat /\ audio_fifo \in Nat
    /\ \A i \in DOMAIN Decoded :
          Decoded[i].payload \in Seq(Packet) /\ Decoded[i].pts \in Int

\* A packet finds its decoder missing or not open only in a pup that failed to set it
\* up, however often pup was restarted and whichever messages were lost with it: a
\* packet is let through by an offer, and the offer has set up the decoders.
DecoderIsThere == missed \subseteq failed

\* A packet of a codec that was negotiated is never refused, by a pup that has run
\* from the start: the offer goes into the pipe before the peer connection can
\* answer it, and a later offer that names fewer codecs takes none away from the
\* packets that are still under way.
NegotiatedIsKnown == refused => restarts > 0

\* What the compositor gets of each subscriber keeps its order and repeats nothing,
\* whatever subscribers were joined in the one depacketizer. (A stream that has two
\* subscribers comes twice.)
ShownInOrder ==
    \A k, l \in DOMAIN Decoded :
        \A i \in DOMAIN Decoded[k].payload, j \in DOMAIN Decoded[l].payload :
            LET p == Decoded[k].payload[i]
                q == Decoded[l].payload[j]
            IN  p.from = q.from /\ (k < l \/ (k = l /\ i < j)) => p.seq < q.seq

\* As long as one subscriber is sent video, and its does not begin at timestamp 0, the
\* clock of the decoded frames goes forward, through any number of offers, of any
\* stream.
ClockGoesForward ==
    /\ Cardinality({u \in subscribers : sent[u] > 0}) = 1
    /\ \A u \in subscribers : sent[u] > 0 => Video[u][1].ts > 0
    => \A k, l \in DOMAIN Decoded : k < l => Decoded[k].pts < Decoded[l].pts
=============================================================================
