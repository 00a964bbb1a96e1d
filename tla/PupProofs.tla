------------------------------ MODULE PupProofs ------------------------------
(*****************************************************************************)
(* For any subscribers, streams, offers and packets: a packet finds its      *)
(* decoder missing only in a pup that failed to set it up, a pup that ran    *)
(* from the start refuses no packet of a negotiated codec, the frames of     *)
(* each subscriber are composed in its order, and the clock goes forward     *)
(* while one subscriber is sent video.                                       *)
(*                                                                           *)
(* The second needs to follow an offer through the pipe: the codecs that     *)
(* are described or negotiated, and the codec of every packet in the pipe,   *)
(* were named by an offer that pup has handled or that is ahead in the pipe. *)
(*                                                                           *)
(* The third follows the packets (OrderIInv): what was decoded, what is in   *)
(* the buffer and what is in the pipe come one after the other for each      *)
(* subscriber, and a push cuts the buffer in two (PushedCuts), whichever     *)
(* frames are mixed in it. The clock then only needs that a frame ends with  *)
(* its marker (ClockIInv), behind which a subscriber's timestamps are later. *)
(*****************************************************************************)
EXTENDS Pup, Vp8DepacketizerProofs, FiniteSetTheorems

\* A codec the code branches on or an offer names: what messages may be about.
Message == [name : {"offer"}, stream : streams, codecs : SUBSET Codecs]
           \cup [name : {"data"}, stream : streams, codec : {"VP8"}, packet : Packet]
           \cup [name : {"data"}, stream : streams, codec : Codecs \ {"VP8"}]

\* The types the arguments below need.
WireTypeOK ==
    /\ pipe \in Seq(Message)
    /\ stream_attrs \in [streams -> SUBSET Codecs]
    /\ described \in [subscribers -> SUBSET Codecs]
    /\ negotiated \in [subscribers -> SUBSET Codecs]
    /\ sent \in [subscribers -> Nat]
    /\ restarts \in Nat

\* With A for stream_attrs and q for the pipe: codec c of stream s is known to pup by
\* the time it takes the n-th message of q.
Named(A, q, s, c, n) ==
    \/ c \in A[s]
    \/ \E j \in 1..(n - 1) : q[j].name = "offer" /\ q[j].stream = s /\ c \in q[j].codecs

\* What may flow to a subscriber, and what is under way, was named before.
MayFlow(u) == described[u] \cup negotiated[u]
FlowIsNamed ==
    \A u \in subscribers : \A c \in MayFlow(u) :
        Named(stream_attrs, pipe, StreamOf[u], c, Len(pipe) + 1)
PipeIsNamed ==
    \A n \in 1..Len(pipe) : pipe[n].name = "data" =>
        Named(stream_attrs, pipe, pipe[n].stream, pipe[n].codec, n)
OfferGoesFirst == FlowIsNamed /\ PipeIsNamed

\* An offer has set up the decoders, or failed to, or ended in a fault.
SetUpVideo == video_codec_context \in {"null", "closed"} => "video" \in failed
SetUpAudio == audio_codec_context \in {"null", "closed"} => "audio" \in failed
OffersSetUp ==
    fault # "null_codec" => \A s \in streams : stream_attrs[s] # {} => SetUpVideo /\ SetUpAudio

PupIInv ==
    /\ WireTypeOK
    /\ OffersSetUp /\ DecoderIsThere
    /\ restarts = 0 => OfferGoesFirst /\ ~refused

\* The types of what pup holds. A frame that was decoded keeps its packets.
Composed == [payload : Seq(Packet), pts : Int]
PupTyped ==
    /\ packet_buffer \in Seq(Packet) /\ encoded_fifo = <<>> /\ has_first_keyframe \in BOOLEAN
    /\ fault \in {"none", "null_packet", "overrun", "null_context", "null_codec"}
    /\ video_codec_context \in {"null", "closed", "new", "primed"}
    /\ audio_codec_context \in {"null", "closed", "open"}
    /\ first_video_pts \in Nat /\ audio_fifo \in Nat
    /\ shown \in Seq(Composed) /\ video_frame_fifo \in Seq(Composed)

\* p comes before q, if both are of one subscriber.
Before(p, q) == p.from = q.from => p.seq < q.seq
Precede(A, B) == \A p \in A, q \in B : Before(p, q)
InOrder(q) == \A i, j \in 1..Len(q) : i < j => Before(q[i], q[j])

\* The VP8 packets of a pipe.
IsVideo(m) == m.name = "data" /\ m.codec = "VP8"
Videos(q) == {n \in 1..Len(q) : IsVideo(q[n])}
Piped(q) == {q[n].packet : n \in Videos(q)}
PipeInOrder(q) == \A i, j \in Videos(q) : i < j => Before(q[i].packet, q[j].packet)

\* The packets of decoded frames, one frame after the other.
Handed(D) == UNION {ToSet(D[k].payload) : k \in 1..Len(D)}
FramesInOrder(D) ==
    /\ \A k \in 1..Len(D) : InOrder(D[k].payload)
    /\ \A k, l \in 1..Len(D) : k < l => Precede(ToSet(D[k].payload), ToSet(D[l].payload))

\* A packet that its subscriber was sent.
WasSent(p) == p.from \in subscribers /\ p.seq \in 1..sent[p.from] /\ p = Video[p.from][p.seq]

\* The packets of a subscriber stay in order from the pipe to the compositor.
OrderIInv ==
    /\ FramesInOrder(Decoded) /\ InOrder(packet_buffer) /\ PipeInOrder(pipe)
    /\ Precede(Handed(Decoded), ToSet(packet_buffer))
    /\ Precede(Handed(Decoded) \cup ToSet(packet_buffer), Piped(pipe))
    /\ \A u \in subscribers : sent[u] <= Len(Video[u])
    /\ \A p \in Handed(Decoded) \cup ToSet(packet_buffer) \cup Piped(pipe) : WasSent(p)

\* The clock, while one subscriber is sent video: a frame ends with its marker, and has the timestamp
\* of its first packet, counted from that of the first frame there was.
Senders == {u \in subscribers : sent[u] > 0}
OneSender ==
    Cardinality(Senders) = 1 /\ \A u \in subscribers : sent[u] > 0 => Video[u][1].ts > 0
Ended(f) == Len(f) > 0 /\ f[Len(f)].m
Clocked(D, first) == \A k \in 1..Len(D) : D[k].pts = D[k].payload[1].ts - first
ClockIInv ==
    /\ IsFiniteSet(Senders)
    /\ \A k \in 1..Len(Decoded) : Ended(Decoded[k].payload)
    /\ OneSender => /\ Clocked(Decoded, first_video_pts)
                    /\ Decoded # <<>> => first_video_pts > 0

\* All that holds of pup.
FullIInv == PupIInv /\ PupTyped /\ OrderIInv /\ ClockIInv

-----------------------------------------------------------------------------
\* A message goes to the end of a pipe, and takes nothing from what was named.
LEMMA PipeGrows ==
    ASSUME NEW q \in Seq(Message), NEW m \in Message
    PROVE  /\ Append(q, m) \in Seq(Message)
           /\ Len(q) \in Nat /\ Len(Append(q, m)) = Len(q) + 1
           /\ \A i \in 1..Len(q) : Append(q, m)[i] = q[i]
           /\ Append(q, m)[Len(q) + 1] = m
  OBVIOUS

\* What was named stays named, also before what comes next.
LEMMA GrowthKeepsNames ==
    ASSUME NEW q \in Seq(Message), NEW m \in Message, NEW A, NEW s, NEW c,
           NEW n \in 1..(Len(q) + 1), Named(A, q, s, c, n)
    PROVE  /\ Named(A, Append(q, m), s, c, n)
           /\ Named(A, Append(q, m), s, c, Len(Append(q, m)) + 1)
<1>1. /\ Len(q) \in Nat /\ Len(Append(q, m)) = Len(q) + 1
      /\ \A i \in 1..Len(q) : Append(q, m)[i] = q[i]
  BY PipeGrows
<1>2. \A j \in 1..(n - 1) : j \in 1..Len(q) /\ j \in 1..(Len(Append(q, m)) + 1 - 1)
  BY <1>1
<1> QED
  BY <1>1, <1>2 DEF Named

\* What an offer at the end of the pipe names, is named before what comes next.
LEMMA OfferNames ==
    ASSUME NEW q \in Seq(Message), NEW m \in Message, m.name = "offer", NEW c \in m.codecs,
           NEW A
    PROVE  Named(A, Append(q, m), m.stream, c, Len(Append(q, m)) + 1)
<1>1. /\ Append(q, m)[Len(q) + 1] = m
      /\ Len(q) + 1 \in 1..(Len(Append(q, m)) + 1 - 1)
  BY PipeGrows
<1> QED
  BY <1>1 DEF Named

\* A pipe loses its first message.
LEMMA PipeShrinks ==
    ASSUME NEW q \in Seq(Message), q # <<>>
    PROVE  /\ Tail(q) \in Seq(Message)
           /\ Len(q) \in Nat /\ Len(Tail(q)) \in Nat /\ Len(q) = Len(Tail(q)) + 1
           /\ \A i \in 1..Len(Tail(q)) : i + 1 \in 1..Len(q) /\ Tail(q)[i] = q[i + 1]
           /\ Head(q) = q[1] /\ Head(q) \in Message
  OBVIOUS

\* When a message is handled, what was named before the next one still is.
\* The control thread handles an offer, or a packet.
LEMMA HandlingKeepsNames ==
    ASSUME NEW q \in Seq(Message), q # <<>>, NEW A, NEW B, NEW s, NEW c,
           A[s] \subseteq B[s],
           Head(q).name = "offer" /\ Head(q).stream = s => Head(q).codecs \subseteq B[s],
           NEW n \in 1..Len(q), Named(A, q, s, c, n + 1)
    PROVE  Named(B, Tail(q), s, c, n)
<1>1. /\ Len(q) \in Nat /\ Len(q) = Len(Tail(q)) + 1 /\ Len(Tail(q)) \in Nat
      /\ \A i \in 1..Len(Tail(q)) : Tail(q)[i] = q[i + 1]
      /\ Head(q) = q[1]
  BY PipeShrinks
<1>2. CASE c \in A[s]
  BY <1>2 DEF Named
<1>3. ASSUME NEW j \in 1..(n + 1 - 1), q[j].name = "offer" /\ q[j].stream = s /\ c \in q[j].codecs
      PROVE  Named(B, Tail(q), s, c, n)
  <2>1. CASE j = 1
    BY <1>1, <1>3, <2>1 DEF Named
  <2>2. CASE j # 1
    <3>1. j - 1 \in 1..(n - 1) /\ j - 1 \in 1..Len(Tail(q)) /\ (j - 1) + 1 = j
      BY <1>1, <2>2
    <3>2. Tail(q)[j - 1] = q[j]
      BY <1>1, <3>1
    <3> QED
      BY <1>3, <3>1, <3>2 DEF Named
  <2> QED
    BY <2>1, <2>2
<1> QED
  BY <1>2, <1>3 DEF Named

\* What a message in the pipe can be.
LEMMA MessageFields ==
    ASSUME NEW m \in Message
    PROVE  /\ m.stream \in streams
           /\ m.name = "offer" => m.codecs \in SUBSET Codecs
           /\ m.name \in {"offer", "data"}
           /\ m.name = "data" /\ m.codec = "VP8" => m.packet \in Packet
  BY DEF Message

-----------------------------------------------------------------------------
\* Nothing may flow at the start.
LEMMA PupInvInit == PupInit => PupIInv
<1> SUFFICES ASSUME PupInit PROVE PupIInv
  OBVIOUS
<1>1. WireTypeOK
  <2>1. <<>> \in Seq(Message)
    BY EmptySeq
  <2> QED
    BY <2>1 DEF PupInit, WireTypeOK
<1>2. OffersSetUp /\ DecoderIsThere /\ ~refused
  BY DEF PupInit, Init, OffersSetUp, DecoderIsThere
<1>3. OfferGoesFirst
  BY DEF PupInit, OfferGoesFirst, FlowIsNamed, PipeIsNamed, MayFlow
<1> QED
  BY <1>1, <1>2, <1>3 DEF PupIInv

\* dogbone puts a message into the pipe.
LEMMA SendingKeeps ==
    ASSUME PupIInv, NEW m \in Message, pipe' = Append(pipe, m),
           UNCHANGED <<stream_attrs, restarts, fault, video_codec_context,
                       audio_codec_context, history>>,
           described' \in [subscribers -> SUBSET Codecs],
           negotiated' \in [subscribers -> SUBSET Codecs], sent' \in [subscribers -> Nat],
           \A u \in subscribers : \A c \in MayFlow(u)' :
              c \in MayFlow(u) \/ (m.name = "offer" /\ m.stream = StreamOf[u] /\ c \in m.codecs),
           m.name = "data" =>
              \E u \in subscribers : m.stream = StreamOf[u] /\ m.codec \in MayFlow(u)
    PROVE  PupIInv'
<1>1. pipe \in Seq(Message)
  BY DEF PupIInv, WireTypeOK
<1>2. /\ pipe' \in Seq(Message)
      /\ Len(pipe) \in Nat /\ Len(pipe') = Len(pipe) + 1
      /\ \A i \in 1..Len(pipe) : pipe'[i] = pipe[i]
      /\ pipe'[Len(pipe) + 1] = m
  BY <1>1, PipeGrows
<1>3. WireTypeOK'
  BY <1>2 DEF PupIInv, WireTypeOK
<1>4. OffersSetUp' /\ DecoderIsThere'
  BY DEF PupIInv, OffersSetUp, SetUpVideo, SetUpAudio, DecoderIsThere, history
<1>5. ASSUME OfferGoesFirst PROVE OfferGoesFirst'
  <2>1. ASSUME NEW u \in subscribers, NEW c \in MayFlow(u)
        PROVE  /\ Named(stream_attrs, pipe', StreamOf[u], c, Len(pipe) + 1)
               /\ Named(stream_attrs, pipe', StreamOf[u], c, Len(pipe') + 1)
    <3>1. Named(stream_attrs, pipe, StreamOf[u], c, Len(pipe) + 1)
      BY <1>5 DEF OfferGoesFirst, FlowIsNamed
    <3>2. Len(pipe) + 1 \in 1..(Len(pipe) + 1)
      BY <1>2
    <3> QED
      BY <1>1, <3>1, <3>2, GrowthKeepsNames
  <2>2. ASSUME NEW u \in subscribers, NEW c \in MayFlow(u)'
        PROVE  Named(stream_attrs, pipe', StreamOf[u], c, Len(pipe') + 1)
    <3>1. CASE c \in MayFlow(u)
      BY <2>1, <3>1
    <3>2. CASE m.name = "offer" /\ m.stream = StreamOf[u] /\ c \in m.codecs
      BY <1>1, <3>2, OfferNames
    <3> QED
      BY <3>1, <3>2
  <2>3. ASSUME NEW n \in 1..Len(pipe'), pipe'[n].name = "data"
        PROVE  Named(stream_attrs, pipe', pipe'[n].stream, pipe'[n].codec, n)
    <3>1. CASE n = Len(pipe) + 1
      <4>1. PICK u \in subscribers : m.stream = StreamOf[u] /\ m.codec \in MayFlow(u)
        BY <1>2, <2>3, <3>1
      <4> QED
        BY <1>2, <2>1, <2>3, <3>1, <4>1
    <3>2. CASE n # Len(pipe) + 1
      <4>1. n \in 1..Len(pipe) /\ n \in 1..(Len(pipe) + 1) /\ pipe'[n] = pipe[n]
        BY <1>2, <3>2
      <4>2. Named(stream_attrs, pipe, pipe[n].stream, pipe[n].codec, n)
        BY <1>5, <2>3, <4>1 DEF OfferGoesFirst, PipeIsNamed
      <4> QED
        BY <1>1, <4>1, <4>2, GrowthKeepsNames
    <3> QED
      BY <3>1, <3>2
  <2>4. stream_attrs' = stream_attrs
    OBVIOUS
  <2>5. FlowIsNamed'
    BY <2>2, <2>4 DEF FlowIsNamed
  <2>6. PipeIsNamed'
    BY <2>3, <2>4 DEF PipeIsNamed
  <2> QED
    BY <2>5, <2>6 DEF OfferGoesFirst
<1> QED
  BY <1>3, <1>4, <1>5 DEF PupIInv, history

\* pup takes a message: what it named is in B, the stream table afterwards.
LEMMA TakingKeepsNames ==
    ASSUME pipe \in Seq(Message), pipe # <<>>, OfferGoesFirst, pipe' = Tail(pipe),
           UNCHANGED <<described, negotiated>>,
           \A s \in streams :
              /\ stream_attrs[s] \subseteq stream_attrs'[s]
              /\ Head(pipe).name = "offer" /\ Head(pipe).stream = s
                    => Head(pipe).codecs \subseteq stream_attrs'[s]
    PROVE  OfferGoesFirst'
<1>1. /\ Tail(pipe) \in Seq(Message)
      /\ Len(pipe) \in Nat /\ Len(pipe') \in Nat /\ Len(pipe) = Len(pipe') + 1
      /\ \A i \in 1..Len(pipe') : i + 1 \in 1..Len(pipe) /\ pipe'[i] = pipe[i + 1]
  BY PipeShrinks
<1>2. ASSUME NEW u \in subscribers, NEW c \in MayFlow(u)
      PROVE  Named(stream_attrs', pipe', StreamOf[u], c, Len(pipe') + 1)
  <2>1. Len(pipe) \in 1..Len(pipe) /\ Len(pipe) = Len(pipe') + 1
    BY <1>1
  <2>2. Named(stream_attrs, pipe, StreamOf[u], c, Len(pipe) + 1) /\ StreamOf[u] \in streams
    BY DEF OfferGoesFirst, FlowIsNamed, streams
  <2>3. Named(stream_attrs', Tail(pipe), StreamOf[u], c, Len(pipe))
    BY <2>1, <2>2, HandlingKeepsNames
  <2> QED
    BY <2>1, <2>3
<1>3. ASSUME NEW n \in 1..Len(pipe'), pipe'[n].name = "data"
      PROVE  Named(stream_attrs', pipe', pipe'[n].stream, pipe'[n].codec, n)
  <2>1. n + 1 \in 1..Len(pipe) /\ n \in 1..Len(pipe) /\ pipe'[n] = pipe[n + 1]
    BY <1>1
  <2>2. pipe[n + 1].stream \in streams
    BY <2>1, MessageFields, ElementOfSeq
  <2>3. Named(stream_attrs, pipe, pipe[n + 1].stream, pipe[n + 1].codec, n + 1)
    BY <1>3, <2>1 DEF OfferGoesFirst, PipeIsNamed
  <2>4. Named(stream_attrs', Tail(pipe), pipe[n + 1].stream, pipe[n + 1].codec, n)
    BY <2>1, <2>2, <2>3, HandlingKeepsNames
  <2> QED
    BY <2>1, <2>4
<1> QED
  BY <1>2, <1>3 DEF OfferGoesFirst, FlowIsNamed, PipeIsNamed, MayFlow

LEMMA HandlingKeeps ==
    ASSUME PupIInv, handle_message
    PROVE  PupIInv'
<1> DEFINE m == Head(pipe)
<1>1. /\ pipe \in Seq(Message) /\ pipe # <<>> /\ pipe' = Tail(pipe) /\ fault = "none"
      /\ UNCHANGED <<described, negotiated, sent, restarts>>
      /\ stream_attrs \in [streams -> SUBSET Codecs]
  BY DEF PupIInv, WireTypeOK, handle_message, dogbone
<1>2. /\ m \in Message /\ m.stream \in streams /\ m.name \in {"offer", "data"}
      /\ m.name = "offer" => m.codecs \in SUBSET Codecs
      /\ pipe' \in Seq(Message) /\ m = pipe[1] /\ 1 \in 1..Len(pipe)
  <2>1. /\ Tail(pipe) \in Seq(Message) /\ m = pipe[1] /\ m \in Message
        /\ Len(pipe) \in Nat /\ Len(Tail(pipe)) \in Nat /\ Len(pipe) = Len(Tail(pipe)) + 1
    BY <1>1, PipeShrinks
  <2> QED
    BY <1>1, <2>1, MessageFields
<1>3. CASE m.name = "offer"
  <2>1. /\ stream_attrs' = [stream_attrs EXCEPT ![m.stream] = @ \cup m.codecs]
        /\ setup_streams
        /\ UNCHANGED <<refused, missed>>
    BY <1>3 DEF handle_message, handle_offer, build_rtpmap
  <2>2. \A s \in streams : /\ stream_attrs[s] \subseteq stream_attrs'[s]
                           /\ m.stream = s => m.codecs \subseteq stream_attrs'[s]
    BY <1>1, <1>2, <2>1
  <2>3. WireTypeOK'
    BY <1>1, <1>2, <1>3, <2>1 DEF PupIInv, WireTypeOK
  <2>4. OffersSetUp' /\ DecoderIsThere'
    <3>1. PICK video \in {"new", "closed", "null"}, audio \in {"open", "closed", "null"},
               found \in BOOLEAN :
              /\ video_codec_context' = video
              /\ found => audio_codec_context' = audio
              /\ ~found => fault' = "null_codec"
              /\ failed \subseteq failed'
              /\ video # "new" => "video" \in failed'
              /\ audio # "open" => "audio" \in failed'
      BY <2>1 DEF setup_streams
    <3>2. OffersSetUp'
      BY <3>1 DEF OffersSetUp, SetUpVideo, SetUpAudio
    <3> QED
      BY <2>1, <3>1, <3>2 DEF PupIInv, DecoderIsThere
  <2>5. OfferGoesFirst => OfferGoesFirst'
    BY <1>1, <2>2, TakingKeepsNames
  <2> QED
    BY <1>1, <2>1, <2>3, <2>4, <2>5 DEF PupIInv
<1>4. CASE m.name = "data"
  <2>1. handle_rtp(m) /\ stream_attrs' = stream_attrs
    BY <1>4 DEF handle_message, handle_rtp
  <2>2. WireTypeOK'
    BY <1>1, <1>2, <2>1 DEF PupIInv, WireTypeOK
  <2>3. OfferGoesFirst => OfferGoesFirst'
    BY <1>1, <1>4, <2>1, TakingKeepsNames
  <2>4. OfferGoesFirst => Known(m)
    <3>1. OfferGoesFirst => Named(stream_attrs, pipe, m.stream, m.codec, 1)
      BY <1>2, <1>4 DEF OfferGoesFirst, PipeIsNamed
    <3>2. 1..(1 - 1) = {}
      OBVIOUS
    <3> QED
      BY <3>1, <3>2 DEF Known, Named
  <2>5. Known(m) /\ ~refused => ~refused'
    BY <2>1 DEF handle_rtp
  <2>6. Known(m) => SetUpVideo /\ SetUpAudio
    BY <1>1, <1>2 DEF Known, PupIInv, OffersSetUp
  <2>7. (SetUpVideo => SetUpVideo') /\ (SetUpAudio => SetUpAudio') /\ DecoderIsThere'
    <3>1. CASE ~Known(m) \/ m.codec \notin {"VP8", "opus"}
      BY <2>1, <3>1 DEF handle_rtp, source, PupIInv, SetUpVideo, SetUpAudio, DecoderIsThere
    <3>2. CASE Known(m) /\ m.codec = "opus"
      BY <2>1, <2>6, <3>2 DEF handle_rtp, PupIInv, SetUpVideo, SetUpAudio, DecoderIsThere, Missing
    <3>3. CASE Known(m) /\ m.codec = "VP8"
      <4> DEFINE r == Pushed(m.packet)
      <4>1. CASE r.frames = <<>>
        <5>1. UNCHANGED <<source, missed, failed>>
          BY <2>1, <3>3, <4>1 DEF handle_rtp
        <5> QED
          BY <5>1 DEF source, PupIInv, SetUpVideo, SetUpAudio, DecoderIsThere
      <4>2. CASE r.frames # <<>>
        <5>1. /\ missed' = missed \cup Missing("video", video_codec_context)
              /\ push_video(r.frames[1]) /\ UNCHANGED failed
          BY <2>1, <3>3, <4>2 DEF handle_rtp
        <5>2. /\ video_codec_context' \in {"primed", video_codec_context}
              /\ audio_codec_context' = audio_codec_context
          BY <5>1 DEF push_video
        <5> QED
          BY <2>6, <3>3, <5>1, <5>2 DEF PupIInv, SetUpVideo, SetUpAudio, DecoderIsThere, Missing
      <4> QED
        BY <4>1, <4>2
    <3> QED
      BY <3>1, <3>2, <3>3
  <2>8. OffersSetUp'
    BY <1>1, <2>1, <2>7 DEF PupIInv, OffersSetUp
  <2> QED
    BY <1>1, <2>2, <2>3, <2>4, <2>5, <2>7, <2>8 DEF PupIInv
<1> QED
  BY <1>2, <1>3, <1>4

\* One case per action: the compositor touches nothing of the invariant, and a restart
\* ends what OfferGoesFirst promises.
LEMMA PupInvStep == PupIInv /\ [PupNext]_pupVars => PupIInv'
<1> SUFFICES ASSUME PupIInv, [PupNext]_pupVars PROVE PupIInv'
  OBVIOUS
<1>1. ASSUME NEW u \in subscribers, NEW C \in Offers, OnOffer(u, C) PROVE PupIInv'
  <2> DEFINE m == [name |-> "offer", stream |-> StreamOf[u], codecs |-> C]
  <2>1. m \in Message /\ C \in SUBSET Codecs
    BY DEF Message, Codecs, streams
  <2>2. /\ pipe' = Append(pipe, m)
        /\ described' = [described EXCEPT ![u] = C]
        /\ UNCHANGED <<stream_attrs, restarts, fault, video_codec_context,
                       audio_codec_context, history, negotiated, sent>>
    BY <1>1 DEF OnOffer, sendControlMessage, source
  <2>3. /\ described' \in [subscribers -> SUBSET Codecs]
        /\ negotiated' \in [subscribers -> SUBSET Codecs] /\ sent' \in [subscribers -> Nat]
    BY <2>1, <2>2 DEF PupIInv, WireTypeOK
  <2>4. \A w \in subscribers : \A c \in MayFlow(w)' :
           c \in MayFlow(w) \/ (m.name = "offer" /\ m.stream = StreamOf[w] /\ c \in m.codecs)
    BY <2>2 DEF MayFlow, PupIInv, WireTypeOK
  <2> QED
    BY <2>1, <2>2, <2>3, <2>4, SendingKeeps
<1>2. ASSUME NEW u \in subscribers, OnAnswer(u) PROVE PupIInv'
  <2>1. /\ negotiated' = [negotiated EXCEPT ![u] = described[u]]
        /\ UNCHANGED <<described, pipe, stream_attrs, restarts, history, fault,
                       video_codec_context, audio_codec_context, sent>>
    BY <1>2 DEF OnAnswer, source
  <2>2. WireTypeOK'
    BY <2>1 DEF PupIInv, WireTypeOK
  <2>3. \A w \in subscribers : MayFlow(w)' \subseteq MayFlow(w)
    BY <2>1 DEF MayFlow, PupIInv, WireTypeOK
  <2>4. OfferGoesFirst => OfferGoesFirst'
    BY <2>1, <2>3 DEF OfferGoesFirst, FlowIsNamed, PipeIsNamed
  <2> QED
    BY <2>1, <2>2, <2>4 DEF PupIInv, OffersSetUp, SetUpVideo, SetUpAudio, DecoderIsThere, history
<1>3. ASSUME NEW u \in subscribers, OnPacket(u) PROVE PupIInv'
  <2>1. UNCHANGED <<described, negotiated, stream_attrs, restarts, history, fault,
                    video_codec_context, audio_codec_context>>
    BY <1>3 DEF OnPacket, source
  <2>2. PICK m : /\ m \in Message /\ pipe' = Append(pipe, m)
                 /\ m.name = "data" /\ m.stream = StreamOf[u] /\ m.codec \in MayFlow(u)
    <3>1. CASE /\ "VP8" \in negotiated[u] /\ sent[u] < Len(Video[u])
               /\ sent' = [sent EXCEPT ![u] = @ + 1]
               /\ sendControlMessage([name |-> "data", stream |-> StreamOf[u], codec |-> "VP8",
                                      packet |-> Video[u][sent[u] + 1]])
      <4> DEFINE v == [name |-> "data", stream |-> StreamOf[u], codec |-> "VP8",
                       packet |-> Video[u][sent[u] + 1]]
      <4>1. Video[u][sent[u] + 1] \in Packet
        <5>1. Video[u] \in Seq(Packet) /\ sent[u] \in Nat
          BY VideoAssumption DEF subscribers, PupIInv, WireTypeOK
        <5>2. sent[u] + 1 \in 1..Len(Video[u])
          BY <3>1, <5>1
        <5> QED
          BY <5>1, <5>2, ElementOfSeq
      <4> QED
        BY <3>1, <4>1 DEF Message, sendControlMessage, MayFlow, streams
    <3>2. CASE \E c \in negotiated[u] \ {"VP8"} :
                  sendControlMessage([name |-> "data", stream |-> StreamOf[u], codec |-> c])
      <4>1. PICK c \in negotiated[u] \ {"VP8"} :
                sendControlMessage([name |-> "data", stream |-> StreamOf[u], codec |-> c])
        BY <3>2
      <4> DEFINE a == [name |-> "data", stream |-> StreamOf[u], codec |-> c]
      <4>2. c \in Codecs \ {"VP8"}
        BY DEF PupIInv, WireTypeOK
      <4>3. a \in Message
        BY <4>2 DEF Message, streams
      <4>4. pipe' = Append(pipe, a)
        BY <4>1 DEF sendControlMessage
      <4>5. a.name = "data" /\ a.stream = StreamOf[u] /\ a.codec \in MayFlow(u)
        BY DEF MayFlow
      <4> QED
        BY <4>3, <4>4, <4>5
    <3> QED
      BY <1>3, <3>1, <3>2 DEF OnPacket
  <2>3. /\ described' \in [subscribers -> SUBSET Codecs]
        /\ negotiated' \in [subscribers -> SUBSET Codecs] /\ sent' \in [subscribers -> Nat]
    <3>1. sent' = sent \/ sent' = [sent EXCEPT ![u] = @ + 1]
      BY <1>3 DEF OnPacket
    <3> QED
      BY <2>1, <3>1 DEF PupIInv, WireTypeOK
  <2> QED
    BY <2>1, <2>2, <2>3, SendingKeeps DEF MayFlow
<1>4. CASE handle_message
  BY <1>4, HandlingKeeps
<1>5. CASE media_stream_video_callback \/ media_stream_audio_callback \/ UNCHANGED pupVars
  <2>1. UNCHANGED <<described, negotiated, sent, pipe, stream_attrs, restarts, history, fault,
                    video_codec_context, audio_codec_context>>
    BY <1>5 DEF media_stream_video_callback, media_stream_audio_callback, pupVars, dogbone,
                source
  <2> QED
    BY <2>1 DEF PupIInv, WireTypeOK, OffersSetUp, SetUpVideo, SetUpAudio, DecoderIsThere,
                OfferGoesFirst, FlowIsNamed, PipeIsNamed, MayFlow, history
<1>6. CASE Restart
  <2>1. restarts' = restarts + 1 /\ UNCHANGED <<described, negotiated, sent>>
        /\ stream_attrs' = [s \in streams |-> {}] /\ missed' = {}
    BY <1>6 DEF Restart, dogbone
  <2>2. pipe' \in Seq(Message)
    <3>1. PICK n \in 0..Len(pipe) : pipe' = SubSeq(pipe, n + 1, Len(pipe))
      BY <1>6 DEF Restart
    <3>2. pipe \in Seq(Message)
      BY DEF PupIInv, WireTypeOK
    <3> QED
      BY <3>1, <3>2
  <2>3. WireTypeOK'
    BY <2>1, <2>2 DEF PupIInv, WireTypeOK
  <2>4. OffersSetUp' /\ DecoderIsThere'
    BY <2>1 DEF OffersSetUp, DecoderIsThere
  <2>5. restarts' # 0
    BY <2>1 DEF PupIInv, WireTypeOK
  <2> QED
    BY <2>3, <2>4, <2>5 DEF PupIInv
<1> QED
  BY <1>1, <1>2, <1>3, <1>4, <1>5, <1>6 DEF PupNext

\* The inductive invariant.
LEMMA PupInvariant == PupSpec => []PupIInv
  BY PupInvInit, PupInvStep, PTL DEF PupSpec

-----------------------------------------------------------------------------
\* A pipe that lost the messages at its front.
LEMMA VideosLeft ==
    ASSUME NEW q, NEW v, NEW d \in Nat,
           \A i \in 1..Len(v) : i + d \in 1..Len(q) /\ v[i] = q[i + d]
    PROVE  Piped(v) \subseteq Piped(q) /\ (PipeInOrder(q) => PipeInOrder(v))
<1>1. \A i \in Videos(v) : i \in Int /\ i + d \in Videos(q) /\ v[i] = q[i + d]
  BY DEF Videos
<1>2. Piped(v) \subseteq Piped(q)
  BY <1>1 DEF Piped
<1>3. ASSUME PipeInOrder(q), NEW i \in Videos(v), NEW j \in Videos(v), i < j
      PROVE  Before(v[i].packet, v[j].packet)
  <2>1. i + d < j + d
    BY <1>1, <1>3
  <2> QED
    BY <1>1, <1>3, <2>1 DEF PipeInOrder
<1> QED
  BY <1>2, <1>3 DEF PipeInOrder

\* A pipe that got one message more.
LEMMA VideosMore ==
    ASSUME NEW q \in Seq(Message), NEW m \in Message
    PROVE  /\ ~IsVideo(m) => /\ Piped(Append(q, m)) \subseteq Piped(q)
                             /\ PipeInOrder(q) => PipeInOrder(Append(q, m))
           /\ IsVideo(m) =>
                /\ Piped(Append(q, m)) \subseteq Piped(q) \cup {m.packet}
                /\ PipeInOrder(q) /\ (\A p \in Piped(q) : Before(p, m.packet))
                      => PipeInOrder(Append(q, m))
<1> DEFINE v == Append(q, m)
<1>1. /\ Len(q) \in Nat /\ Len(v) = Len(q) + 1 /\ v[Len(q) + 1] = m
      /\ \A i \in 1..Len(q) : v[i] = q[i]
  BY PipeGrows
<1> HIDE DEF v
<1>2. ASSUME NEW i \in Videos(v)
      PROVE  /\ i \in 1..(Len(q) + 1)
             /\ i # Len(q) + 1 => i \in Videos(q) /\ v[i] = q[i]
             /\ i = Len(q) + 1 => IsVideo(m)
  BY <1>1, <1>2 DEF Videos
<1>3. Piped(v) \subseteq Piped(q) \cup {m.packet}
  BY <1>1, <1>2 DEF Piped
<1>4. ~IsVideo(m) => Piped(v) \subseteq Piped(q)
  BY <1>1, <1>2 DEF Piped
<1>5. ASSUME PipeInOrder(q), IsVideo(m) => \A p \in Piped(q) : Before(p, m.packet),
             NEW i \in Videos(v), NEW j \in Videos(v), i < j
      PROVE  Before(v[i].packet, v[j].packet)
  <2>1. i # Len(q) + 1 /\ i \in Videos(q) /\ v[i] = q[i] /\ v[i].packet \in Piped(q)
    <3>1. i \in Int /\ j \in Int /\ j <= Len(q) + 1
      BY <1>1, <1>2
    <3>2. i # Len(q) + 1
      BY <1>1, <1>5, <3>1
    <3> QED
      BY <1>2, <3>2 DEF Piped
  <2>2. CASE j = Len(q) + 1
    BY <1>1, <1>2, <1>5, <2>1, <2>2
  <2>3. CASE j # Len(q) + 1
    BY <1>2, <1>5, <2>1, <2>3 DEF PipeInOrder
  <2> QED
    BY <2>2, <2>3
<1>6. PipeInOrder(q) /\ (IsVideo(m) => \A p \in Piped(q) : Before(p, m.packet))
        => PipeInOrder(v)
  BY <1>5 DEF PipeInOrder
<1> QED
  BY <1>3, <1>4, <1>6 DEF v

\* The elements of a sequence, by index.
LEMMA Elements ==
    ASSUME NEW S, NEW q \in Seq(S)
    PROVE  /\ Len(q) \in Nat
           /\ \A x : x \in ToSet(q) <=> \E i \in 1..Len(q) : x = q[i]
           /\ \A i \in 1..Len(q) : q[i] \in ToSet(q) /\ q[i] \in S
<1>1. Len(q) \in Nat /\ DOMAIN q = 1..Len(q) /\ \A i \in 1..Len(q) : q[i] \in S
  OBVIOUS
<1> QED
  BY <1>1 DEF ToSet

\* A buffer q in order, cut in two: its parts are in order, and the first precedes
\* the second.
LEMMA Cut ==
    ASSUME NEW q \in Seq(Packet), InOrder(q), NEW n, NEW v, NEW b, CutAt(q, n, v, b)
    PROVE  /\ InOrder(v) /\ InOrder(b)
           /\ ToSet(v) \subseteq ToSet(q) /\ ToSet(b) \subseteq ToSet(q)
           /\ Precede(ToSet(v), ToSet(b))
<1>1. Len(q) \in Nat /\ n \in Nat /\ n <= Len(q) /\ v \in Seq(Packet) /\ b \in Seq(Packet)
  BY DEF CutAt
<1>2. \A i \in 1..Len(v) : i \in Nat /\ i \in 1..Len(q) /\ v[i] = q[i] /\ i <= n
  BY <1>1 DEF CutAt
<1>3. \A i \in 1..Len(b) : i \in Nat /\ i + n \in 1..Len(q) /\ b[i] = q[i + n] /\ i + n > n
  BY <1>1 DEF CutAt
<1>4. InOrder(v)
  BY <1>2 DEF InOrder
<1>5. InOrder(b)
  <2> SUFFICES ASSUME NEW i \in 1..Len(b), NEW j \in 1..Len(b), i < j
               PROVE  Before(b[i], b[j])
    BY DEF InOrder
  <2>1. i + n < j + n
    BY <1>1, <1>3
  <2> QED
    BY <1>3, <2>1 DEF InOrder
<1>6. ToSet(v) \subseteq ToSet(q)
  <2> SUFFICES ASSUME NEW x \in ToSet(v) PROVE x \in ToSet(q)
    OBVIOUS
  <2>1. PICK i \in 1..Len(v) : x = v[i]
    BY <1>1, Elements
  <2> QED
    BY <1>2, <2>1, Elements
<1>7. ToSet(b) \subseteq ToSet(q)
  <2> SUFFICES ASSUME NEW x \in ToSet(b) PROVE x \in ToSet(q)
    OBVIOUS
  <2>1. PICK i \in 1..Len(b) : x = b[i]
    BY <1>1, Elements
  <2> QED
    BY <1>3, <2>1, Elements
<1>8. ASSUME NEW x \in ToSet(v), NEW y \in ToSet(b) PROVE Before(x, y)
  <2>1. PICK i \in 1..Len(v) : x = v[i]
    BY <1>1, Elements
  <2>2. PICK j \in 1..Len(b) : y = b[j]
    BY <1>1, Elements
  <2>3. i < j + n
    BY <1>1, <1>2, <1>3
  <2> QED
    BY <1>2, <1>3, <2>1, <2>2, <2>3 DEF InOrder
<1> QED
  BY <1>4, <1>5, <1>6, <1>7, <1>8 DEF Precede

\* A buffer in order stays so with a packet that its packets precede.
LEMMA OneMorePacket ==
    ASSUME NEW q \in Seq(Packet), InOrder(q), NEW p \in Packet,
           \A x \in ToSet(q) : Before(x, p)
    PROVE  /\ Append(q, p) \in Seq(Packet) /\ Len(Append(q, p)) = Len(q) + 1
           /\ InOrder(Append(q, p)) /\ ToSet(Append(q, p)) \subseteq ToSet(q) \cup {p}
<1> DEFINE v == Append(q, p)
<1>1. /\ Len(q) \in Nat /\ v \in Seq(Packet) /\ Len(v) = Len(q) + 1 /\ v[Len(q) + 1] = p
      /\ \A i \in 1..Len(q) : v[i] = q[i] /\ q[i] \in ToSet(q)
  BY AppendProperties, Elements
<1> HIDE DEF v
<1>2. ASSUME NEW i \in 1..Len(v), NEW j \in 1..Len(v), i < j PROVE Before(v[i], v[j])
  <2>1. i \in 1..Len(q)
    BY <1>1, <1>2
  <2>2. CASE j = Len(q) + 1
    BY <1>1, <2>1, <2>2
  <2>3. CASE j # Len(q) + 1
    <3>1. j \in 1..Len(q)
      BY <1>1, <2>3
    <3> QED
      BY <1>1, <1>2, <2>1, <3>1 DEF InOrder
  <2> QED
    BY <2>2, <2>3
<1>3. ASSUME NEW x \in ToSet(v) PROVE x \in ToSet(q) \cup {p}
  <2>1. PICK i \in 1..Len(v) : x = v[i]
    BY <1>1, Elements
  <2>2. i \in 1..Len(q) \/ i = Len(q) + 1
    BY <1>1
  <2> QED
    BY <1>1, <2>1, <2>2
<1> QED
  BY <1>1, <1>2, <1>3 DEF InOrder, v

\* One frame more: its packets are in order and come after those of the frames before.
LEMMA OneMoreFrame ==
    ASSUME NEW D \in Seq(Composed), NEW f \in Composed
    PROVE  /\ Append(D, f) \in Seq(Composed) /\ Len(Append(D, f)) = Len(D) + 1
           /\ Append(D, f)[Len(D) + 1] = f /\ \A k \in 1..Len(D) : Append(D, f)[k] = D[k]
           /\ Handed(Append(D, f)) \subseteq Handed(D) \cup ToSet(f.payload)
           /\ FramesInOrder(D) /\ InOrder(f.payload) /\ Precede(Handed(D), ToSet(f.payload))
                => FramesInOrder(Append(D, f))
<1> DEFINE v == Append(D, f)
<1>1. /\ Len(D) \in Nat /\ v \in Seq(Composed) /\ Len(v) = Len(D) + 1 /\ v[Len(D) + 1] = f
      /\ \A k \in 1..Len(D) : v[k] = D[k]
  BY AppendProperties
<1> HIDE DEF v
<1>2. \A k \in 1..Len(v) : k \in 1..Len(D) \/ k = Len(D) + 1
  BY <1>1
<1>3. Handed(v) \subseteq Handed(D) \cup ToSet(f.payload)
  <2> SUFFICES ASSUME NEW k \in 1..Len(v), NEW x \in ToSet(v[k].payload)
               PROVE  x \in Handed(D) \cup ToSet(f.payload)
    BY DEF Handed
  <2> QED
    BY <1>1, <1>2 DEF Handed
<1>4. ASSUME FramesInOrder(D), InOrder(f.payload), Precede(Handed(D), ToSet(f.payload))
      PROVE  FramesInOrder(v)
  <2>1. ASSUME NEW k \in 1..Len(v) PROVE InOrder(v[k].payload)
    BY <1>1, <1>2, <1>4 DEF FramesInOrder
  <2>2. ASSUME NEW k \in 1..Len(v), NEW l \in 1..Len(v), k < l
        PROVE  Precede(ToSet(v[k].payload), ToSet(v[l].payload))
    <3>1. k \in 1..Len(D)
      BY <1>1, <2>2
    <3>2. CASE l = Len(D) + 1
      <4>1. ToSet(D[k].payload) \subseteq Handed(D)
        BY <3>1 DEF Handed
      <4> QED
        BY <1>1, <1>4, <3>1, <3>2, <4>1 DEF Precede
    <3>3. CASE l \in 1..Len(D)
      BY <1>1, <1>4, <2>2, <3>1, <3>3 DEF FramesInOrder
    <3> QED
      BY <1>2, <3>2, <3>3
  <2> QED
    BY <2>1, <2>2 DEF FramesInOrder
<1> QED
  BY <1>1, <1>3, <1>4 DEF v

\* What the compositor took and what waits for it: a frame moves from one to the other,
\* or is added behind both.
LEMMA Queued ==
    ASSUME NEW s \in Seq(Composed), NEW q \in Seq(Composed)
    PROVE  /\ s \o q \in Seq(Composed)
           /\ q # <<>> => /\ Append(s, Head(q)) \in Seq(Composed) /\ Tail(q) \in Seq(Composed)
                          /\ Append(s, Head(q)) \o Tail(q) = s \o q
           /\ \A f \in Composed : /\ Append(q, f) \in Seq(Composed)
                                  /\ s \o Append(q, f) = Append(s \o q, f)
<1>1. s \o q \in Seq(Composed)
  BY ConcatProperties
<1>2. ASSUME q # <<>>
      PROVE  /\ Append(s, Head(q)) \in Seq(Composed) /\ Tail(q) \in Seq(Composed)
             /\ Append(s, Head(q)) \o Tail(q) = s \o q
  <2>1. Head(q) \in Composed /\ Tail(q) \in Seq(Composed) /\ q = <<Head(q)>> \o Tail(q)
    BY <1>2
  <2>2. <<Head(q)>> \in Seq(Composed) /\ Append(s, Head(q)) = s \o <<Head(q)>>
    BY <2>1, AppendIsConcat
  <2>3. (s \o <<Head(q)>>) \o Tail(q) = s \o (<<Head(q)>> \o Tail(q))
    BY <2>1, <2>2, ConcatAssociative
  <2> QED
    BY <2>1, <2>2, <2>3, ConcatProperties
<1>3. ASSUME NEW f \in Composed
      PROVE  Append(q, f) \in Seq(Composed) /\ s \o Append(q, f) = Append(s \o q, f)
  <2>1. <<f>> \in Seq(Composed) /\ Append(q, f) = q \o <<f>> /\ Append(q, f) \in Seq(Composed)
    BY AppendIsConcat, AppendProperties
  <2>2. Append(s \o q, f) = (s \o q) \o <<f>>
    BY <1>1, AppendIsConcat
  <2> QED
    BY <2>1, <2>2, ConcatAssociative
<1> QED
  BY <1>1, <1>2, <1>3

-----------------------------------------------------------------------------
\* Nothing that counts changes but the pipe, which keeps the order of what it keeps.
LEMMA PipeAlone ==
    ASSUME OrderIInv, ClockIInv,
           UNCHANGED <<Decoded, packet_buffer, sent, first_video_pts>>,
           Piped(pipe') \subseteq Piped(pipe), PipeInOrder(pipe')
    PROVE  OrderIInv' /\ ClockIInv'
<1>1. OrderIInv'
  <2>1. /\ FramesInOrder(Decoded') /\ InOrder(packet_buffer') /\ PipeInOrder(pipe')
        /\ Precede(Handed(Decoded'), ToSet(packet_buffer'))
        /\ \A u \in subscribers : sent'[u] <= Len(Video[u])
    BY DEF OrderIInv
  <2>2. Precede(Handed(Decoded') \cup ToSet(packet_buffer'), Piped(pipe'))
    BY DEF OrderIInv, Precede
  <2>3. \A p \in Handed(Decoded') \cup ToSet(packet_buffer') \cup Piped(pipe') : WasSent(p)'
    BY DEF OrderIInv, WasSent
  <2> QED
    BY <2>1, <2>2, <2>3 DEF OrderIInv
<1>2. ClockIInv'
  BY DEF ClockIInv, Senders, OneSender, Clocked
<1> QED
  BY <1>1, <1>2

\* A subscriber is sent a VP8 packet: it comes after all there are of that one. If it is the
\* first of all, nothing has been decoded.
LEMMA VideoSent ==
    ASSUME FullIInv, NEW s \in subscribers, sent[s] < Len(Video[s]),
           sent' = [sent EXCEPT ![s] = @ + 1],
           NEW p, p = Video[s][sent[s] + 1],
           pipe' = Append(pipe, [name |-> "data", stream |-> StreamOf[s], codec |-> "VP8", packet |-> p]),
           UNCHANGED <<Decoded, packet_buffer, first_video_pts>>
    PROVE  OrderIInv' /\ ClockIInv'
<1> DEFINE m == [name |-> "data", stream |-> StreamOf[s], codec |-> "VP8", packet |-> p]
           Under == Handed(Decoded) \cup ToSet(packet_buffer) \cup Piped(pipe)
<1>1. /\ sent \in [subscribers -> Nat] /\ pipe \in Seq(Message)
      /\ \A t \in subscribers : sent[t] <= Len(Video[t])
      /\ \A x \in Under : WasSent(x)
  BY DEF FullIInv, PupIInv, WireTypeOK, OrderIInv
<1>2. /\ sent[s] + 1 \in 1..Len(Video[s]) /\ p \in Packet /\ p.from = s /\ p.seq = sent[s] + 1
  <2>1. Video[s] \in Seq(Packet) /\ sent[s] \in Nat
    BY <1>1, VideoAssumption DEF subscribers
  <2>2. sent[s] + 1 \in 1..Len(Video[s])
    BY <2>1
  <2>3. p.from = s /\ p.seq = sent[s] + 1
    BY <2>2, VideoAssumption DEF subscribers
  <2> QED
    BY <2>1, <2>2, <2>3, ElementOfSeq
<1>3. m \in Message /\ IsVideo(m) /\ m.packet = p
  BY <1>2 DEF Message, IsVideo, streams
<1>4. \A t \in subscribers : sent'[t] = IF t = s THEN sent[s] + 1 ELSE sent[t]
  BY <1>1
<1> HIDE DEF m
<1>5. ASSUME NEW x \in Under PROVE Before(x, p) /\ WasSent(x)'
  <2>1. x.from \in subscribers /\ x.seq \in 1..sent[x.from] /\ x = Video[x.from][x.seq]
    BY <1>1 DEF WasSent
  <2>2. sent[x.from] \in Nat /\ sent[x.from] <= sent'[x.from]
    BY <1>1, <1>4, <2>1
  <2>3. x.seq \in 1..sent'[x.from]
    BY <1>1, <1>4, <2>1
  <2>4. x.from = s => x.seq < sent[s] + 1
    BY <1>1, <2>1
  <2> QED
    BY <1>2, <2>1, <2>3, <2>4 DEF WasSent, Before
<1>6. WasSent(p)'
  <2>1. p.seq \in 1..sent'[s]
    BY <1>1, <1>2, <1>4
  <2> QED
    BY <1>2, <2>1 DEF WasSent
<1>7. pipe' = Append(pipe, m)
  BY DEF m
<1>8. PipeInOrder(pipe') /\ Piped(pipe') \subseteq Piped(pipe) \cup {p}
  <2>1. \A x \in Piped(pipe) : Before(x, m.packet)
    BY <1>3, <1>5
  <2>2. PipeInOrder(pipe)
    BY DEF FullIInv, OrderIInv
  <2> QED
    BY <1>1, <1>3, <1>7, <2>1, <2>2, VideosMore
<1>9. OrderIInv'
  <2>1. /\ FramesInOrder(Decoded') /\ InOrder(packet_buffer')
        /\ Precede(Handed(Decoded'), ToSet(packet_buffer'))
    BY DEF FullIInv, OrderIInv
  <2>2. ASSUME NEW x \in Handed(Decoded') \cup ToSet(packet_buffer'), NEW y \in Piped(pipe')
        PROVE  Before(x, y)
    <3>1. x \in Handed(Decoded) \cup ToSet(packet_buffer) /\ x \in Under
      OBVIOUS
    <3>2. CASE y = p
      BY <1>5, <3>1, <3>2
    <3>3. CASE y \in Piped(pipe)
      BY <3>1, <3>3 DEF FullIInv, OrderIInv, Precede
    <3> QED
      BY <1>8, <3>2, <3>3
  <2>3. \A t \in subscribers : sent'[t] <= Len(Video[t])
    BY <1>1, <1>2, <1>4
  <2>4. \A x \in Handed(Decoded') \cup ToSet(packet_buffer') \cup Piped(pipe') : WasSent(x)'
    BY <1>5, <1>6, <1>8
  <2>5. Precede(Handed(Decoded'), ToSet(packet_buffer'))
        /\ Precede(Handed(Decoded') \cup ToSet(packet_buffer'), Piped(pipe'))
    BY <2>1, <2>2 DEF Precede
  <2> QED
    BY <1>8, <2>1, <2>3, <2>4, <2>5 DEF OrderIInv
<1>10. Senders' \subseteq Senders \cup {s} /\ Senders \cup {s} \subseteq Senders'
  BY <1>1, <1>4 DEF Senders
<1>11. IsFiniteSet(Senders')
  <2>1. IsFiniteSet(Senders)
    BY DEF FullIInv, ClockIInv
  <2>2. Senders' = Senders \cup {s}
    BY <1>10
  <2> QED
    BY <2>1, <2>2, FS_AddElement
<1>12. ASSUME OneSender'
       PROVE  Clocked(Decoded', first_video_pts') /\ (Decoded' # <<>> => first_video_pts' > 0)
  <2>1. PICK t : Senders' = {t}
    BY <1>11, <1>12, FS_Singleton DEF OneSender
  <2>2. CASE OneSender
    BY <2>2 DEF FullIInv, ClockIInv
  <2>3. CASE ~OneSender
    <3>1. \A u \in subscribers : sent[u] > 0 => sent'[u] > 0
      BY <1>1, <1>4
    <3>2. \A u \in subscribers : sent[u] > 0 => Video[u][1].ts > 0
      BY <1>12, <3>1 DEF OneSender
    <3>3. Cardinality(Senders) # 1
      BY <2>3, <3>2 DEF OneSender
    <3>4. Senders = {}
      <4>1. Senders \subseteq {t}
        BY <1>10, <2>1
      <4>2. Senders # {t}
        BY <3>3, FS_Singleton
      <4> QED
        BY <4>1, <4>2
    <3>5. \A u \in subscribers : sent[u] = 0
      BY <1>1, <3>4 DEF Senders
    <3>6. Handed(Decoded) = {}
      <4> SUFFICES ASSUME NEW x \in Handed(Decoded) PROVE FALSE
        OBVIOUS
      <4>1. x.from \in subscribers /\ x.seq \in 1..sent[x.from]
        BY <1>1 DEF WasSent
      <4> QED
        BY <3>5, <4>1
    <3>7. Decoded \in Seq(Composed)
      BY Queued DEF FullIInv, PupTyped, Decoded
    <3>8. Len(Decoded) = 0
      <4> SUFFICES ASSUME Len(Decoded) # 0 PROVE FALSE
        OBVIOUS
      <4>1. 1 \in 1..Len(Decoded) /\ Decoded[1] \in Composed
        BY <3>7
      <4>2. Decoded[1].payload \in Seq(Packet) /\ Len(Decoded[1].payload) > 0
        BY <4>1 DEF FullIInv, ClockIInv, Composed, Ended
      <4>3. 1 \in 1..Len(Decoded[1].payload)
        BY <4>2
      <4>4. Decoded[1].payload[1] \in ToSet(Decoded[1].payload)
        BY <4>2, <4>3, Elements
      <4>5. Decoded[1].payload[1] \in Handed(Decoded)
        BY <4>1, <4>4 DEF Handed
      <4> QED
        BY <3>6, <4>5
    <3>9. Decoded = <<>>
      BY <3>7, <3>8
    <3> QED
      BY <3>8, <3>9 DEF Clocked
  <2> QED
    BY <2>2, <2>3
<1>13. \A k \in 1..Len(Decoded') : Ended(Decoded'[k].payload)
  BY DEF FullIInv, ClockIInv
<1> QED
  BY <1>9, <1>11, <1>12, <1>13 DEF ClockIInv

\* The control thread takes a VP8 packet p from the pipe: q is the buffer with it, cut into
\* v and b, and D is what was decoded with or without a frame made of v.
LEMMA VideoTaken ==
    ASSUME FullIInv, pipe # <<>>, IsVideo(Head(pipe)),
           NEW p, p = Head(pipe).packet, NEW q, q = Append(packet_buffer, p),
           NEW n, NEW v, NEW b, CutAt(q, n, v, b),
           NEW D, NEW pts \in Int,
           D = Decoded \/ D = Append(Decoded, [payload |-> v, pts |-> pts])
    PROVE  /\ p \in Packet
           /\ FramesInOrder(D) /\ InOrder(b) /\ PipeInOrder(Tail(pipe))
           /\ Precede(Handed(D), ToSet(b))
           /\ Precede(Handed(D) \cup ToSet(b), Piped(Tail(pipe)))
           /\ \A x \in Handed(D) \cup ToSet(b) \cup Piped(Tail(pipe)) : WasSent(x)
           /\ \A x \in ToSet(v) : WasSent(x)
<1>1. pipe \in Seq(Message) /\ packet_buffer \in Seq(Packet) /\ Decoded \in Seq(Composed)
  BY Queued DEF FullIInv, PupIInv, WireTypeOK, PupTyped, Decoded
<1>2. /\ Head(pipe) = pipe[1] /\ Head(pipe) \in Message /\ 1 \in 1..Len(pipe)
      /\ Tail(pipe) \in Seq(Message) /\ Len(Tail(pipe)) \in Nat
      /\ \A i \in 1..Len(Tail(pipe)) : i + 1 \in 1..Len(pipe) /\ Tail(pipe)[i] = pipe[i + 1]
  BY <1>1, PipeShrinks
<1>3. p \in Packet /\ 1 \in Videos(pipe) /\ p \in Piped(pipe)
  <2>1. p \in Packet
    BY <1>2, MessageFields DEF IsVideo
  <2>2. 1 \in Videos(pipe)
    BY <1>2 DEF Videos
  <2> QED
    BY <1>2, <2>1, <2>2 DEF Piped
<1>4. /\ FramesInOrder(Decoded) /\ InOrder(packet_buffer) /\ PipeInOrder(pipe)
      /\ Precede(Handed(Decoded), ToSet(packet_buffer))
      /\ Precede(Handed(Decoded) \cup ToSet(packet_buffer), Piped(pipe))
      /\ \A x \in Handed(Decoded) \cup ToSet(packet_buffer) \cup Piped(pipe) : WasSent(x)
  BY DEF FullIInv, OrderIInv
<1>5. Piped(Tail(pipe)) \subseteq Piped(pipe) /\ PipeInOrder(Tail(pipe))
  BY <1>2, <1>4, VideosLeft
<1>6. \A y \in Piped(Tail(pipe)) : Before(p, y)
  <2> SUFFICES ASSUME NEW i \in Videos(Tail(pipe)) PROVE Before(p, Tail(pipe)[i].packet)
    BY DEF Piped
  <2>1. i \in 1..Len(Tail(pipe)) /\ i + 1 \in Videos(pipe) /\ Tail(pipe)[i] = pipe[i + 1]
    BY <1>2 DEF Videos
  <2>2. 1 < i + 1
    BY <1>2, <2>1
  <2> QED
    BY <1>2, <1>3, <1>4, <2>1, <2>2 DEF PipeInOrder
<1>7. /\ q \in Seq(Packet) /\ Len(q) \in Nat /\ InOrder(q)
      /\ ToSet(q) \subseteq ToSet(packet_buffer) \cup {p}
  <2>1. \A x \in ToSet(packet_buffer) : Before(x, p)
    BY <1>3, <1>4 DEF Precede
  <2> QED
    BY <1>1, <1>3, <1>4, <2>1, OneMorePacket
<1>8. Precede(Handed(Decoded), ToSet(q))
  BY <1>3, <1>4, <1>7 DEF Precede
<1>9. /\ InOrder(v) /\ InOrder(b)
      /\ ToSet(v) \subseteq ToSet(q) /\ ToSet(b) \subseteq ToSet(q)
      /\ Precede(ToSet(v), ToSet(b))
  BY <1>7, Cut
<1>10. FramesInOrder(D) /\ Handed(D) \subseteq Handed(Decoded) \cup ToSet(v)
  <2>1. CASE D = Decoded
    BY <1>4, <2>1
  <2>2. CASE D = Append(Decoded, [payload |-> v, pts |-> pts])
    <3> DEFINE f == [payload |-> v, pts |-> pts]
    <3>1. f \in Composed /\ f.payload = v
      BY DEF Composed, CutAt
    <3>2. Precede(Handed(Decoded), ToSet(v))
      BY <1>8, <1>9 DEF Precede
    <3> HIDE DEF f
    <3>3. D = Append(Decoded, f)
      BY <2>2 DEF f
    <3>4. InOrder(f.payload) /\ Precede(Handed(Decoded), ToSet(f.payload))
      BY <1>9, <3>1, <3>2
    <3> QED
      BY <1>1, <1>4, <3>1, <3>3, <3>4, OneMoreFrame
  <2> QED
    BY <2>1, <2>2
<1>11. Precede(Handed(D), ToSet(b))
  BY <1>8, <1>9, <1>10 DEF Precede
<1>12. Precede(Handed(D) \cup ToSet(b), Piped(Tail(pipe)))
  <2> SUFFICES ASSUME NEW x \in Handed(D) \cup ToSet(b), NEW y \in Piped(Tail(pipe))
               PROVE  Before(x, y)
    BY DEF Precede
  <2>1. x \in Handed(Decoded) \cup ToSet(packet_buffer) \cup {p} /\ y \in Piped(pipe)
    BY <1>5, <1>7, <1>9, <1>10
  <2>2. CASE x = p
    BY <1>6, <2>2
  <2>3. CASE x # p
    BY <1>4, <2>1, <2>3 DEF Precede
  <2> QED
    BY <2>2, <2>3
<1>13. \A x \in Handed(D) \cup ToSet(b) \cup Piped(Tail(pipe)) \cup ToSet(v) : WasSent(x)
  BY <1>3, <1>4, <1>5, <1>7, <1>9, <1>10
<1> QED
  BY <1>3, <1>5, <1>9, <1>10, <1>11, <1>12, <1>13

\* The clock of one subscriber: a packet it was sent is no older than its first.
LEMMA TimeSent ==
    ASSUME FullIInv, OneSender, NEW x \in Packet, WasSent(x)
    PROVE  x.ts > 0
<1> DEFINE s == x.from
<1>1. s \in subscribers /\ x.seq \in 1..sent[s] /\ x = Video[s][x.seq]
  BY DEF WasSent
<1>2. sent[s] \in Nat /\ sent[s] <= Len(Video[s]) /\ Video[s] \in Seq(Packet)
  BY <1>1, VideoAssumption DEF FullIInv, PupIInv, WireTypeOK, OrderIInv, subscribers
<1>3. 1 \in 1..Len(Video[s]) /\ x.seq \in 1..Len(Video[s]) /\ sent[s] > 0
  BY <1>1, <1>2
<1>4. Video[s][1].ts > 0
  BY <1>1, <1>3 DEF OneSender
<1>5. Video[s][1].ts \in Nat /\ x.ts \in Nat
  BY <1>2, <1>3, PacketAssumption, ElementOfSeq
<1>6. x.seq = 1 \/ 1 < x.seq
  BY <1>1
<1>7. CASE x.seq = 1
  BY <1>1, <1>4, <1>7
<1>8. CASE 1 < x.seq
  <2>1. Video[s][1].ts <= Video[s][x.seq].ts
    BY <1>1, <1>3, <1>8, ClockAssumption DEF subscribers
  <2> QED
    BY <1>1, <1>4, <1>5, <2>1
<1> QED
  BY <1>6, <1>7, <1>8

-----------------------------------------------------------------------------
\* The network source gets the frame that a push cut off the buffer.
LEMMA VideoPushed ==
    ASSUME FullIInv, handle_message, IsVideo(Head(pipe)), Known(Head(pipe)),
           Pushed(Head(pipe).packet).frames # <<>>
    PROVE  PupTyped' /\ OrderIInv' /\ ClockIInv'
<1> DEFINE m == Head(pipe)
<1>1. PICK p : p = Head(pipe).packet
  OBVIOUS
<1>2. PICK q : q = Append(packet_buffer, p)
  OBVIOUS
<1>3. PICK r : r = Pushed(p)
  OBVIOUS
<1>4. /\ pipe # <<>> /\ pipe' = Tail(pipe) /\ fault = "none" /\ handle_rtp(m)
      /\ UNCHANGED <<sent, shown>>
  BY DEF handle_message, IsVideo, dogbone
<1>5. PupTyped /\ pipe \in Seq(Message)
  BY DEF FullIInv, PupIInv, WireTypeOK
<1>6. p \in Packet
  BY <1>1, <1>4, <1>5, PipeShrinks, MessageFields DEF IsVideo
<1>7. /\ r.seen \in BOOLEAN /\ r.fault \in {"none", "overrun"}
      /\ \E n, v : Outcome(r, q, p, has_first_keyframe, n, v)
  BY <1>2, <1>3, <1>5, <1>6, PushedCuts DEF PupTyped
<1>8. PICK n, v : /\ CutAt(q, n, v, r.buffer) /\ n > 0 /\ v[n].m
                  /\ r.frames = <<[payload |-> v, pts |-> v[1].ts]>>
  BY <1>1, <1>3, <1>7 DEF Outcome, PushWaits, PushRefuses, PushTakes
<1>9. /\ UNCHANGED encoded_fifo
      /\ packet_buffer' = r.buffer /\ has_first_keyframe' = r.seen
      /\ fault' \in {"null_context", r.fault}
      /\ push_video(r.frames[1])
  BY <1>1, <1>3, <1>4, <1>8 DEF handle_rtp, FaultOf, IsVideo
<1>10. /\ q \in Seq(Packet) /\ v \in Seq(Packet) /\ Len(v) = n /\ r.buffer \in Seq(Packet)
       /\ 1 \in 1..Len(v) /\ v[1] \in Packet /\ v[1].ts \in Nat /\ v[1] \in ToSet(v)
  <2>1. q \in Seq(Packet)
    BY <1>2, <1>5, <1>6, AppendProperties DEF PupTyped
  <2>2. v \in Seq(Packet) /\ Len(v) = n /\ r.buffer \in Seq(Packet)
    BY <1>8 DEF CutAt
  <2>3. 1 \in 1..Len(v)
    BY <1>8, <2>2
  <2>4. v[1] \in Packet /\ v[1] \in ToSet(v)
    BY <2>2, <2>3, Elements
  <2> QED
    BY <2>1, <2>2, <2>3, <2>4, PacketAssumption
<1>11. first_video_pts \in Nat
  BY <1>5 DEF PupTyped
<1>12. PICK pts : pts = IF first_video_pts > 0 THEN v[1].ts - first_video_pts ELSE 0
  OBVIOUS
<1>13. pts \in Int
  BY <1>10, <1>11, <1>12
<1>14. /\ first_video_pts' = IF first_video_pts > 0 THEN first_video_pts ELSE v[1].ts
       /\ \/ UNCHANGED <<video_codec_context, video_frame_fifo>>
          \/ /\ video_codec_context' = "primed"
             /\ video_frame_fifo' = Append(video_frame_fifo, [payload |-> v, pts |-> pts])
       /\ UNCHANGED <<audio_codec_context, audio_fifo>>
  <2>1. r.frames[1] = [payload |-> v, pts |-> v[1].ts]
    BY <1>8
  <2> QED
    BY <1>9, <1>12, <2>1 DEF push_video
<1>15. [payload |-> v, pts |-> pts] \in Composed
  BY <1>10, <1>13 DEF Composed
<1>16. shown \in Seq(Composed) /\ video_frame_fifo \in Seq(Composed)
       /\ Decoded \in Seq(Composed)
  BY <1>5, Queued DEF PupTyped, Decoded
<1>17. /\ video_frame_fifo' \in Seq(Composed)
       /\ Decoded' = Decoded \/ Decoded' = Append(Decoded, [payload |-> v, pts |-> pts])
  <2>1. CASE video_frame_fifo' = video_frame_fifo
    BY <1>4, <1>16, <2>1 DEF Decoded
  <2>2. CASE video_frame_fifo' = Append(video_frame_fifo, [payload |-> v, pts |-> pts])
    <3>1. /\ Append(video_frame_fifo, [payload |-> v, pts |-> pts]) \in Seq(Composed)
          /\ shown \o Append(video_frame_fifo, [payload |-> v, pts |-> pts])
               = Append(shown \o video_frame_fifo, [payload |-> v, pts |-> pts])
      BY <1>15, <1>16, Queued
    <3> QED
      BY <1>4, <2>2, <3>1 DEF Decoded
  <2> QED
    BY <1>14, <2>1, <2>2
<1>18. PupTyped'
  <2>1. first_video_pts' \in Nat
    BY <1>10, <1>11, <1>14
  <2>2. fault' \in {"none", "null_packet", "overrun", "null_context", "null_codec"}
    BY <1>7, <1>9
  <2>3. video_codec_context' \in {"null", "closed", "new", "primed"}
    BY <1>5, <1>14 DEF PupTyped
  <2>4. /\ packet_buffer' \in Seq(Packet) /\ encoded_fifo' = <<>>
        /\ has_first_keyframe' \in BOOLEAN
    BY <1>5, <1>7, <1>9, <1>10 DEF PupTyped
  <2>5. audio_codec_context' \in {"null", "closed", "open"} /\ audio_fifo' \in Nat /\ shown' \in Seq(Composed)
    BY <1>4, <1>5, <1>14 DEF PupTyped
  <2> QED
    BY <1>17, <2>1, <2>2, <2>3, <2>4, <2>5 DEF PupTyped
<1>19. PICK D : D = Decoded'
  OBVIOUS
<1>20. /\ FramesInOrder(D) /\ InOrder(r.buffer) /\ PipeInOrder(Tail(pipe))
       /\ Precede(Handed(D), ToSet(r.buffer))
       /\ Precede(Handed(D) \cup ToSet(r.buffer), Piped(Tail(pipe)))
       /\ \A x \in Handed(D) \cup ToSet(r.buffer) \cup Piped(Tail(pipe)) : WasSent(x)
       /\ \A x \in ToSet(v) : WasSent(x)
  BY <1>1, <1>2, <1>4, <1>8, <1>13, <1>17, <1>19, VideoTaken
<1>21. OrderIInv'
  <2>1. \A x : WasSent(x)' <=> WasSent(x)
    BY <1>4 DEF WasSent
  <2>2. \A u \in subscribers : sent'[u] <= Len(Video[u])
    BY <1>4 DEF FullIInv, OrderIInv
  <2> QED
    BY <1>4, <1>9, <1>19, <1>20, <2>1, <2>2 DEF OrderIInv
<1>22. ClockIInv'
  <2>1. ClockIInv
    BY DEF FullIInv
  <2>2. Senders' = Senders /\ (OneSender' <=> OneSender)
    BY <1>4 DEF Senders, OneSender
  <2>3. Ended(v)
    BY <1>8, <1>10 DEF Ended
  <2>4. CASE D = Decoded
    <3>1. OneSender => Clocked(D, first_video_pts') /\ (D # <<>> => first_video_pts' > 0)
      <4>1. CASE first_video_pts > 0
        BY <1>14, <2>1, <2>4, <4>1 DEF ClockIInv
      <4>2. CASE ~(first_video_pts > 0)
        <5>1. OneSender => D = <<>>
          BY <2>1, <2>4, <4>2 DEF ClockIInv
        <5> QED
          BY <5>1 DEF Clocked
      <4> QED
        BY <4>1, <4>2
    <3> QED
      BY <1>19, <2>1, <2>2, <2>4, <3>1 DEF ClockIInv
  <2>5. CASE D = Append(Decoded, [payload |-> v, pts |-> pts])
    <3> DEFINE f == [payload |-> v, pts |-> pts]
    <3>1. /\ D \in Seq(Composed) /\ Len(D) = Len(Decoded) + 1 /\ D[Len(Decoded) + 1] = f
          /\ \A k \in 1..Len(Decoded) : D[k] = Decoded[k]
      BY <1>15, <1>16, <2>5, OneMoreFrame
    <3>2. \A k \in 1..Len(D) : k \in 1..Len(Decoded) \/ D[k] = f
      BY <1>16, <3>1
    <3>3. f.payload = v /\ f.pts = pts
      OBVIOUS
    <3> HIDE DEF f
    <3>4. \A k \in 1..Len(D) : Ended(D[k].payload)
      BY <2>1, <2>3, <3>1, <3>2, <3>3 DEF ClockIInv
    <3>5. ASSUME OneSender
          PROVE  Clocked(D, first_video_pts') /\ first_video_pts' > 0
      <4>1. v[1].ts > 0
        BY <1>10, <1>20, <3>5, TimeSent
      <4>2. first_video_pts' > 0 /\ pts = v[1].ts - first_video_pts'
        BY <1>10, <1>11, <1>12, <1>14, <4>1
      <4>3. ASSUME NEW k \in 1..Len(Decoded)
            PROVE  Decoded[k].pts = Decoded[k].payload[1].ts - first_video_pts'
        <5>1. Decoded # <<>>
          BY <1>16, <4>3
        <5>2. first_video_pts' = first_video_pts
          BY <1>14, <2>1, <3>5, <5>1 DEF ClockIInv
        <5> QED
          BY <2>1, <3>5, <5>2 DEF ClockIInv, Clocked
      <4> QED
        BY <3>1, <3>2, <3>3, <4>2, <4>3 DEF Clocked
    <3> QED
      BY <1>19, <2>1, <2>2, <3>4, <3>5 DEF ClockIInv
  <2> QED
    BY <1>17, <1>19, <2>4, <2>5
<1> QED
  BY <1>18, <1>21, <1>22

\* The buffer changes, and no frame comes out.
LEMMA VideoBuffered ==
    ASSUME FullIInv, handle_message, IsVideo(Head(pipe)), Known(Head(pipe)),
           Pushed(Head(pipe).packet).frames = <<>>
    PROVE  PupTyped' /\ OrderIInv' /\ ClockIInv'
<1> DEFINE m == Head(pipe)
<1>1. PICK p : p = Head(pipe).packet
  OBVIOUS
<1>2. PICK q : q = Append(packet_buffer, p)
  OBVIOUS
<1>3. PICK r : r = Pushed(p)
  OBVIOUS
<1>4. /\ pipe # <<>> /\ pipe' = Tail(pipe) /\ fault = "none" /\ handle_rtp(m)
      /\ UNCHANGED <<sent, shown>>
  BY DEF handle_message, IsVideo, dogbone
<1>5. PupTyped /\ pipe \in Seq(Message)
  BY DEF FullIInv, PupIInv, WireTypeOK
<1>6. p \in Packet
  BY <1>1, <1>4, <1>5, PipeShrinks, MessageFields DEF IsVideo
<1>7. /\ r.seen \in BOOLEAN /\ r.fault \in {"none", "overrun"}
      /\ \E n, v : Outcome(r, q, p, has_first_keyframe, n, v)
  BY <1>2, <1>3, <1>5, <1>6, PushedCuts DEF PupTyped
<1>8. PICK n, v : CutAt(q, n, v, r.buffer)
  BY <1>7 DEF Outcome
<1>9. /\ UNCHANGED <<encoded_fifo, source>>
      /\ packet_buffer' = r.buffer /\ has_first_keyframe' = r.seen /\ fault' = r.fault
  BY <1>1, <1>3, <1>4 DEF handle_rtp, IsVideo
<1>10. PupTyped'
  BY <1>4, <1>5, <1>7, <1>8, <1>9 DEF PupTyped, source, CutAt
<1>11. Decoded' = Decoded /\ first_video_pts' = first_video_pts
  BY <1>4, <1>9 DEF Decoded, source
<1>12. /\ FramesInOrder(Decoded) /\ InOrder(r.buffer) /\ PipeInOrder(Tail(pipe))
       /\ Precede(Handed(Decoded), ToSet(r.buffer))
       /\ Precede(Handed(Decoded) \cup ToSet(r.buffer), Piped(Tail(pipe)))
       /\ \A x \in Handed(Decoded) \cup ToSet(r.buffer) \cup Piped(Tail(pipe)) : WasSent(x)
  <2>1. 0 \in Int
    OBVIOUS
  <2> QED
    BY <1>1, <1>2, <1>4, <1>8, <2>1, VideoTaken
<1>13. OrderIInv'
  <2>1. \A x : WasSent(x)' <=> WasSent(x)
    BY <1>4 DEF WasSent
  <2>2. \A u \in subscribers : sent'[u] <= Len(Video[u])
    BY <1>4 DEF FullIInv, OrderIInv
  <2> QED
    BY <1>4, <1>9, <1>11, <1>12, <2>1, <2>2 DEF OrderIInv
<1>14. ClockIInv'
  BY <1>4, <1>11 DEF FullIInv, ClockIInv, Senders, OneSender, Clocked
<1> QED
  BY <1>10, <1>13, <1>14

\* The control thread takes a message and handles it.
LEMMA HandlingInOrder ==
    ASSUME FullIInv, handle_message
    PROVE  PupTyped' /\ OrderIInv' /\ ClockIInv'
<1> DEFINE m == Head(pipe)
<1>1. /\ pipe # <<>> /\ pipe' = Tail(pipe) /\ UNCHANGED <<sent, shown>>
      /\ PupTyped /\ OrderIInv /\ ClockIInv /\ pipe \in Seq(Message)
  BY DEF handle_message, dogbone, FullIInv, PupIInv, WireTypeOK
<1>2. m \in Message /\ m.name \in {"offer", "data"}
  BY <1>1, PipeShrinks, MessageFields
<1>3. Piped(pipe') \subseteq Piped(pipe) /\ PipeInOrder(pipe')
  <2>1. \A i \in 1..Len(pipe') : i + 1 \in 1..Len(pipe) /\ pipe'[i] = pipe[i + 1]
    BY <1>1, PipeShrinks
  <2> QED
    BY <1>1, <2>1, VideosLeft DEF OrderIInv
<1>4. CASE m.name = "offer"
  <2>1. /\ UNCHANGED depacketizer /\ setup_streams
    BY <1>4 DEF handle_message, handle_offer
  <2>2. PupTyped'
    BY <1>1, <2>1 DEF PupTyped, setup_streams, ClockKept, depacketizer
  <2>3. UNCHANGED <<Decoded, packet_buffer, sent, first_video_pts>>
    BY <1>1, <2>1 DEF Decoded, setup_streams, ClockKept, depacketizer
  <2> QED
    BY <1>1, <1>3, <2>2, <2>3, PipeAlone
<1>5. CASE m.name = "data" /\ ~(Known(m) /\ m.codec \in {"VP8", "opus"})
  <2>1. UNCHANGED <<depacketizer, fault, source>>
    BY <1>5 DEF handle_message, handle_rtp
  <2>2. PupTyped'
    BY <1>1, <2>1 DEF PupTyped, source, depacketizer
  <2>3. UNCHANGED <<Decoded, packet_buffer, sent, first_video_pts>>
    BY <1>1, <2>1 DEF Decoded, source, depacketizer
  <2> QED
    BY <1>1, <1>3, <2>2, <2>3, PipeAlone
<1>6. CASE m.name = "data" /\ Known(m) /\ m.codec = "opus"
  <2>1. /\ UNCHANGED <<depacketizer, video_codec_context, audio_codec_context,
                       first_video_pts, video_frame_fifo>>
        /\ fault' \in {fault, "null_context"} /\ audio_fifo' \in {audio_fifo, audio_fifo + 1}
    BY <1>6 DEF handle_message, handle_rtp, FaultOf
  <2>2. PupTyped'
    BY <1>1, <2>1 DEF PupTyped, depacketizer
  <2>3. UNCHANGED <<Decoded, packet_buffer, sent, first_video_pts>>
    BY <1>1, <2>1 DEF Decoded, depacketizer
  <2> QED
    BY <1>1, <1>3, <2>2, <2>3, PipeAlone
<1>7. CASE m.name = "data" /\ Known(m) /\ m.codec = "VP8"
  BY <1>7, VideoPushed, VideoBuffered DEF IsVideo
<1> QED
  BY <1>2, <1>4, <1>5, <1>6, <1>7

\* A message that is no VP8 packet goes into the pipe.
LEMMA OtherSent ==
    ASSUME FullIInv, NEW m \in Message, ~IsVideo(m), pipe' = Append(pipe, m),
           UNCHANGED <<Decoded, packet_buffer, sent, first_video_pts>>
    PROVE  OrderIInv' /\ ClockIInv'
<1>1. pipe \in Seq(Message) /\ OrderIInv /\ ClockIInv
  BY DEF FullIInv, PupIInv, WireTypeOK
<1>2. Piped(pipe') \subseteq Piped(pipe) /\ PipeInOrder(pipe')
  BY <1>1, VideosMore DEF OrderIInv
<1> QED
  BY <1>1, <1>2, PipeAlone

LEMMA NoElements == ToSet(<<>>) = {}
BY DEF ToSet

\* One case per action.
LEMMA FullStep == FullIInv /\ [PupNext]_pupVars => FullIInv'
<1> SUFFICES ASSUME FullIInv, [PupNext]_pupVars PROVE PupTyped' /\ OrderIInv' /\ ClockIInv'
  BY PupInvStep DEF FullIInv
<1>1. /\ PupTyped /\ OrderIInv /\ ClockIInv /\ pipe \in Seq(Message)
      /\ negotiated \in [subscribers -> SUBSET Codecs]
  BY DEF FullIInv, PupIInv, WireTypeOK
<1>2. ASSUME UNCHANGED <<depacketizer, fault, source, shown>>
      PROVE  /\ PupTyped'
             /\ UNCHANGED <<Decoded, packet_buffer, first_video_pts>>
  BY <1>1, <1>2 DEF PupTyped, depacketizer, source, Decoded
<1>3. ASSUME NEW u \in subscribers, NEW C \in Offers, OnOffer(u, C)
      PROVE  PupTyped' /\ OrderIInv' /\ ClockIInv'
  <2> DEFINE m == [name |-> "offer", stream |-> StreamOf[u], codecs |-> C]
  <2>1. m \in Message /\ ~IsVideo(m)
    BY DEF Message, Codecs, IsVideo, streams
  <2>2. pipe' = Append(pipe, m) /\ UNCHANGED <<sent, depacketizer, fault, source, shown>>
    BY <1>3 DEF OnOffer, sendControlMessage
  <2> QED
    BY <1>2, <2>1, <2>2, OtherSent
<1>4. ASSUME NEW u \in subscribers, OnAnswer(u)
      PROVE  PupTyped' /\ OrderIInv' /\ ClockIInv'
  <2>1. UNCHANGED <<pipe, sent, depacketizer, fault, source, shown>>
    BY <1>4 DEF OnAnswer
  <2>2. Piped(pipe') \subseteq Piped(pipe) /\ PipeInOrder(pipe')
    BY <1>1, <2>1 DEF OrderIInv
  <2> QED
    BY <1>1, <1>2, <2>1, <2>2, PipeAlone
<1>5. ASSUME NEW u \in subscribers, OnPacket(u)
      PROVE  PupTyped' /\ OrderIInv' /\ ClockIInv'
  <2>1. UNCHANGED <<depacketizer, fault, source, shown>>
    BY <1>5 DEF OnPacket
  <2>2. CASE /\ sent[u] < Len(Video[u])
             /\ sent' = [sent EXCEPT ![u] = @ + 1]
             /\ sendControlMessage([name |-> "data", stream |-> StreamOf[u], codec |-> "VP8",
                                    packet |-> Video[u][sent[u] + 1]])
    <3>1. PICK p : p = Video[u][sent[u] + 1]
      OBVIOUS
    <3>2. pipe' = Append(pipe, [name |-> "data", stream |-> StreamOf[u], codec |-> "VP8", packet |-> p])
      BY <2>2, <3>1 DEF sendControlMessage
    <3> QED
      BY <1>2, <2>1, <2>2, <3>1, <3>2, VideoSent
  <2>3. CASE /\ UNCHANGED sent
             /\ \E c \in negotiated[u] \ {"VP8"} :
                   sendControlMessage([name |-> "data", stream |-> StreamOf[u], codec |-> c])
    <3>1. PICK c \in negotiated[u] \ {"VP8"} :
              sendControlMessage([name |-> "data", stream |-> StreamOf[u], codec |-> c])
      BY <2>3
    <3> DEFINE m == [name |-> "data", stream |-> StreamOf[u], codec |-> c]
    <3>2. c \in Codecs \ {"VP8"}
      BY <1>1
    <3>3. m \in Message /\ ~IsVideo(m)
      BY <3>2 DEF Message, IsVideo, streams
    <3>4. pipe' = Append(pipe, m)
      BY <3>1 DEF sendControlMessage
    <3> QED
      BY <1>2, <2>1, <2>3, <3>3, <3>4, OtherSent
  <2> QED
    BY <1>5, <2>2, <2>3 DEF OnPacket
<1>6. CASE handle_message
  BY <1>6, HandlingInOrder
<1>7. CASE media_stream_video_callback
  <2>1. /\ video_frame_fifo # <<>> /\ video_frame_fifo' = Tail(video_frame_fifo)
        /\ shown' = Append(shown, Head(video_frame_fifo))
        /\ UNCHANGED <<sent, pipe, depacketizer, fault, video_codec_context,
                       audio_codec_context, first_video_pts, audio_fifo>>
    BY <1>7 DEF media_stream_video_callback, dogbone
  <2>2. shown' \in Seq(Composed) /\ video_frame_fifo' \in Seq(Composed) /\ Decoded' = Decoded
    BY <1>1, <2>1, Queued DEF PupTyped, Decoded
  <2>3. PupTyped'
    BY <1>1, <2>1, <2>2 DEF PupTyped, depacketizer
  <2>4. Piped(pipe') \subseteq Piped(pipe) /\ PipeInOrder(pipe')
    BY <1>1, <2>1 DEF OrderIInv
  <2> QED
    BY <1>1, <2>1, <2>2, <2>3, <2>4, PipeAlone DEF depacketizer
<1>8. CASE media_stream_audio_callback
  <2>1. /\ audio_fifo > 0 /\ audio_fifo' = audio_fifo - 1
        /\ UNCHANGED <<sent, pipe, depacketizer, fault, video_codec_context, shown,
                       audio_codec_context, first_video_pts, video_frame_fifo>>
    BY <1>8 DEF media_stream_audio_callback, dogbone
  <2>2. audio_fifo' \in Nat
    BY <1>1, <2>1 DEF PupTyped
  <2>3. PupTyped'
    BY <1>1, <2>1, <2>2 DEF PupTyped, depacketizer
  <2>4. Piped(pipe') \subseteq Piped(pipe) /\ PipeInOrder(pipe')
    BY <1>1, <2>1 DEF OrderIInv
  <2>5. UNCHANGED <<Decoded, packet_buffer, sent, first_video_pts>>
    BY <2>1 DEF Decoded, depacketizer
  <2> QED
    BY <1>1, <2>3, <2>4, <2>5, PipeAlone
<1>9. CASE Restart
  <2>1. /\ packet_buffer' = <<>> /\ shown' = <<>> /\ video_frame_fifo' = <<>>
        /\ UNCHANGED <<sent, encoded_fifo>>
        /\ fault' = "none" /\ video_codec_context' = "null" /\ first_video_pts' = 0
        /\ audio_fifo' = 0 /\ audio_codec_context' = "null"
    BY <1>9 DEF Restart, dogbone
  <2>2. has_first_keyframe' \in BOOLEAN
    BY <1>9, Zenon DEF Restart
  <2>3. /\ <<>> \in Seq(Composed) /\ <<>> \in Seq(Packet)
        /\ Len(<<>>) = 0
    BY EmptySeq
  <2>4. PupTyped'
    BY <1>1, <2>1, <2>2, <2>3 DEF PupTyped
  <2>5. Decoded' = <<>>
    BY <2>1, <2>3, ConcatEmptySeq DEF Decoded
  <2>6. Handed(Decoded') = {} /\ ToSet(packet_buffer') = {}
    <3>1. Handed(Decoded') = {}
      BY <2>3, <2>5 DEF Handed
    <3> QED
      BY <2>1, <3>1, NoElements
  <2>7. Piped(pipe') \subseteq Piped(pipe) /\ PipeInOrder(pipe')
    <3>1. PICK n \in 0..Len(pipe) : pipe' = SubSeq(pipe, n + 1, Len(pipe))
      BY <1>9 DEF Restart
    <3>2. n \in Nat /\ Len(pipe) \in Nat /\ n <= Len(pipe)
      BY <1>1, <3>1
    <3>3. \A i \in (n + 1)..Len(pipe) : pipe[i] \in Message
      BY <1>1, <3>2
    <3>4. /\ Len(pipe') = IF n + 1 <= Len(pipe) THEN Len(pipe) - (n + 1) + 1 ELSE 0
          /\ \A i \in 1..(Len(pipe) - (n + 1) + 1) : pipe'[i] = pipe[(n + 1) + i - 1]
      BY <3>1, <3>2, <3>3, SubSeqProperties
    <3>5. \A i \in 1..Len(pipe') : i + n \in 1..Len(pipe) /\ pipe'[i] = pipe[i + n]
      BY <3>2, <3>4
    <3> QED
      BY <1>1, <3>2, <3>5, VideosLeft DEF OrderIInv
  <2>8. OrderIInv'
    <3>1. FramesInOrder(Decoded') /\ InOrder(packet_buffer')
      BY <2>1, <2>3, <2>5 DEF FramesInOrder, InOrder
    <3>2. /\ Precede(Handed(Decoded'), ToSet(packet_buffer'))
          /\ Precede(Handed(Decoded') \cup ToSet(packet_buffer'), Piped(pipe'))
      BY <2>6 DEF Precede
    <3>3. \A u \in subscribers : sent'[u] <= Len(Video[u])
      BY <1>1, <2>1 DEF OrderIInv
    <3>4. \A x \in Handed(Decoded') \cup ToSet(packet_buffer') \cup Piped(pipe') : WasSent(x)'
      BY <1>1, <2>1, <2>6, <2>7 DEF OrderIInv, WasSent
    <3> QED
      BY <2>7, <3>1, <3>2, <3>3, <3>4 DEF OrderIInv
  <2>9. ClockIInv'
    BY <1>1, <2>1, <2>3, <2>5 DEF ClockIInv, Senders, OneSender, Clocked
  <2> QED
    BY <2>4, <2>8, <2>9
<1>10. CASE UNCHANGED pupVars
  <2>1. UNCHANGED <<pipe, sent, depacketizer, fault, source, shown>>
    BY <1>10 DEF pupVars, dogbone
  <2>2. Piped(pipe') \subseteq Piped(pipe) /\ PipeInOrder(pipe')
    BY <1>1, <2>1 DEF OrderIInv
  <2> QED
    BY <1>1, <1>2, <2>1, <2>2, PipeAlone
<1> QED
  BY <1>3, <1>4, <1>5, <1>6, <1>7, <1>8, <1>9, <1>10 DEF PupNext

\* At the start there is nothing to be in order.
LEMMA FullInit == PupInit => FullIInv
<1> SUFFICES ASSUME PupInit PROVE PupTyped /\ OrderIInv /\ ClockIInv
  BY PupInvInit DEF FullIInv
<1>1. /\ packet_buffer = <<>> /\ encoded_fifo = <<>> /\ shown = <<>> /\ video_frame_fifo = <<>>
      /\ pipe = <<>> /\ fault = "none" /\ video_codec_context = "null" /\ audio_codec_context = "null"
      /\ first_video_pts = 0 /\ audio_fifo = 0 /\ sent = [u \in subscribers |-> 0]
  BY DEF PupInit, Init
<1>2. has_first_keyframe \in BOOLEAN
  BY Zenon DEF PupInit, Init
<1>3. <<>> \in Seq(Composed) /\ <<>> \in Seq(Packet) /\ Len(<<>>) = 0
  BY EmptySeq
<1>4. Decoded = <<>>
  BY <1>1, <1>3, ConcatEmptySeq DEF Decoded
<1>5. Handed(Decoded) = {} /\ Piped(pipe) = {} /\ ToSet(packet_buffer) = {}
  <2>1. Handed(Decoded) = {} /\ Piped(pipe) = {}
    BY <1>1, <1>3, <1>4 DEF Handed, Piped, Videos
  <2> QED
    BY <1>1, <2>1, NoElements
<1>6. \A u \in subscribers : sent[u] = 0 /\ sent[u] <= Len(Video[u])
  <2>1. \A u \in subscribers : Len(Video[u]) \in Nat
    BY VideoAssumption DEF subscribers
  <2> QED
    BY <1>1, <2>1
<1>7. OrderIInv
  BY <1>1, <1>3, <1>4, <1>5, <1>6 DEF OrderIInv, FramesInOrder, InOrder, PipeInOrder,
     Videos, Precede
<1>8. ClockIInv
  <2>1. Senders = {}
    BY <1>6 DEF Senders
  <2> QED
    BY <1>3, <1>4, <2>1, FS_EmptySet DEF ClockIInv, Clocked
<1> QED
  BY <1>1, <1>2, <1>3, <1>7, <1>8 DEF PupTyped

\* The invariant of types, order and clock.
LEMMA FullInvariant == PupSpec => []FullIInv
  BY FullInit, FullStep, PTL DEF PupSpec

-----------------------------------------------------------------------------
\* What pup holds keeps its types, for any subscribers, offers and restarts: the frames that
\* were decoded are made of packets, and the clock never leaves the integers.
THEOREM PupTypes == PupSpec => []PupTypeOK
<1>1. FullIInv => PupTypeOK
  <2> SUFFICES ASSUME FullIInv PROVE PupTypeOK
    OBVIOUS
  <2>1. PupTyped /\ stream_attrs \in [streams -> SUBSET Codecs]
    BY DEF FullIInv, PupIInv, WireTypeOK
  <2>2. Decoded \in Seq(Composed)
    BY <2>1, Queued DEF PupTyped, Decoded
  <2>3. \A i \in DOMAIN Decoded : Decoded[i].payload \in Seq(Packet) /\ Decoded[i].pts \in Int
    <3>1. \A i \in DOMAIN Decoded : Decoded[i] \in Composed
      BY <2>2
    <3> QED
      BY <3>1 DEF Composed
  <2> QED
    BY <2>1, <2>3 DEF PupTypeOK, PupTyped
<1> QED
  BY <1>1, FullInvariant, PTL

\* The packets each subscriber is sent reach the compositor in that order and once,
\* whatever subscribers are joined in the one depacketizer, and however often pup restarts.
\* (A stream that two subscribers have comes twice.)
THEOREM StreamsStayInOrder == PupSpec => []ShownInOrder
<1>1. FullIInv => ShownInOrder
  <2> SUFFICES ASSUME FullIInv, NEW k \in DOMAIN Decoded, NEW l \in DOMAIN Decoded,
                      NEW i \in DOMAIN Decoded[k].payload, NEW j \in DOMAIN Decoded[l].payload,
                      Decoded[k].payload[i].from = Decoded[l].payload[j].from,
                      k < l \/ (k = l /\ i < j)
               PROVE  Decoded[k].payload[i].seq < Decoded[l].payload[j].seq
    BY DEF ShownInOrder
  <2>1. Decoded \in Seq(Composed)
    BY Queued DEF FullIInv, PupTyped, Decoded
  <2>2. k \in 1..Len(Decoded) /\ l \in 1..Len(Decoded)
    BY <2>1
  <2>3. Decoded[k].payload \in Seq(Packet) /\ Decoded[l].payload \in Seq(Packet)
    <3>1. Decoded[k] \in Composed /\ Decoded[l] \in Composed
      BY <2>1, <2>2
    <3> QED
      BY <3>1 DEF Composed
  <2>4. i \in 1..Len(Decoded[k].payload) /\ j \in 1..Len(Decoded[l].payload)
    BY <2>3
  <2>5. FramesInOrder(Decoded)
    BY DEF FullIInv, OrderIInv
  <2>6. CASE k < l
    <3>1. Decoded[k].payload[i] \in ToSet(Decoded[k].payload)
      BY <2>3, <2>4, Elements
    <3>2. Decoded[l].payload[j] \in ToSet(Decoded[l].payload)
      BY <2>3, <2>4, Elements
    <3>3. Before(Decoded[k].payload[i], Decoded[l].payload[j])
      BY <2>2, <2>5, <2>6, <3>1, <3>2 DEF FramesInOrder, Precede
    <3> QED
      BY <3>3 DEF Before
  <2>7. CASE k = l /\ i < j
    <3>1. InOrder(Decoded[k].payload)
      BY <2>2, <2>5 DEF FramesInOrder
    <3>2. Before(Decoded[k].payload[i], Decoded[k].payload[j])
      BY <2>4, <2>7, <3>1 DEF InOrder
    <3> QED
      BY <2>7, <3>2 DEF Before
  <2> QED
    BY <2>6, <2>7
<1> QED
  BY <1>1, FullInvariant, PTL

\* While exactly one subscriber is sent video, with timestamps that do not go back and a
\* first one that is not 0, the clock of the decoded frames goes forward, through any
\* number of offers and restarts.
THEOREM ClockStaysForward == PupSpec => []ClockGoesForward
<1>1. FullIInv => ClockGoesForward
  <2> SUFFICES ASSUME FullIInv, Cardinality({u \in subscribers : sent[u] > 0}) = 1,
                      \A u \in subscribers : sent[u] > 0 => Video[u][1].ts > 0,
                      NEW k \in DOMAIN Decoded, NEW l \in DOMAIN Decoded, k < l
               PROVE  Decoded[k].pts < Decoded[l].pts
    BY DEF ClockGoesForward
  <2>1. OneSender /\ OrderIInv /\ ClockIInv /\ sent \in [subscribers -> Nat]
    BY DEF OneSender, Senders, FullIInv, PupIInv, WireTypeOK
  <2>2. Decoded \in Seq(Composed) /\ k \in 1..Len(Decoded) /\ l \in 1..Len(Decoded)
    <3>1. Decoded \in Seq(Composed)
      BY Queued DEF FullIInv, PupTyped, Decoded
    <3> QED
      BY <3>1
  <2>3. PICK f, g : f = Decoded[k].payload /\ g = Decoded[l].payload
    OBVIOUS
  <2>4. f \in Seq(Packet) /\ g \in Seq(Packet)
    <3>1. Decoded[k] \in Composed /\ Decoded[l] \in Composed
      BY <2>2
    <3> QED
      BY <2>3, <3>1 DEF Composed
  <2>5. Ended(f) /\ Ended(g) /\ InOrder(f) /\ Precede(ToSet(f), ToSet(g))
    BY <2>1, <2>2, <2>3 DEF ClockIInv, OrderIInv, FramesInOrder
  <2>6. 1 \in 1..Len(f) /\ Len(f) \in 1..Len(f) /\ 1 \in 1..Len(g) /\ f[Len(f)].m
    BY <2>4, <2>5 DEF Ended
  <2>7. PICK p, e, q : p = f[1] /\ e = f[Len(f)] /\ q = g[1]
    OBVIOUS
  <2>8. p \in ToSet(f) /\ e \in ToSet(f) /\ q \in ToSet(g)
    BY <2>4, <2>6, <2>7, Elements
  <2>9. WasSent(p) /\ WasSent(e) /\ WasSent(q)
    <3>1. p \in Handed(Decoded) /\ e \in Handed(Decoded) /\ q \in Handed(Decoded)
      BY <2>2, <2>3, <2>8 DEF Handed
    <3> QED
      BY <2>1, <3>1 DEF OrderIInv
  <2>10. PICK t : Senders = {t}
    BY <2>1, FS_Singleton DEF ClockIInv, OneSender
  <2>11. /\ t \in subscribers /\ sent[t] \in Nat /\ sent[t] <= Len(Video[t]) /\ Video[t] \in Seq(Packet)
         /\ \A x : WasSent(x) => x.from = t /\ x.seq \in 1..sent[t] /\ x = Video[t][x.seq]
    <3>1. t \in subscribers
      BY <2>10 DEF Senders
    <3>2. ASSUME NEW x, WasSent(x) PROVE x.from = t
      <4>1. x.from \in subscribers /\ x.seq \in 1..sent[x.from]
        BY <3>2 DEF WasSent
      <4>2. sent[x.from] > 0
        BY <2>1, <4>1
      <4> QED
        BY <2>10, <4>1, <4>2 DEF Senders
    <3> QED
      BY <2>1, <3>1, <3>2, VideoAssumption DEF WasSent, OrderIInv, subscribers
  <2>12. e.seq < q.seq
    BY <2>5, <2>8, <2>9, <2>11 DEF Precede, Before
  <2>13. p.seq <= e.seq
    <3>1. CASE Len(f) = 1
      BY <2>7, <2>9, <2>11, <3>1
    <3>2. CASE Len(f) # 1
      <4> DEFINE n == Len(f)
      <4>1. n \in Nat /\ n > 0 /\ n # 1
        BY <2>4, <2>5, <3>2 DEF Ended
      <4> HIDE DEF n
      <4>2. 1 < n
        BY <4>1
      <4>3. 1 < Len(f)
        BY <4>2 DEF n
      <4>4. Before(p, e)
        BY <2>5, <2>6, <2>7, <4>3 DEF InOrder
      <4> QED
        BY <2>9, <2>11, <4>4 DEF Before
    <3> QED
      BY <3>1, <3>2
  <2>14. /\ p.seq \in 1..Len(Video[t]) /\ e.seq \in 1..Len(Video[t]) /\ q.seq \in 1..Len(Video[t])
         /\ p = Video[t][p.seq] /\ e = Video[t][e.seq] /\ q = Video[t][q.seq] /\ e.m
    <3>1. ASSUME NEW x, WasSent(x) PROVE x.seq \in 1..Len(Video[t]) /\ x = Video[t][x.seq]
      BY <2>11, <3>1
    <3>2. WasSent(p) /\ WasSent(e) /\ WasSent(q) /\ e.m
      BY <2>6, <2>7, <2>9
    <3> QED
      BY <3>1, <3>2
  <2>15. e.ts < q.ts
    BY <2>11, <2>12, <2>14, ClockAssumption DEF subscribers
  <2>16. p.ts <= e.ts
    <3>1. p.seq = e.seq \/ p.seq < e.seq
      BY <2>13, <2>14
    <3>2. e.ts \in Nat
      BY <2>11, <2>14, PacketAssumption, ElementOfSeq
    <3>3. CASE p.seq = e.seq
      BY <2>14, <3>2, <3>3
    <3>4. CASE p.seq < e.seq
      BY <2>11, <2>14, <3>4, ClockAssumption DEF subscribers
    <3> QED
      BY <3>1, <3>3, <3>4
  <2>17. p.ts \in Nat /\ e.ts \in Nat /\ q.ts \in Nat /\ first_video_pts \in Nat
    <3>1. p \in Packet /\ e \in Packet /\ q \in Packet
      BY <2>11, <2>14, ElementOfSeq
    <3> QED
      BY <3>1, PacketAssumption DEF FullIInv, PupTyped
  <2>18. Decoded[k].pts = p.ts - first_video_pts /\ Decoded[l].pts = q.ts - first_video_pts
    BY <2>1, <2>2, <2>3, <2>7 DEF ClockIInv, Clocked
  <2> QED
    BY <2>15, <2>16, <2>17, <2>18
<1> QED
  BY <1>1, FullInvariant, PTL

\* A packet finds its decoder missing or not open only in a pup that failed to set it up,
\* however often pup is restarted.
THEOREM DecodersAreThere == PupSpec => []DecoderIsThere
<1>1. PupIInv => DecoderIsThere
  BY DEF PupIInv
<1> QED
  BY <1>1, PupInvariant, PTL

\* A pup that has run from the start refuses no packet of a negotiated codec.
THEOREM NegotiatedIsAlwaysKnown == PupSpec => []NegotiatedIsKnown
<1>1. PupIInv => NegotiatedIsKnown
  BY DEF PupIInv, WireTypeOK, NegotiatedIsKnown
<1> QED
  BY <1>1, PupInvariant, PTL
=============================================================================
