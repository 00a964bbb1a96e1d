------------------------ MODULE Vp8DepacketizerProofs ------------------------
(***************************************************************************)
(* Theorems about Vp8Depacketizer, for every set of packets and bounds.    *)
(* The argument: a packet with the marker has just been appended when      *)
(* try_parse runs, so the loop has an end, and the first end it meets      *)
(* delimits a well-shaped frame or a broken one. Each push puts in a       *)
(* marker for the one it takes out. And the walk stops no earlier than the *)
(* loop, so that what is copied was tallied: sums over sets of packets are *)
(* compared element by element.                                            *)
(***************************************************************************)
EXTENDS Vp8Depacketizer, SequenceTheorems, FiniteSetTheorems, FunctionTheorems,
        WellFoundedInduction, TLAPS

\* Min, which chooses, does choose: a nonempty set of naturals has a least element.
LEMMA MinProperty ==
    ASSUME NEW S \in SUBSET Nat, S # {}
    PROVE  Min(S) \in S /\ \A y \in S : Min(S) <= y
<1>1. \E x \in S : \A y \in S : ~(<<y, x>> \in OpToRel(<, Nat))
  BY NatLessThanWellFounded, WFMin
<1>2. \E x \in S : \A y \in S : x <= y
  <2>1. PICK x \in S : \A y \in S : ~(<<y, x>> \in OpToRel(<, Nat))
    BY <1>1
  <2>2. ASSUME NEW y \in S PROVE x <= y
    <3>1. ~(y < x)
      BY <2>1 DEF OpToRel
    <3>2. QED
      BY <3>1
  <2>3. QED
    BY <2>1, <2>2
<1>3. QED
  BY <1>2 DEF Min

-----------------------------------------------------------------------------
\* The inductive invariant: types, shapes, and no frame while the first keyframe
\* is awaited (without it a Pop could be the step that FirstFrameIsKeyframe bars).
IInv == /\ TypeOK
        /\ NoNullPacket
        /\ FramesWellShaped
        /\ ~has_first_keyframe => encoded_fifo = <<>>

\* What the rest of the proof needs of a call: r is what try_parse, or a push
\* that does not run it, makes of the depacketizer when seen is its flag.
Sound(r, seen) ==
    /\ r.buffer \in Seq(Packet)
    /\ r.frames = <<>> \/ \E f \in Frame : r.frames = <<f>> /\ WellShaped(f)
                                           /\ (seen \/ f.payload[1].key)
    /\ r.seen \in BOOLEAN
    /\ r.seen \/ r.frames = <<>>
    /\ seen => r.seen
    /\ r.fault \in {"none", "overrun"}

\* The packets up to the first end of the loop make a well-shaped frame.
LEMMA FrameUpToEnd ==
    ASSUME NEW q \in Seq(Packet), LoopEnds(q) # {}, q[Min(LoopEnds(q))].ok
    PROVE  LET f == EncodedFrame(SubSeq(q, 1, Min(LoopEnds(q))))
           IN  f \in Frame /\ WellShaped(f) /\ f.payload[1] = q[1]
<1> DEFINE last == Min(LoopEnds(q))
           s == SubSeq(q, 1, last)
<1>1. last \in LoopEnds(q) /\ \A i \in LoopEnds(q) : last <= i
  <2>1. LoopEnds(q) \in SUBSET Nat
    BY DEF LoopEnds
  <2>2. QED
    BY <2>1, MinProperty
<1>2. last \in 1..Len(q) /\ q[last].m
  BY <1>1 DEF LoopEnds
<1> HIDE DEF last
<1>3. s \in Seq(Packet) /\ Len(s) = last /\ \A i \in 1..last : s[i] = q[i]
  BY <1>2, SubSeqProperties
<1>4. \A i \in 1..(last - 1) : ~q[i].m /\ q[i].ok
  <2> SUFFICES ASSUME NEW i \in 1..(last - 1) PROVE ~q[i].m /\ q[i].ok
    OBVIOUS
  <2>1. i \in 1..Len(q) /\ ~(last <= i)
    BY <1>2
  <2>2. QED
    BY <2>1, <1>1 DEF LoopEnds
<1> HIDE DEF s
<1>5. s[1] \in Packet /\ s[1].ts \in Nat
  BY <1>2, <1>3, PacketAssumption
<1>6. EncodedFrame(s) \in Frame
  BY <1>3, <1>5 DEF EncodedFrame, Frame
<1>7. q[last].ok
  BY DEF last
<1>8. WellShaped(EncodedFrame(s))
  BY <1>2, <1>3, <1>4, <1>7 DEF EncodedFrame, WellShaped
<1>9. EncodedFrame(s).payload[1] = q[1]
  BY <1>2, <1>3 DEF EncodedFrame
<1>10. QED
  BY <1>6, <1>8, <1>9 DEF s, last

\* try_parse is sound on any buffer that ends with a marker.
LEMMA TryParseSound ==
    ASSUME NEW q \in Seq(Packet), q # <<>>, q[Len(q)].m, NEW seen \in BOOLEAN
    PROVE  Sound(try_parse(q, seen), seen)
<1> DEFINE last == Min(LoopEnds(q))
<1>1. Len(q) \in LoopEnds(q)
  BY DEF LoopEnds
<1>2. last \in 1..Len(q)
  <2>1. LoopEnds(q) \in SUBSET Nat
    BY DEF LoopEnds
  <2>2. last \in LoopEnds(q)
    BY <1>1, <2>1, MinProperty
  <2>3. QED
    BY <2>2 DEF LoopEnds
<1>3. CASE Refused(Head(q), seen)
  <2>1. Tail(q) \in Seq(Packet)
    OBVIOUS
  <2>2. QED
    BY <1>3, <2>1 DEF try_parse, LeftByRefusal, Sound
<1>4. CASE ~Refused(Head(q), seen)
  <2> DEFINE r == try_parse(q, seen)
  <2>1. /\ r.buffer = SubSeq(q, last + 1, Len(q))
        /\ r.frames = IF q[last].ok THEN <<EncodedFrame(SubSeq(q, 1, last))>> ELSE <<>>
        /\ r.seen = TRUE
        /\ r.fault \in {"none", "overrun"}
    BY <1>1, <1>4 DEF try_parse
  <2>2. r.buffer \in Seq(Packet)
    BY <1>2, <2>1, SubSeqProperties
  <2>3. ASSUME q[last].ok
        PROVE  \E f \in Frame : r.frames = <<f>> /\ WellShaped(f)
                                /\ (seen \/ f.payload[1].key)
    <3>1. LET f == EncodedFrame(SubSeq(q, 1, last))
          IN  f \in Frame /\ WellShaped(f) /\ f.payload[1] = q[1]
      BY <1>1, <2>3, FrameUpToEnd
    <3>2. seen \/ q[1].key
      BY <1>4 DEF Refused
    <3>3. QED
      BY <2>1, <2>3, <3>1, <3>2
  <2> HIDE DEF r
  <2>4. Sound(r, seen)
    BY <2>1, <2>2, <2>3 DEF Sound
  <2>5. QED
    BY <2>4 DEF r
<1>5. QED
  BY <1>3, <1>4

\* A push is sound, whatever is in the buffer.
LEMMA PushedSound ==
    ASSUME NEW p \in Packet, TypeOK
    PROVE  Sound(Pushed(p), has_first_keyframe)
<1> DEFINE q == rtp_buffer_push(packet_buffer, p)
<1>1. q \in Seq(Packet) /\ q # <<>> /\ q[Len(q)] = p
  BY DEF TypeOK, rtp_buffer_push
<1> HIDE DEF q
<1>2. CASE p.m
  <2>1. Sound(try_parse(q, has_first_keyframe), has_first_keyframe)
    BY <1>1, <1>2, TryParseSound DEF TypeOK
  <2>2. Pushed(p) = try_parse(q, has_first_keyframe)
    BY <1>2 DEF Pushed, q
  <2>3. QED
    BY <2>1, <2>2
<1>3. CASE ~p.m
  <2>1. Pushed(p) = [buffer |-> q, frames |-> <<>>, seen |-> has_first_keyframe,
                     fault |-> "none"]
    BY <1>3 DEF Pushed, q
  <2>2. QED
    BY <1>1, <2>1 DEF Sound, TypeOK
<1>4. QED
  BY <1>2, <1>3

-----------------------------------------------------------------------------
LEMMA InitIInv == Init => IInv
<1> SUFFICES ASSUME Init PROVE IInv
  OBVIOUS
<1>1. TypeOK /\ NoNullPacket
  <2>1. packet_buffer \in Seq(Packet) /\ encoded_fifo \in Seq(Frame)
    BY EmptySeq DEF Init
  <2>2. has_first_keyframe \in BOOLEAN
    BY Zenon DEF Init
  <2>3. fault = "none"
    BY DEF Init
  <2>4. QED
    BY <2>1, <2>2, <2>3 DEF TypeOK, NoNullPacket
<1>2. FramesWellShaped
  <2>1. Len(encoded_fifo) = 0
    BY DEF Init
  <2>2. QED
    BY <2>1 DEF FramesWellShaped
<1>3. QED
  BY <1>1, <1>2 DEF Init, IInv

\* A push keeps the inductive invariant, and ends the wait only with a keyframe.
LEMMA PushStep ==
    ASSUME IInv, NEW p \in Packet, Push(p)
    PROVE  /\ IInv'
           /\ ~has_first_keyframe /\ encoded_fifo' # encoded_fifo
                => encoded_fifo'[Len(encoded_fifo')].payload[1].key
<1> DEFINE r == Pushed(p)
<1>1. Sound(r, has_first_keyframe)
  BY PushedSound DEF IInv
<1>2. /\ packet_buffer' = r.buffer
      /\ encoded_fifo' = encoded_fifo \o r.frames
      /\ has_first_keyframe' = r.seen
      /\ fault' = r.fault
  BY DEF Push
<1> HIDE DEF r
<1>3. packet_buffer' \in Seq(Packet) /\ has_first_keyframe' \in BOOLEAN
      /\ fault' \in {"none", "overrun"}
  BY <1>1, <1>2 DEF Sound
<1>4. encoded_fifo \in Seq(Frame) /\ FramesWellShaped
      /\ (~has_first_keyframe => encoded_fifo = <<>>)
  BY DEF IInv, TypeOK
<1>5. CASE r.frames = <<>>
  <2>1. encoded_fifo' = encoded_fifo
    BY <1>2, <1>4, <1>5
  <2>2. FramesWellShaped'
    BY <1>4, <2>1 DEF FramesWellShaped
  <2>3. ~has_first_keyframe' => encoded_fifo' = <<>>
    BY <1>1, <1>2, <1>4, <2>1 DEF Sound, IInv, TypeOK
  <2>4. QED
    BY <1>3, <1>4, <2>1, <2>2, <2>3 DEF IInv, TypeOK, NoNullPacket
<1>6. ASSUME NEW f \in Frame, r.frames = <<f>>, WellShaped(f),
             has_first_keyframe \/ f.payload[1].key
      PROVE  /\ IInv'
             /\ ~has_first_keyframe /\ encoded_fifo' # encoded_fifo
                  => encoded_fifo'[Len(encoded_fifo')].payload[1].key
  <2>1. /\ encoded_fifo' \in Seq(Frame)
        /\ Len(encoded_fifo') = Len(encoded_fifo) + 1
        /\ encoded_fifo'[Len(encoded_fifo) + 1] = f
        /\ \A i \in 1..Len(encoded_fifo) : encoded_fifo'[i] = encoded_fifo[i]
    BY <1>2, <1>4, <1>6
  <2>2. FramesWellShaped'
    BY <1>4, <1>6, <2>1 DEF FramesWellShaped
  <2>3. r.seen
    BY <1>1, <1>6 DEF Sound
  <2>4. IInv'
    BY <1>2, <1>3, <2>1, <2>2, <2>3 DEF IInv, TypeOK, NoNullPacket
  <2>5. QED
    BY <1>6, <2>1, <2>4
<1>7. QED
  BY <1>1, <1>5, <1>6 DEF Sound

\* A pop keeps the inductive invariant, and there is none before the keyframe.
LEMMA PopStep ==
    ASSUME IInv, Pop
    PROVE  IInv' /\ has_first_keyframe
<1>1. /\ encoded_fifo \in Seq(Frame)
      /\ encoded_fifo # <<>>
      /\ encoded_fifo' = Tail(encoded_fifo)
      /\ UNCHANGED <<packet_buffer, has_first_keyframe, fault>>
  BY DEF IInv, TypeOK, Pop
<1>2. has_first_keyframe
  BY <1>1 DEF IInv, TypeOK
<1>3. encoded_fifo' \in Seq(Frame)
      /\ \A i \in 1..Len(encoded_fifo') : i + 1 \in 1..Len(encoded_fifo)
                                         /\ encoded_fifo'[i] = encoded_fifo[i + 1]
  BY <1>1
<1>4. FramesWellShaped'
  BY <1>3 DEF IInv, FramesWellShaped
<1>5. QED
  BY <1>1, <1>2, <1>3, <1>4 DEF IInv, TypeOK, NoNullPacket

\* Every step keeps the inductive invariant.
LEMMA NextIInv == IInv /\ [Next]_vars => IInv'
<1> SUFFICES ASSUME IInv, [Next]_vars PROVE IInv'
  OBVIOUS
<1>1. CASE \E p \in Packet : Push(p)
  BY <1>1, PushStep
<1>2. CASE Pop
  BY <1>2, PopStep
<1>3. CASE UNCHANGED vars
  BY <1>3 DEF vars, IInv, TypeOK, NoNullPacket, FramesWellShaped
<1>4. QED
  BY <1>1, <1>2, <1>3 DEF Next

-----------------------------------------------------------------------------
\* The buffer, the frames and the flag keep their types, for every set of
\* packets: what each push and pop of the depacketizer leaves is well formed.
THEOREM Typed == Spec => []TypeOK
<1>1. IInv => TypeOK
  BY DEF IInv
<1>2. QED
  BY InitIInv, NextIInv, <1>1, PTL DEF Spec

\* try_parse never dereferences a NULL packet, however packets were lost,
\* reordered or malformed on the way.
THEOREM NeverNullPacket == Spec => []NoNullPacket
<1>1. IInv => NoNullPacket
  BY DEF IInv
<1>2. QED
  BY InitIInv, NextIInv, <1>1, PTL DEF Spec

\* Every frame that comes out ends at the first marker after its first packet
\* and holds only packets that parsed.
THEOREM FramesStayWellShaped == Spec => []FramesWellShaped
<1>1. IInv => FramesWellShaped
  BY DEF IInv
<1>2. QED
  BY InitIInv, NextIInv, <1>1, PTL DEF Spec

\* The first frame to come out after the wait begins with a keyframe packet.
THEOREM WaitEndsWithKeyframe == Spec => FirstFrameIsKeyframe
<1> DEFINE A == ~has_first_keyframe /\ encoded_fifo' # encoded_fifo
                  => encoded_fifo'[Len(encoded_fifo')].payload[1].key
<1>1. IInv /\ [Next]_vars => [A]_vars
  <2> SUFFICES ASSUME IInv, Next PROVE A
    OBVIOUS
  <2>1. CASE \E p \in Packet : Push(p)
    BY <2>1, PushStep
  <2>2. CASE Pop
    BY <2>2, PopStep
  <2>3. QED
    BY <2>1, <2>2 DEF Next
<1>2. QED
  BY InitIInv, NextIInv, <1>1, PTL DEF Spec, FirstFrameIsKeyframe

-----------------------------------------------------------------------------
\* A sequence q cut in two behind its n-th packet, as a push cuts the buffer: v is
\* taken and b stays.
CutAt(q, n, v, b) ==
    /\ n \in 0..Len(q) /\ v \in Seq(Packet) /\ b \in Seq(Packet)
    /\ Len(v) = n /\ \A i \in 1..n : v[i] = q[i]
    /\ Len(b) = Len(q) - n /\ \A i \in 1..(Len(q) - n) : b[i] = q[i + n]

\* What a push of p may make of the buffer, q with p in it: it waits, refuses the
\* first packet, or takes the packets up to the first that ends the loop. With seen for
\* the flag before, r is the outcome and v the n packets that are taken.
PushWaits(r, p, seen, n) ==
    /\ ~p.m /\ n = 0
    /\ r.frames = <<>> /\ r.seen = seen
PushRefuses(r, q, p, seen, n) ==
    /\ p.m /\ n = 1
    /\ ~q[1].ok \/ (~seen /\ ~q[1].key)
    /\ r.frames = <<>> /\ r.seen = seen
PushTakes(r, q, p, seen, n, v) ==
    /\ p.m /\ n > 0
    /\ q[1].ok /\ (seen \/ q[1].key)
    /\ \A i \in 1..(n - 1) : ~v[i].m /\ v[i].ok
    /\ v[n].m \/ ~v[n].ok
    /\ r.frames = IF v[n].ok THEN <<[payload |-> v, pts |-> v[1].ts]>> ELSE <<>>
    /\ r.seen = TRUE
Outcome(r, q, p, seen, n, v) ==
    /\ CutAt(q, n, v, r.buffer)
    /\ \/ PushWaits(r, p, seen, n)
       \/ PushRefuses(r, q, p, seen, n)
       \/ PushTakes(r, q, p, seen, n, v)

\* Any sequence can be cut anywhere.
LEMMA CutAnywhere ==
    ASSUME NEW q \in Seq(Packet), NEW n \in 0..Len(q)
    PROVE  CutAt(q, n, SubSeq(q, 1, n), SubSeq(q, n + 1, Len(q)))
<1>1. Len(q) \in Nat /\ n \in Int /\ n + 1 \in Int /\ n <= Len(q) /\ 0 <= n
      /\ \A i \in 1..Len(q) : q[i] \in Packet
  OBVIOUS
<1>2. /\ SubSeq(q, n + 1, Len(q)) \in Seq(Packet)
      /\ Len(SubSeq(q, n + 1, Len(q))) = Len(q) - n
      /\ \A i \in 1..(Len(q) - n) : SubSeq(q, n + 1, Len(q))[i] = q[i + n]
  <2>1. \A i \in (n + 1)..Len(q) : q[i] \in Packet
    BY <1>1
  <2>2. /\ SubSeq(q, n + 1, Len(q)) \in Seq(Packet)
        /\ Len(SubSeq(q, n + 1, Len(q)))
             = IF n + 1 <= Len(q) THEN Len(q) - (n + 1) + 1 ELSE 0
        /\ \A i \in 1..(Len(q) - (n + 1) + 1) :
              SubSeq(q, n + 1, Len(q))[i] = q[(n + 1) + i - 1]
    BY <1>1, <2>1, SubSeqProperties
  <2> QED
    BY <1>1, <2>2
<1>3. /\ SubSeq(q, 1, n) \in Seq(Packet) /\ Len(SubSeq(q, 1, n)) = n
      /\ \A i \in 1..n : SubSeq(q, 1, n)[i] = q[i]
  <2>1. \A i \in 1..n : q[i] \in Packet
    BY <1>1
  <2>2. /\ SubSeq(q, 1, n) \in Seq(Packet)
        /\ Len(SubSeq(q, 1, n)) = IF 1 <= n THEN n - 1 + 1 ELSE 0
        /\ \A i \in 1..(n - 1 + 1) : SubSeq(q, 1, n)[i] = q[1 + i - 1]
    BY <1>1, <2>1, SubSeqProperties
  <2> QED
    BY <1>1, <2>2
<1> QED
  BY <1>2, <1>3 DEF CutAt

\* A push has one of these outcomes, whatever is in the buffer.
LEMMA PushedCuts ==
    ASSUME packet_buffer \in Seq(Packet), has_first_keyframe \in BOOLEAN, NEW p \in Packet
    PROVE  LET q == Append(packet_buffer, p)
               r == Pushed(p)
           IN  /\ r.seen \in BOOLEAN /\ r.fault \in {"none", "overrun"}
               /\ \E n, v : Outcome(r, q, p, has_first_keyframe, n, v)
<1> DEFINE q == Append(packet_buffer, p)
           seen == has_first_keyframe
           last == Min(LoopEnds(q))
<1>1. /\ q \in Seq(Packet) /\ q # <<>> /\ Len(q) \in Nat /\ Len(q) \in 1..Len(q)
      /\ q[Len(q)] = p /\ Head(q) = q[1]
  BY AppendProperties
<1> HIDE DEF q
<1>2. \A n \in 0..Len(q) :
         CutAt(q, n, SubSeq(q, 1, n), SubSeq(q, n + 1, Len(q)))
  BY <1>1, CutAnywhere
<1>3. CASE ~p.m
  <2> DEFINE r == Pushed(p)
  <2>1. Pushed(p) = [buffer |-> q, frames |-> <<>>, seen |-> seen, fault |-> "none"]
    BY <1>3 DEF Pushed, rtp_buffer_push, q
  <2>2. SubSeq(q, 0 + 1, Len(q)) = q /\ 0 \in 0..Len(q)
    BY <1>1, SubSeqFull
  <2>3. CutAt(q, 0, SubSeq(q, 1, 0), q)
    BY <1>2, <2>2
  <2>4. PushWaits(r, p, seen, 0) /\ r.buffer = q /\ r.fault = "none"
    BY <1>3, <2>1 DEF PushWaits
  <2> HIDE DEF r
  <2>5. r.seen \in BOOLEAN
    BY <2>4, Zenon DEF PushWaits
  <2>6. Outcome(r, q, p, seen, 0, SubSeq(q, 1, 0))
    BY <2>3, <2>4 DEF Outcome
  <2> QED
    BY <2>4, <2>5, <2>6 DEF q, r
<1>4. CASE p.m /\ Refused(Head(q), seen)
  <2> DEFINE r == Pushed(p)
  <2>1. Pushed(p) = [buffer |-> Tail(q), frames |-> <<>>, seen |-> seen, fault |-> "none"]
    BY <1>4 DEF Pushed, try_parse, LeftByRefusal, rtp_buffer_push, q
  <2>2. SubSeq(q, 1 + 1, Len(q)) = Tail(q) /\ 1 \in 0..Len(q)
    BY <1>1, TailIsSubSeq
  <2>3. CutAt(q, 1, SubSeq(q, 1, 1), Tail(q))
    BY <1>2, <2>2
  <2>4. ~q[1].ok \/ (~seen /\ ~q[1].key)
    BY <1>1, <1>4 DEF Refused
  <2>5. PushRefuses(r, q, p, seen, 1) /\ r.buffer = Tail(q) /\ r.fault = "none"
    BY <1>4, <2>1, <2>4 DEF PushRefuses
  <2> HIDE DEF r
  <2>6. r.seen \in BOOLEAN
    BY <2>5, Zenon DEF PushRefuses
  <2>7. Outcome(r, q, p, seen, 1, SubSeq(q, 1, 1))
    BY <2>3, <2>5 DEF Outcome
  <2> QED
    BY <2>5, <2>6, <2>7 DEF q, r
<1>5. CASE p.m /\ ~Refused(Head(q), seen)
  <2>1. last \in LoopEnds(q) /\ \A i \in LoopEnds(q) : last <= i
    <3>1. LoopEnds(q) \in SUBSET Nat /\ Len(q) \in LoopEnds(q)
      BY <1>1, <1>5 DEF LoopEnds
    <3> QED
      BY <3>1, MinProperty
  <2>2. last \in 1..Len(q) /\ (q[last].m \/ ~q[last].ok) /\ LoopEnds(q) # {}
    BY <2>1 DEF LoopEnds
  <2>3. Pushed(p) = try_parse(q, seen)
    BY <1>5 DEF Pushed, rtp_buffer_push, q
  <2> DEFINE r == try_parse(q, seen)
  <2>4. /\ r.buffer = SubSeq(q, last + 1, Len(q))
        /\ r.frames = IF q[last].ok THEN <<EncodedFrame(SubSeq(q, 1, last))>> ELSE <<>>
        /\ r.seen = TRUE
        /\ r.fault \in {"none", "overrun"}
    BY <1>5, <2>2 DEF try_parse
  <2> HIDE DEF last, r
  <2> DEFINE v == SubSeq(q, 1, last)
  <2>5. last \in 0..Len(q) /\ last > 0 /\ last \in 1..last
    BY <1>1, <2>2
  <2>6. CutAt(q, last, v, r.buffer)
    BY <1>2, <2>4, <2>5
  <2>7. \A i \in 1..last : v[i] = q[i]
    BY <2>6 DEF CutAt
  <2>8. \A i \in 1..(last - 1) : ~v[i].m /\ v[i].ok
    <3> SUFFICES ASSUME NEW i \in 1..(last - 1) PROVE ~v[i].m /\ v[i].ok
      OBVIOUS
    <3>1. i \in 1..Len(q) /\ ~(last <= i) /\ i \in 1..last
      BY <1>1, <2>2
    <3>2. ~q[i].m /\ q[i].ok
      BY <2>1, <3>1 DEF LoopEnds
    <3> QED
      BY <2>7, <3>1, <3>2
  <2>9. v[last] = q[last]
    BY <2>5, <2>7
  <2>10. r.frames = IF v[last].ok THEN <<[payload |-> v, pts |-> v[1].ts]>> ELSE <<>>
    BY <2>4, <2>9 DEF EncodedFrame
  <2> HIDE DEF v
  <2>11. q[1].ok /\ (seen \/ q[1].key)
    BY <1>1, <1>5 DEF Refused
  <2>12. PushTakes(r, q, p, seen, last, v)
    BY <1>5, <2>2, <2>4, <2>5, <2>8, <2>9, <2>10, <2>11 DEF PushTakes
  <2>13. Outcome(r, q, p, seen, last, v)
    BY <2>6, <2>12 DEF Outcome
  <2>14. r.seen \in BOOLEAN
    BY <2>4
  <2> QED
    BY <2>3, <2>4, <2>13, <2>14 DEF q, r
<1> QED
  BY <1>3, <1>4, <1>5

-----------------------------------------------------------------------------
\* The indices of the markers of a sequence are finitely many.
MarkersOf(q) == {i \in 1..Len(q) : q[i].m}

LEMMA MarkersFinite ==
    ASSUME NEW q \in Seq(Packet)
    PROVE  IsFiniteSet(MarkersOf(q)) /\ Markers(q) = Cardinality(MarkersOf(q)) /\ Markers(q) \in Nat
<1>1. Len(q) \in Nat /\ Len(q) \in Int /\ 1 \in Int
  OBVIOUS
<1>2. IsFiniteSet(1..Len(q))
  BY <1>1, FS_Interval
<1>3. MarkersOf(q) \in SUBSET (1..Len(q))
  BY DEF MarkersOf
<1>4. IsFiniteSet(MarkersOf(q))
  BY <1>2, <1>3, FS_Subset
<1>5. Cardinality(MarkersOf(q)) \in Nat
  BY <1>4, FS_CardinalityType
<1>6. Markers(q) = Cardinality(MarkersOf(q))
  BY DEF Markers, MarkersOf
<1> QED
  BY <1>4, <1>5, <1>6

\* A packet that is pushed adds its marker.
LEMMA MarkersGrow ==
    ASSUME NEW q \in Seq(Packet), NEW p \in Packet
    PROVE  Markers(Append(q, p)) = Markers(q) + (IF p.m THEN 1 ELSE 0)
<1>1. PICK a : a = Append(q, p)
  OBVIOUS
<1>2. a \in Seq(Packet) /\ Len(a) = Len(q) + 1 /\ a[Len(q) + 1] = p
      /\ \A i \in 1..Len(q) : a[i] = q[i]
  BY <1>1, AppendProperties
<1>3. Len(q) \in Nat /\ ~(Len(q) + 1 \in MarkersOf(q))
  BY DEF MarkersOf
<1>4. CASE p.m
  <2>1. MarkersOf(a) = MarkersOf(q) \cup {Len(q) + 1}
    BY <1>2, <1>3, <1>4 DEF MarkersOf
  <2>2. Cardinality(MarkersOf(a)) = Cardinality(MarkersOf(q)) + 1
    BY <1>3, <2>1, MarkersFinite, FS_AddElement
  <2> QED
    BY <1>1, <1>2, <1>4, <2>2, MarkersFinite
<1>5. CASE ~p.m
  <2>1. MarkersOf(a) = MarkersOf(q)
    BY <1>2, <1>3, <1>5 DEF MarkersOf
  <2>2. Markers(a) = Markers(q) /\ Markers(q) \in Nat
    BY <1>2, <2>1, MarkersFinite
  <2> QED
    BY <1>1, <1>5, <2>2
<1> QED
  BY <1>4, <1>5

\* A cut neither makes nor loses a marker.
LEMMA MarkersCut ==
    ASSUME NEW q \in Seq(Packet), NEW n, NEW v, NEW b, CutAt(q, n, v, b)
    PROVE  Markers(q) = Markers(v) + Markers(b)
<1>1. /\ n \in 0..Len(q) /\ v \in Seq(Packet) /\ b \in Seq(Packet)
      /\ Len(v) = n /\ \A i \in 1..n : v[i] = q[i]
      /\ Len(b) = Len(q) - n /\ \A i \in 1..(Len(q) - n) : b[i] = q[i + n]
  BY DEF CutAt
<1>2. n \in Nat /\ Len(q) \in Nat /\ n <= Len(q)
  BY <1>1
<1> DEFINE B == {i \in 1..Len(q) : i > n /\ q[i].m}
<1>3. MarkersOf(q) = MarkersOf(v) \cup B
  <2>1. ASSUME NEW i \in 1..Len(q), q[i].m PROVE i \in MarkersOf(v) \/ i \in B
    BY <1>1, <1>2, <2>1 DEF MarkersOf
  <2>2. ASSUME NEW i \in MarkersOf(v) PROVE i \in MarkersOf(q)
    BY <1>1, <1>2 DEF MarkersOf
  <2> QED
    BY <2>1, <2>2 DEF MarkersOf
<1>4. MarkersOf(v) \cap B = {}
  BY <1>1, <1>2 DEF MarkersOf
<1> DEFINE shift == [i \in MarkersOf(b) |-> i + n]
<1>5. shift \in Bijection(MarkersOf(b), B)
  <2>1. \A i \in MarkersOf(b) : shift[i] = i + n /\ i \in 1..(Len(q) - n) /\ b[i].m
    BY <1>1 DEF MarkersOf
  <2>2. \A i \in MarkersOf(b) : shift[i] \in B
    <3> SUFFICES ASSUME NEW i \in MarkersOf(b) PROVE shift[i] \in B
      OBVIOUS
    <3>1. shift[i] = i + n /\ i \in 1..(Len(q) - n) /\ b[i].m
      BY <2>1
    <3>2. i + n \in 1..Len(q) /\ i + n > n
      BY <1>2, <3>1
    <3>3. b[i] = q[i + n]
      BY <1>1, <3>1
    <3> QED
      BY <3>1, <3>2, <3>3
  <2>3. \A i, j \in MarkersOf(b) : shift[i] = shift[j] => i = j
    BY <1>2, <2>1
  <2>4. \A j \in B : \E i \in MarkersOf(b) : shift[i] = j
    <3> SUFFICES ASSUME NEW j \in B PROVE \E i \in MarkersOf(b) : shift[i] = j
      OBVIOUS
    <3>1. j - n \in 1..(Len(q) - n) /\ q[j].m /\ (j - n) + n = j
      BY <1>2
    <3>2. b[j - n] = q[j]
      BY <1>1, <3>1
    <3>3. j - n \in MarkersOf(b)
      BY <1>1, <3>1, <3>2 DEF MarkersOf
    <3> QED
      BY <3>1, <3>3
  <2>5. shift \in [MarkersOf(b) -> B]
    BY <2>2
  <2> HIDE DEF shift, B
  <2> QED
    BY <2>3, <2>4, <2>5, Fun_IsBij
<1> HIDE DEF shift, B
<1>6. IsFiniteSet(B) /\ Cardinality(B) = Cardinality(MarkersOf(b))
  <2>1. ExistsBijection(MarkersOf(b), B)
    BY <1>5 DEF ExistsBijection
  <2> QED
    BY <1>1, <2>1, MarkersFinite, FS_Bijection
<1>7. Cardinality(MarkersOf(v) \cap B) = 0
  BY <1>4, FS_EmptySet
<1>8. Cardinality(MarkersOf(q)) = Cardinality(MarkersOf(v)) + Cardinality(B) - 0
  BY <1>1, <1>3, <1>6, <1>7, MarkersFinite, FS_Union
<1> QED
  BY <1>1, <1>6, <1>8, MarkersFinite

\* What try_parse takes has its one marker at the end, or none.
LEMMA MarkersTaken ==
    ASSUME NEW v \in Seq(Packet), NEW n \in Nat, n > 0, Len(v) = n,
           \A i \in 1..(n - 1) : ~v[i].m
    PROVE  Markers(v) = IF v[n].m THEN 1 ELSE 0
<1>1. CASE v[n].m
  <2>1. MarkersOf(v) = {n}
    BY <1>1 DEF MarkersOf
  <2> QED
    BY <1>1, <2>1, MarkersFinite, FS_Singleton
<1>2. CASE ~v[n].m
  <2>1. MarkersOf(v) = {}
    BY <1>2 DEF MarkersOf
  <2> QED
    BY <1>2, <2>1, MarkersFinite, FS_EmptySet
<1> QED
  BY <1>1, <1>2

\* Each push that takes packets out of the buffer has put a marker in, and takes at
\* most one out: the depacketizer never catches up with the frames it has left behind.
THEOREM CatchesUpNever == Spec => NeverCatchesUp
<1> DEFINE A == Markers(packet_buffer') >= Markers(packet_buffer)
<1>1. IInv /\ [Next]_vars => [A]_vars
  <2> SUFFICES ASSUME IInv, Next PROVE A
    OBVIOUS
  <2>1. packet_buffer \in Seq(Packet) /\ has_first_keyframe \in BOOLEAN
    BY DEF IInv, TypeOK
  <2>2. CASE Pop
    <3>1. packet_buffer' = packet_buffer
      BY <2>2 DEF Pop
    <3>2. Markers(packet_buffer) \in Nat
      BY <2>1, MarkersFinite
    <3> QED
      BY <3>1, <3>2
  <2>3. ASSUME NEW p \in Packet, Push(p) PROVE A
    <3>1. PICK q : q = Append(packet_buffer, p)
      OBVIOUS
    <3>2. PICK r : r = Pushed(p)
      OBVIOUS
    <3>3. PICK n, v : Outcome(r, q, p, has_first_keyframe, n, v)
      BY <2>1, <3>1, <3>2, PushedCuts
    <3>4. packet_buffer' = r.buffer /\ q \in Seq(Packet)
      BY <2>1, <2>3, <3>1, <3>2, AppendProperties DEF Push
    <3>5. CutAt(q, n, v, r.buffer) /\ v \in Seq(Packet) /\ r.buffer \in Seq(Packet) /\ Len(v) = n
          /\ n \in Nat
      <4>1. CutAt(q, n, v, r.buffer)
        BY <3>3 DEF Outcome
      <4>2. v \in Seq(Packet) /\ r.buffer \in Seq(Packet) /\ Len(v) = n
        BY <4>1 DEF CutAt
      <4> QED
        BY <4>1, <4>2
    <3>6. /\ Markers(q) = Markers(packet_buffer) + (IF p.m THEN 1 ELSE 0)
          /\ Markers(q) = Markers(v) + Markers(r.buffer)
      <4>1. Markers(q) = Markers(packet_buffer) + (IF p.m THEN 1 ELSE 0)
        BY <2>1, <3>1, MarkersGrow
      <4>2. Markers(q) = Markers(v) + Markers(r.buffer)
        BY <3>4, <3>5, MarkersCut
      <4> QED
        BY <4>1, <4>2
    <3>7. Markers(v) <= IF p.m THEN 1 ELSE 0
      <4>1. CASE PushWaits(r, p, has_first_keyframe, n)
        <5>1. MarkersOf(v) = {} /\ ~p.m
          BY <3>5, <4>1 DEF PushWaits, MarkersOf
        <5> QED
          BY <3>5, <5>1, MarkersFinite, FS_EmptySet
      <4>2. CASE PushRefuses(r, q, p, has_first_keyframe, n)
        <5>1. n = 1 /\ p.m /\ n > 0 /\ \A i \in 1..(n - 1) : ~v[i].m
          BY <4>2 DEF PushRefuses
        <5>2. Markers(v) = IF v[n].m THEN 1 ELSE 0
          BY <3>5, <5>1, MarkersTaken
        <5> QED
          BY <5>1, <5>2
      <4>3. CASE PushTakes(r, q, p, has_first_keyframe, n, v)
        <5>1. n > 0 /\ p.m /\ \A i \in 1..(n - 1) : ~v[i].m
          BY <4>3 DEF PushTakes
        <5> QED
          BY <3>5, <5>1, MarkersTaken
      <4> QED
        BY <3>3, <4>1, <4>2, <4>3 DEF Outcome
    <3>8. Markers(v) \in Nat /\ Markers(r.buffer) \in Nat /\ Markers(packet_buffer) \in Nat
      BY <2>1, <3>5, MarkersFinite
    <3>9. CASE p.m
      BY <3>4, <3>6, <3>7, <3>8, <3>9
    <3>10. CASE ~p.m
      BY <3>4, <3>6, <3>7, <3>8, <3>10
    <3> QED
      BY <3>9, <3>10
  <2> QED
    BY <2>2, <2>3 DEF Next
<1> QED
  BY InitIInv, NextIInv, <1>1, PTL DEF Spec, NeverCatchesUp

-----------------------------------------------------------------------------
\* The bytes of packets, summed as MapThenSumSet sums them: h is the sum of g over the
\* subsets of S, each taken one element after the other, in some order.
Picked(s) == CHOOSE x \in s : TRUE
SumStep(h, g, s) == IF s = {} THEN 0 ELSE g[Picked(s)] + h[s \ {Picked(s)}]
Sums(h, g, S) == h = [s \in SUBSET S |-> SumStep(h, g, s)]

\* What is picked of a finite set leaves a set with one element less.
LEMMA PickedLeaves ==
    ASSUME NEW S, IsFiniteSet(S), NEW s \in SUBSET S, NEW x \in s
    PROVE  /\ s \ {x} \in SUBSET S /\ IsFiniteSet(s \ {x}) /\ IsFiniteSet(s)
           /\ Cardinality(s) \in Nat /\ Cardinality(s \ {x}) \in Nat
           /\ Cardinality(s \ {x}) = Cardinality(s) - 1
<1>1. IsFiniteSet(s)
  BY FS_Subset
<1>2. IsFiniteSet(s \ {x}) /\ Cardinality(s \ {x}) = Cardinality(s) - 1
  BY <1>1, FS_RemoveElement
<1>3. Cardinality(s) \in Nat /\ Cardinality(s \ {x}) \in Nat
  BY <1>1, <1>2, FS_CardinalityType
<1> QED
  BY <1>1, <1>2, <1>3

\* The subsets of S of at most k elements, and the sums over them.
SmallSubsets(S, k) == {s \in SUBSET S : Cardinality(s) <= k}
SumsUpTo(h, g, S, k) ==
    h \in [SmallSubsets(S, k) -> Nat] /\ \A s \in SmallSubsets(S, k) : h[s] = SumStep(h, g, s)

LEMMA SumsExtend ==
    ASSUME NEW S, IsFiniteSet(S), NEW g \in [S -> Nat], NEW k \in Nat,
           NEW h, SumsUpTo(h, g, S, k)
    PROVE  \E e : SumsUpTo(e, g, S, k + 1)
<1> DEFINE e == [s \in SmallSubsets(S, k + 1) |-> SumStep(h, g, s)]
<1>1. ASSUME NEW s \in SmallSubsets(S, k + 1), s # {}
      PROVE  /\ Picked(s) \in s /\ g[Picked(s)] \in Nat
             /\ s \ {Picked(s)} \in SmallSubsets(S, k) /\ s \ {Picked(s)} \in SmallSubsets(S, k + 1)
  <2>1. s \in SUBSET S /\ Cardinality(s) <= k + 1
    BY DEF SmallSubsets
  <2>2. PICK x \in s : x = Picked(s)
    BY <1>1 DEF Picked
  <2>3. /\ s \ {x} \in SUBSET S /\ Cardinality(s) \in Nat /\ Cardinality(s \ {x}) \in Nat
        /\ Cardinality(s \ {x}) = Cardinality(s) - 1
    BY <2>1, PickedLeaves
  <2>4. Cardinality(s \ {x}) <= k /\ Cardinality(s \ {x}) <= k + 1
    BY <2>1, <2>3
  <2>5. s \ {x} \in SmallSubsets(S, k) /\ s \ {x} \in SmallSubsets(S, k + 1)
    BY <2>3, <2>4 DEF SmallSubsets
  <2> QED
    BY <2>1, <2>2, <2>5
<1>2. h \in [SmallSubsets(S, k) -> Nat] /\ \A s \in SmallSubsets(S, k) : h[s] = SumStep(h, g, s)
  BY DEF SumsUpTo
<1>3. \A s \in SmallSubsets(S, k + 1) : SumStep(h, g, s) \in Nat
  <2> SUFFICES ASSUME NEW s \in SmallSubsets(S, k + 1) PROVE SumStep(h, g, s) \in Nat
    OBVIOUS
  <2>1. CASE s = {}
    BY <2>1 DEF SumStep
  <2>2. CASE s # {}
    <3>1. g[Picked(s)] \in Nat /\ h[s \ {Picked(s)}] \in Nat
      BY <1>1, <1>2, <2>2
    <3> QED
      BY <2>2, <3>1 DEF SumStep
  <2> QED
    BY <2>1, <2>2
<1>4. e \in [SmallSubsets(S, k + 1) -> Nat]
  BY <1>3
<1>5. \A s \in SmallSubsets(S, k + 1) : e[s] = SumStep(h, g, s)
  OBVIOUS
<1> HIDE DEF e
<1>6. \A s \in SmallSubsets(S, k + 1) : e[s] = SumStep(e, g, s)
  <2> SUFFICES ASSUME NEW s \in SmallSubsets(S, k + 1) PROVE e[s] = SumStep(e, g, s)
    OBVIOUS
  <2>1. CASE s = {}
    BY <1>5, <2>1 DEF SumStep
  <2>2. CASE s # {}
    <3>1. PICK t : t = s \ {Picked(s)}
      OBVIOUS
    <3>2. t \in SmallSubsets(S, k) /\ t \in SmallSubsets(S, k + 1)
      BY <1>1, <2>2, <3>1
    <3>3. e[t] = h[t]
      BY <1>2, <1>5, <3>2
    <3> QED
      BY <1>5, <2>2, <3>1, <3>3 DEF SumStep
  <2> QED
    BY <2>1, <2>2
<1> QED
  BY <1>4, <1>6 DEF SumsUpTo

LEMMA SumsExist ==
    ASSUME NEW S, IsFiniteSet(S), NEW g \in [S -> Nat]
    PROVE  \E h : Sums(h, g, S)
<1>1. \A k \in Nat : \E h : SumsUpTo(h, g, S, k)
  <2> DEFINE M == {k \in Nat : ~\E h : SumsUpTo(h, g, S, k)}
             m == Min(M)
  <2> SUFFICES ASSUME M # {} PROVE FALSE
    OBVIOUS
  <2>1. m \in M /\ \A k \in M : m <= k
    <3>1. M \in SUBSET Nat
      OBVIOUS
    <3> QED
      BY <3>1, MinProperty
  <2> HIDE DEF m
  <2>2. CASE m = 0
    <3> DEFINE h == [s \in SmallSubsets(S, 0) |-> 0]
    <3>1. \A s \in SmallSubsets(S, 0) : s = {}
      <4> SUFFICES ASSUME NEW s \in SmallSubsets(S, 0) PROVE s = {}
        OBVIOUS
      <4>1. s \in SUBSET S /\ Cardinality(s) <= 0
        BY DEF SmallSubsets
      <4>2. IsFiniteSet(s)
        BY <4>1, FS_Subset
      <4>3. Cardinality(s) \in Nat
        BY <4>2, FS_CardinalityType
      <4>4. Cardinality(s) = 0
        BY <4>1, <4>3
      <4> QED
        BY <4>2, <4>4, FS_EmptySet
    <3>2. SumsUpTo(h, g, S, 0)
      BY <3>1 DEF SumsUpTo, SumStep
    <3> QED
      BY <2>1, <2>2, <3>2
  <2>3. CASE m # 0
    <3>1. m - 1 \in Nat /\ ~(m <= m - 1) /\ (m - 1) + 1 = m
      BY <2>1, <2>3
    <3>2. PICK h : SumsUpTo(h, g, S, m - 1)
      BY <2>1, <3>1
    <3>3. \E e : SumsUpTo(e, g, S, (m - 1) + 1)
      BY <3>1, <3>2, SumsExtend
    <3> QED
      BY <2>1, <3>1, <3>3
  <2> QED
    BY <2>2, <2>3
<1>2. PICK k \in Nat : k = Cardinality(S)
  BY FS_CardinalityType
<1>3. PICK h : SumsUpTo(h, g, S, k)
  BY <1>1
<1>4. SmallSubsets(S, k) = SUBSET S
  BY <1>2, FS_Subset DEF SmallSubsets
<1>5. h \in [SUBSET S -> Nat] /\ \A s \in SUBSET S : h[s] = SumStep(h, g, s)
  BY <1>3, <1>4 DEF SumsUpTo
<1>6. Sums(h, g, S)
  BY <1>5, Zenon DEF Sums
<1> QED
  BY <1>6

\* Whatever is picked, a sum is that of any element and of the rest.
Splits(h, g, S) ==
    /\ h[{}] = 0
    /\ \A s \in SUBSET S : h[s] \in Nat
    /\ \A s \in SUBSET S : \A x \in s : h[s] = g[x] + h[s \ {x}]

LEMMA SumSplits ==
    ASSUME NEW S, IsFiniteSet(S), NEW g \in [S -> Nat], NEW h, Sums(h, g, S)
    PROVE  Splits(h, g, S)
<1> USE DEF Splits
<1>1. \A s \in SUBSET S : h[s] = SumStep(h, g, s)
  BY DEF Sums
<1>2. h[{}] = 0
  BY <1>1 DEF SumStep
<1>3. ASSUME NEW s \in SUBSET S, s # {}
      PROVE  \E x \in s : /\ h[s] = g[x] + h[s \ {x}] /\ x \in S
                          /\ s \ {x} \in SUBSET S
  <2>1. PICK x \in s : x = Picked(s)
    BY <1>3 DEF Picked
  <2>2. h[s] = g[x] + h[s \ {x}]
    BY <1>1, <1>3, <2>1 DEF SumStep
  <2> QED
    BY <2>2
<1> DEFINE Good(s) == /\ h[s] \in Nat
                      /\ \A x \in s : h[s] = g[x] + h[s \ {x}]
           M == {k \in Nat : \E s \in SUBSET S : Cardinality(s) = k /\ ~Good(s)}
           m == Min(M)
<1>4. ASSUME M # {} PROVE FALSE
  <2>1. m \in M /\ \A k \in M : m <= k
    <3>1. M \in SUBSET Nat
      OBVIOUS
    <3> QED
      BY <1>4, <3>1, MinProperty
  <2> HIDE DEF m
  <2>2. PICK s \in SUBSET S : Cardinality(s) = m /\ ~Good(s)
    BY <2>1
  <2>3. ASSUME NEW u \in SUBSET S, Cardinality(u) \in Nat,
               Cardinality(u) < m
        PROVE  Good(u)
    <3> SUFFICES ASSUME ~Good(u) PROVE FALSE
      OBVIOUS
    <3>1. Cardinality(u) \in M
      BY <2>3
    <3>2. m <= Cardinality(u) /\ m \in Nat
      BY <2>1, <3>1
    <3> QED
      BY <2>3, <3>2
  <2>4. \A u \in SUBSET S : Cardinality(u) \in Nat /\ Cardinality(u) < m => Good(u)
    BY <2>3
  <2> HIDE DEF M
  <2>5. s # {}
    BY <1>2, <2>2
  <2>6. PICK c \in s : h[s] = g[c] + h[s \ {c}] /\ c \in S /\ s \ {c} \in SUBSET S
    BY <1>3, <2>5
  <2>7. \A x \in s : Good(s \ {x})
    <3> SUFFICES ASSUME NEW x \in s PROVE Good(s \ {x})
      OBVIOUS
    <3>1. /\ s \ {x} \in SUBSET S /\ Cardinality(s) \in Nat /\ Cardinality(s \ {x}) \in Nat
          /\ Cardinality(s \ {x}) = Cardinality(s) - 1
      BY PickedLeaves
    <3>2. Cardinality(s \ {x}) < m
      BY <2>2, <3>1
    <3> QED
      BY <2>4, <3>1, <3>2
  <2>8. h[s] \in Nat
    <3>1. g[c] \in Nat /\ h[s \ {c}] \in Nat
      BY <2>6, <2>7
    <3> QED
      BY <2>6, <3>1
  <2>9. ASSUME NEW x \in s PROVE h[s] = g[x] + h[s \ {x}]
    <3>1. CASE x = c
      BY <2>6, <3>1
    <3>2. CASE x # c
      <4>1. x \in s \ {c} /\ c \in s \ {x} /\ (s \ {c}) \ {x} = (s \ {x}) \ {c}
        BY <3>2
      <4>2. PICK d : d = h[(s \ {c}) \ {x}]
        OBVIOUS
      <4>3. h[s \ {c}] = g[x] + d
        BY <2>6, <2>7, <4>1, <4>2
      <4>4. h[s \ {x}] = g[c] + d
        BY <2>7, <2>9, <4>1, <4>2
      <4>5. g[c] \in Nat /\ g[x] \in Nat
        BY <2>6, <2>9
      <4>6. d \in Nat
        <5>1. /\ s \ {c} \in SUBSET S /\ Cardinality(s) \in Nat
              /\ Cardinality(s \ {c}) = Cardinality(s) - 1
          BY PickedLeaves
        <5>2. /\ (s \ {c}) \ {x} \in SUBSET S
              /\ Cardinality((s \ {c}) \ {x}) \in Nat
              /\ Cardinality((s \ {c}) \ {x}) = Cardinality(s \ {c}) - 1
          BY <4>1, <5>1, PickedLeaves
        <5>3. Cardinality((s \ {c}) \ {x}) < m
          BY <2>2, <5>1, <5>2
        <5>4. Good((s \ {c}) \ {x})
          BY <2>4, <5>2, <5>3
        <5> QED
          BY <4>2, <5>4
      <4> QED
        BY <2>6, <4>3, <4>4, <4>5, <4>6
    <3> QED
      BY <3>1, <3>2
  <2> QED
    BY <2>2, <2>8, <2>9
<1>5. \A s \in SUBSET S : Good(s)
  <2> SUFFICES ASSUME NEW s \in SUBSET S, ~Good(s) PROVE FALSE
    OBVIOUS
  <2>1. IsFiniteSet(s)
    BY FS_Subset
  <2>2. Cardinality(s) \in Nat
    BY <2>1, FS_CardinalityType
  <2>3. Cardinality(s) \in M
    BY <2>2
  <2> QED
    BY <1>4, <2>3
<1> QED
  BY <1>2, <1>5

\* A sum is at most another, when each element of the one has one of its own in the
\* other, that is no smaller.
Below(s, t, f, g, k) ==
    /\ \A x \in s : f[x] \in t /\ g[x] <= k[f[x]]
    /\ \A x, y \in s : f[x] = f[y] => x = y

LEMMA SumsCompare ==
    ASSUME NEW S, IsFiniteSet(S), NEW g \in [S -> Nat], NEW h, Sums(h, g, S),
           NEW T, IsFiniteSet(T), NEW k \in [T -> Nat], NEW e, Sums(e, k, T),
           NEW s \in SUBSET S, NEW t \in SUBSET T, NEW f, Below(s, t, f, g, k)
    PROVE  h[s] <= e[t]
<1> USE DEF Below
<1>1. /\ h[{}] = 0
      /\ \A u \in SUBSET S : h[u] \in Nat
      /\ \A u \in SUBSET S : \A x \in u : h[u] = g[x] + h[u \ {x}]
  BY SumSplits DEF Splits
<1>2. /\ \A v \in SUBSET T : e[v] \in Nat
      /\ \A v \in SUBSET T : \A y \in v : e[v] = k[y] + e[v \ {y}]
  BY SumSplits DEF Splits
<1> DEFINE Into(u, v) == \A x \in u : f[x] \in v
           M == {n \in Nat : \E u \in SUBSET s, v \in SUBSET t :
                                Cardinality(u) = n /\ Into(u, v) /\ ~(h[u] <= e[v])}
           m == Min(M)
<1>3. ASSUME M # {} PROVE FALSE
  <2>1. m \in M /\ \A n \in M : m <= n
    <3>1. M \in SUBSET Nat
      OBVIOUS
    <3> QED
      BY <1>3, <3>1, MinProperty
  <2> HIDE DEF m
  <2>2. PICK u \in SUBSET s, v \in SUBSET t :
           Cardinality(u) = m /\ Into(u, v) /\ ~(h[u] <= e[v])
    BY <2>1
  <2>3. u \in SUBSET S /\ v \in SUBSET T
    OBVIOUS
  <2>4. CASE u = {}
    BY <1>1, <1>2, <2>2, <2>3, <2>4
  <2>5. CASE u # {}
    <3>1. PICK x \in u : TRUE
      BY <2>5
    <3>2. PICK y : y = f[x]
      OBVIOUS
    <3>3. y \in v /\ g[x] <= k[y]
      BY <2>2, <3>2
    <3>4. h[u] = g[x] + h[u \ {x}] /\ e[v] = k[y] + e[v \ {y}]
      BY <1>1, <1>2, <2>3, <3>3
    <3>5. /\ Cardinality(u) \in Nat /\ Cardinality(u \ {x}) \in Nat
          /\ Cardinality(u \ {x}) = Cardinality(u) - 1
      BY <2>3, PickedLeaves
    <3>6. Into(u \ {x}, v \ {y})
      <4> SUFFICES ASSUME NEW z \in u \ {x} PROVE f[z] \in v \ {y}
        OBVIOUS
      <4>1. f[z] \in v /\ f[z] # y
        BY <2>2, <3>2
      <4> QED
        BY <4>1
    <3>7. h[u \ {x}] <= e[v \ {y}]
      <4> SUFFICES ASSUME ~(h[u \ {x}] <= e[v \ {y}]) PROVE FALSE
        OBVIOUS
      <4>1. u \ {x} \in SUBSET s /\ v \ {y} \in SUBSET t
        OBVIOUS
      <4>2. Cardinality(u \ {x}) \in M
        BY <3>5, <3>6, <4>1
      <4>3. m <= Cardinality(u \ {x}) /\ m \in Nat
        BY <2>1, <4>2
      <4> QED
        BY <2>2, <3>5, <4>3
    <3>8. /\ g[x] \in Nat /\ k[y] \in Nat
          /\ h[u \ {x}] \in Nat /\ e[v \ {y}] \in Nat
      BY <1>1, <1>2, <2>3, <3>3
    <3>9. h[u] <= e[v]
      BY <3>3, <3>4, <3>7, <3>8
    <3> QED
      BY <2>2, <3>9
  <2> QED
    BY <2>4, <2>5
<1>4. ASSUME ~(h[s] <= e[t]) PROVE FALSE
  <2>1. IsFiniteSet(s)
    BY FS_Subset
  <2>2. Cardinality(s) \in Nat
    BY <2>1, FS_CardinalityType
  <2>3. Into(s, t) /\ s \in SUBSET s /\ t \in SUBSET t
    OBVIOUS
  <2>4. Cardinality(s) \in M
    BY <1>4, <2>2, <2>3
  <2> QED
    BY <1>3, <2>4
<1> QED
  BY <1>4

\* SizeOf and PayloadOf are such sums.
Sizes(q, S) == [i \in S |-> q[i].size]
Lengths(q, S) == [i \in S |-> q[i].plen]

LEMMA BytesAreSums ==
    ASSUME NEW q \in Seq(Packet), NEW S \in SUBSET (1..Len(q))
    PROVE  /\ IsFiniteSet(S) /\ Sizes(q, S) \in [S -> Nat] /\ Lengths(q, S) \in [S -> Nat]
           /\ \E h : Sums(h, Sizes(q, S), S) /\ SizeOf(q, S) = h[S]
           /\ \E h : Sums(h, Lengths(q, S), S) /\ PayloadOf(q, S) = h[S]
<1> USE DEF Sizes, Lengths
<1>1. IsFiniteSet(S)
  <2>1. Len(q) \in Int /\ 1 \in Int
    OBVIOUS
  <2>2. IsFiniteSet(1..Len(q))
    BY <2>1, FS_Interval
  <2> QED
    BY <2>2, FS_Subset
<1>2. \A i \in S : q[i].size \in Nat /\ q[i].plen \in Nat
  <2>1. \A i \in S : q[i] \in Packet
    OBVIOUS
  <2> QED
    BY <2>1, PacketAssumption
<1>3. [i \in S |-> q[i].size] \in [S -> Nat] /\ [i \in S |-> q[i].plen] \in [S -> Nat]
  BY <1>2
<1>4. \E h : Sums(h, [i \in S |-> q[i].size], S) /\ SizeOf(q, S) = h[S]
  <2> DEFINE IsSize(h) == h = [s \in SUBSET S |-> IF s = {} THEN 0 ELSE
                                  q[CHOOSE x \in s : TRUE].size
                                  + h[s \ {CHOOSE x \in s : TRUE}]]
  <2>1. SizeOf(q, S) = (CHOOSE h : IsSize(h))[S]
    BY DEF SizeOf, MapThenSumSet, MapThenFoldSet
  <2>2. \A h : IsSize(h) <=> Sums(h, [i \in S |-> q[i].size], S)
    <3> SUFFICES ASSUME NEW h
                 PROVE  IsSize(h) <=> Sums(h, [i \in S |-> q[i].size], S)
      OBVIOUS
    <3>1. \A s \in SUBSET S : s # {} => Picked(s) \in S
      BY DEF Picked
    <3>2. \A s \in SUBSET S :
             SumStep(h, [i \in S |-> q[i].size], s)
             = IF s = {} THEN 0 ELSE q[CHOOSE x \in s : TRUE].size
                                     + h[s \ {CHOOSE x \in s : TRUE}]
      BY <3>1 DEF SumStep, Picked
    <3> QED
      BY <3>2 DEF Sums
  <2>3. \E h : Sums(h, [i \in S |-> q[i].size], S)
    BY <1>1, <1>3, SumsExist
  <2> DEFINE H == CHOOSE h : IsSize(h)
  <2> HIDE DEF IsSize
  <2>4. IsSize(H)
    BY <2>2, <2>3
  <2> QED
    BY <2>1, <2>2, <2>4
<1>5. \E h : Sums(h, [i \in S |-> q[i].plen], S) /\ PayloadOf(q, S) = h[S]
  <2> DEFINE IsSize(h) == h = [s \in SUBSET S |-> IF s = {} THEN 0 ELSE
                                  q[CHOOSE x \in s : TRUE].plen
                                  + h[s \ {CHOOSE x \in s : TRUE}]]
  <2>1. PayloadOf(q, S) = (CHOOSE h : IsSize(h))[S]
    BY DEF PayloadOf, MapThenSumSet, MapThenFoldSet
  <2>2. \A h : IsSize(h) <=> Sums(h, [i \in S |-> q[i].plen], S)
    <3> SUFFICES ASSUME NEW h
                 PROVE  IsSize(h) <=> Sums(h, [i \in S |-> q[i].plen], S)
      OBVIOUS
    <3>1. \A s \in SUBSET S : s # {} => Picked(s) \in S
      BY DEF Picked
    <3>2. \A s \in SUBSET S :
             SumStep(h, [i \in S |-> q[i].plen], s)
             = IF s = {} THEN 0 ELSE q[CHOOSE x \in s : TRUE].plen
                                     + h[s \ {CHOOSE x \in s : TRUE}]
      BY <3>1 DEF SumStep, Picked
    <3> QED
      BY <3>2 DEF Sums
  <2>3. \E h : Sums(h, [i \in S |-> q[i].plen], S)
    BY <1>1, <1>3, SumsExist
  <2> DEFINE H == CHOOSE h : IsSize(h)
  <2> HIDE DEF IsSize
  <2>4. IsSize(H)
    BY <2>2, <2>3
  <2> QED
    BY <2>1, <2>2, <2>4
<1> QED
  BY <1>1, <1>3, <1>4, <1>5

\* The packets that are copied behind the first were tallied: the walk stopped no earlier.
LEMMA CopiedWereTallied ==
    ASSUME NEW q \in Seq(Packet), NEW r \in Seq(Packet), r # <<>>, Len(r) = Len(q) - 1,
           \A i \in 1..Len(r) : r[i] = q[i + 1],
           NEW last \in 1..Len(q), \A i \in 1..Len(q) : i < last => ~q[i].m,
           NEW A \in SUBSET (1..last), NEW g \in [A -> Nat], \A i \in A : g[i] = q[i].plen,
           IsFiniteSet(A), NEW h, Sums(h, g, A)
    PROVE  /\ h[A \ {1}] <= calculate_frame_size(r)
           /\ calculate_frame_size(r) \in Nat
<1> DEFINE W == {i \in 1..Len(r) : r[i].m} \cup {Len(r)}
<1>1. Len(r) \in Nat /\ Len(q) \in Nat /\ Len(r) \in 1..Len(r)
  OBVIOUS
<1>2. WalkEnd(r) \in W
  <2>1. W \in SUBSET Nat /\ W # {}
    BY <1>1
  <2> QED
    BY <2>1, MinProperty DEF WalkEnd
<1>3. WalkEnd(r) \in 1..Len(r) /\ WalkEnd(r) >= last - 1
  <2>1. WalkEnd(r) \in 1..Len(r)
    BY <1>1, <1>2
  <2>2. CASE WalkEnd(r) = Len(r)
    BY <1>1, <2>1, <2>2
  <2>3. CASE r[WalkEnd(r)].m
    <3>1. q[WalkEnd(r) + 1].m /\ WalkEnd(r) + 1 \in 1..Len(q)
      BY <1>1, <2>1, <2>3
    <3>2. ~(WalkEnd(r) + 1 < last)
      BY <3>1
    <3> QED
      BY <2>1, <3>2
  <2> QED
    BY <1>2, <2>1, <2>2, <2>3
<1> HIDE DEF W
<1>4. PICK B : B = 1..WalkEnd(r)
  OBVIOUS
<1>5. calculate_frame_size(r) = SizeOf(r, B)
  BY <1>4 DEF calculate_frame_size
<1>6. B \in SUBSET (1..Len(r))
  BY <1>1, <1>3, <1>4
<1>7. PICK k : k = Sizes(r, B)
  OBVIOUS
<1>8. IsFiniteSet(B) /\ k \in [B -> Nat] /\ \E e : Sums(e, k, B) /\ SizeOf(r, B) = e[B]
  BY <1>6, <1>7, BytesAreSums
<1>9. PICK e : Sums(e, k, B) /\ SizeOf(r, B) = e[B]
  BY <1>8
<1>10. PICK f : f = [i \in Nat |-> i - 1]
  OBVIOUS
<1>11. ASSUME NEW x \in A \ {1}
       PROVE  f[x] = x - 1 /\ f[x] \in B /\ x \in Nat /\ g[x] <= k[f[x]]
  <2>1. x \in 1..last /\ x # 1 /\ x \in Nat
    OBVIOUS
  <2>2. x - 1 \in 1..WalkEnd(r) /\ f[x] = x - 1
    <3>1. x - 1 \in 1..WalkEnd(r)
      BY <1>3, <2>1
    <3> QED
      BY <1>10, <2>1, <3>1
  <2>3. x - 1 \in 1..Len(r) /\ (x - 1) + 1 = x /\ x \in 1..Len(q)
    BY <1>1, <1>3, <2>1, <2>2
  <2>4. r[x - 1] = q[x] /\ q[x] \in Packet
    BY <2>3
  <2>5. k[x - 1] = q[x].size
    BY <1>4, <1>7, <2>2, <2>4 DEF Sizes
  <2>6. g[x] = q[x].plen
    OBVIOUS
  <2>7. q[x].plen <= q[x].size
    BY <2>4, PacketAssumption
  <2> QED
    BY <1>4, <2>1, <2>2, <2>5, <2>6, <2>7
<1>12. PICK s \in SUBSET A : s = A \ {1}
  OBVIOUS
<1>13. Below(s, B, f, g, k)
  <2>1. \A x \in s : f[x] \in B /\ g[x] <= k[f[x]]
    BY <1>11, <1>12
  <2>2. ASSUME NEW x \in s, NEW y \in s, f[x] = f[y] PROVE x = y
    <3>1. x - 1 = y - 1 /\ x \in Nat /\ y \in Nat
      BY <1>11, <1>12, <2>2
    <3> QED
      BY <3>1
  <2> QED
    BY <2>1, <2>2 DEF Below
<1>14. h[s] <= e[B]
  BY <1>8, <1>9, <1>13, SumsCompare
<1>15. e[B] \in Nat
  BY <1>8, <1>9, SumSplits DEF Splits
<1> QED
  BY <1>5, <1>9, <1>12, <1>14, <1>15

\* So what the loop copies fits into what was allocated.
LEMMA CopiedFits ==
    ASSUME NEW q \in Seq(Packet), q # <<>>, LoopEnds(q) # {}
    PROVE  LET copied == PayloadOf(q, {i \in 1..Min(LoopEnds(q)) : q[i].ok})
               size   == frame_size(Head(q), Tail(q))
           IN  copied \in Nat /\ size \in Nat /\ copied <= size
<1>1. /\ Len(q) \in Nat /\ 1 \in 1..Len(q) /\ Head(q) = q[1] /\ q[1] \in Packet
      /\ Tail(q) \in Seq(Packet)
  OBVIOUS
<1>2. q[1].plen \in Nat
  BY <1>1, PacketAssumption
<1>3. PICK last : /\ last = Min(LoopEnds(q)) /\ last \in LoopEnds(q)
                  /\ \A i \in LoopEnds(q) : last <= i
  <2>1. LoopEnds(q) \in SUBSET Nat
    BY DEF LoopEnds
  <2> QED
    BY <2>1, MinProperty
<1>4. last \in 1..Len(q) /\ \A i \in 1..Len(q) : i < last => ~q[i].m
  <2>1. \A i \in 1..Len(q) : i \in LoopEnds(q) <=> q[i].m \/ ~q[i].ok
    BY DEF LoopEnds
  <2>2. last \in 1..Len(q)
    BY <1>3 DEF LoopEnds
  <2>3. ASSUME NEW i \in 1..Len(q), i < last PROVE ~q[i].m
    <3>1. ~(last <= i)
      BY <2>2, <2>3
    <3>2. i \notin LoopEnds(q)
      BY <1>3, <3>1
    <3> QED
      BY <2>1, <3>2
  <2> QED
    BY <2>2, <2>3
<1>5. PICK A : A = {i \in 1..last : q[i].ok}
  OBVIOUS
<1>6. A \in SUBSET (1..Len(q)) /\ A \in SUBSET (1..last)
  BY <1>1, <1>4, <1>5
<1>7. PICK r \in Seq(Packet) : r = Tail(q)
  BY <1>1
<1>8. Len(r) = Len(q) - 1 /\ \A i \in 1..Len(r) : r[i] = q[i + 1]
  BY <1>1, <1>7
<1>9. PICK g : g = Lengths(q, A)
  OBVIOUS
<1>10. /\ IsFiniteSet(A) /\ g \in [A -> Nat] /\ \A i \in A : g[i] = q[i].plen
       /\ \E h : Sums(h, g, A) /\ PayloadOf(q, A) = h[A]
  <2>1. \A i \in A : g[i] = q[i].plen
    BY <1>9 DEF Lengths
  <2> QED
    BY <1>6, <1>9, <2>1, BytesAreSums
<1>11. PICK h : Sums(h, g, A) /\ PayloadOf(q, A) = h[A]
  BY <1>10
<1>12. /\ h[{}] = 0 /\ \A s \in SUBSET A : h[s] \in Nat
       /\ \A s \in SUBSET A : \A x \in s : h[s] = g[x] + h[s \ {x}]
  <2>1. Splits(h, g, A)
    BY <1>10, <1>11, SumSplits
  <2> QED
    BY <2>1 DEF Splits
<1>13. PICK d \in Nat : d = h[A \ {1}]
  BY <1>12
<1>14. h[A] <= q[1].plen + d /\ h[A] \in Nat
  <2>1. CASE 1 \in A
    <3>1. h[A] = g[1] + d /\ g[1] = q[1].plen
      BY <1>10, <1>12, <1>13, <2>1
    <3> QED
      BY <1>2, <3>1
  <2>2. CASE 1 \notin A
    <3>1. A \ {1} = A
      BY <2>2
    <3>2. h[A] = d
      BY <1>13, <3>1
    <3> QED
      BY <1>2, <3>2
  <2> QED
    BY <2>1, <2>2
<1>15. d <= calculate_frame_size(r) /\ calculate_frame_size(r) \in Nat
  <2>1. CASE r = <<>>
    <3>1. Len(r) = 0
      BY <2>1
    <3>2. Len(q) = 1
      BY <1>1, <1>8, <3>1
    <3>3. A \ {1} = {}
      BY <1>6, <3>2
    <3>4. d = 0
      BY <1>12, <1>13, <3>3
    <3>5. calculate_frame_size(r) = 0
      BY <2>1 DEF calculate_frame_size
    <3> QED
      BY <3>4, <3>5
  <2>2. CASE r # <<>>
    BY <1>4, <1>6, <1>8, <1>10, <1>11, <1>13, <2>2, CopiedWereTallied
  <2> QED
    BY <2>1, <2>2
<1>16. frame_size(Head(q), Tail(q)) = q[1].plen + calculate_frame_size(r)
  BY <1>1, <1>7 DEF frame_size
<1>17. /\ PayloadOf(q, A) \in Nat /\ frame_size(Head(q), Tail(q)) \in Nat
       /\ PayloadOf(q, A) <= frame_size(Head(q), Tail(q))
  BY <1>2, <1>11, <1>14, <1>15, <1>16
<1> QED
  BY <1>3, <1>5, <1>17

\* A push that finds the loop's end copies within the allocation.
THEOREM CopiesWithinAllocation == Spec => []NoOverrun
<1>1. Init => NoOverrun
  BY DEF Init, NoOverrun
<1>2. IInv /\ NoOverrun /\ [Next]_vars => NoOverrun'
  <2> SUFFICES ASSUME IInv, NoOverrun, [Next]_vars PROVE NoOverrun'
    OBVIOUS
  <2>1. ASSUME NEW p \in Packet, Push(p) PROVE NoOverrun'
    <3>1. packet_buffer \in Seq(Packet) /\ fault' = Pushed(p).fault
      BY <2>1 DEF IInv, TypeOK, Push
    <3>2. PICK q : q = Append(packet_buffer, p)
      OBVIOUS
    <3>3. q \in Seq(Packet) /\ q # <<>>
      BY <3>1, <3>2, AppendProperties
    <3>4. CASE p.m
      <4>1. Pushed(p) = try_parse(q, has_first_keyframe)
        BY <3>2, <3>4 DEF Pushed, rtp_buffer_push
      <4>2. CASE Refused(Head(q), has_first_keyframe)
        BY <3>1, <4>1, <4>2 DEF try_parse, NoOverrun
      <4>3. CASE ~Refused(Head(q), has_first_keyframe) /\ LoopEnds(q) = {}
        BY <3>1, <4>1, <4>3 DEF try_parse, NoOverrun
      <4>4. CASE ~Refused(Head(q), has_first_keyframe) /\ LoopEnds(q) # {}
        <5>1. PICK c : c = PayloadOf(q, {i \in 1..Min(LoopEnds(q)) : q[i].ok})
          OBVIOUS
        <5>2. PICK z : z = frame_size(Head(q), Tail(q))
          OBVIOUS
        <5>3. Pushed(p).fault = IF c > z THEN "overrun" ELSE "none"
          BY <4>1, <4>4, <5>1, <5>2 DEF try_parse
        <5>4. c \in Nat /\ z \in Nat /\ c <= z
          BY <3>3, <4>4, <5>1, <5>2, CopiedFits
        <5>5. ~(c > z)
          BY <5>4
        <5> QED
          BY <3>1, <5>3, <5>5 DEF NoOverrun
      <4> QED
        BY <4>2, <4>3, <4>4
    <3>5. CASE ~p.m
      BY <3>1, <3>5 DEF Pushed, NoOverrun
    <3> QED
      BY <3>4, <3>5
  <2>2. CASE Pop
    BY <2>2 DEF Pop, NoOverrun
  <2>3. CASE UNCHANGED vars
    BY <2>3 DEF vars, NoOverrun
  <2> QED
    BY <2>1, <2>2, <2>3 DEF Next
<1> QED
  BY InitIInv, NextIInv, <1>1, <1>2, PTL DEF Spec
=============================================================================
