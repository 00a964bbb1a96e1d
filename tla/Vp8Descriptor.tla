----------------------------- MODULE Vp8Descriptor -----------------------------
(*****************************************************************************)
(* The VP8 payload descriptor as pup reads it (Parse and its helpers in      *)
(* pup/pup/vp8_depacketizer.c): from the bytes that follow the RTP header to *)
(* a packet the depacketizer can use, or a refusal. The descriptor has one   *)
(* byte of flags, X R N S PartID; with X another one, I L T K; and then what *)
(* those announce: a PictureID of 7 or of 15 bits, a TL0PICIDX, and a byte   *)
(* TID Y KEYIDX.                                                             *)
(*                                                                           *)
(* A parse under way is a record: ok, the fields read, and the bytes left.   *)
(*****************************************************************************)
EXTENDS Integers, Sequences

CONSTANTS
    Descriptors,   \* the descriptors, as fields, that Layout writes
    Payloads       \* the byte sequences that may follow one

\* A bit of byte b, by its weight: b & weight.
Bit(b, weight) == (b \div weight) % 2 = 1

kNoPictureId == -1
kNoTl0PicIdx == -1
kNoTemporalIdx == 255
kNoKeyIdx == -1

Byte == 0..255
MaxPictureId == 32767
PictureId == 0..MaxPictureId

\* The fields when no extension is present.
NoExtension ==
    [pictureId |-> kNoPictureId, tl0PicIdx |-> kNoTl0PicIdx,
     temporalIdx |-> kNoTemporalIdx, layerSync |-> FALSE, keyIdx |-> kNoKeyIdx]

\* What the layout can hold: each field is absent or in its range, the Y bit comes with
\* a TID, and long says that the PictureID takes two bytes.
Fields ==
    [pictureId : {kNoPictureId} \cup PictureId, tl0PicIdx : {kNoTl0PicIdx} \cup Byte,
     temporalIdx : {kNoTemporalIdx} \cup 0..3, layerSync : BOOLEAN,
     keyIdx : {kNoKeyIdx} \cup 0..31]
Descriptor ==
    {d \in [fields : Fields, long : BOOLEAN, nonReference : BOOLEAN, beginning : BOOLEAN,
            partitionId : 0..8] :
        /\ d.fields.layerSync => d.fields.temporalIdx # kNoTemporalIdx
        /\ d.fields.pictureId > 127 => d.long
        /\ d.long => d.fields.pictureId # kNoPictureId}

ASSUME DescriptorAssumption == Descriptors \subseteq Descriptor /\ Payloads \subseteq Seq(Byte)

Failed == [ok |-> FALSE]
Parsing(fields, rest) == [ok |-> TRUE, fields |-> fields, rest |-> rest]

-----------------------------------------------------------------------------
\* Mutant: the high part of a long PictureID is shifted by the seven bits it has.
ParseVP8PictureIDShort(p) ==
    LET b == Head(p.rest)
    IN  IF p.rest = <<>> THEN Failed
        ELSE IF ~Bit(b, 128) THEN Parsing([p.fields EXCEPT !.pictureId = b], Tail(p.rest))
        ELSE IF Tail(p.rest) = <<>> THEN Failed
        ELSE Parsing([p.fields EXCEPT !.pictureId = (b % 128) * 128 + Head(Tail(p.rest))],
                     Tail(Tail(p.rest)))

\* A PictureID of one byte, or of two when the first has its high bit set.
ParseVP8PictureID(p) ==
    LET b == Head(p.rest)
    IN  IF p.rest = <<>> THEN Failed
        ELSE IF ~Bit(b, 128) THEN Parsing([p.fields EXCEPT !.pictureId = b], Tail(p.rest))
        ELSE IF Tail(p.rest) = <<>> THEN Failed
        ELSE Parsing([p.fields EXCEPT !.pictureId = (b % 128) * 256 + Head(Tail(p.rest))],
                     Tail(Tail(p.rest)))

\* Mutant: the length is not asked: it wraps, and what lies behind the packet is
\* taken for its payload.
ParseVP8Tl0PicIdxUnasked(p) ==
    IF p.rest = <<>> THEN Parsing(p.fields, <<1>>)
    ELSE Parsing([p.fields EXCEPT !.tl0PicIdx = Head(p.rest)], Tail(p.rest))

\* One byte.
ParseVP8Tl0PicIdx(p) ==
    IF p.rest = <<>> THEN Failed
    ELSE Parsing([p.fields EXCEPT !.tl0PicIdx = Head(p.rest)], Tail(p.rest))

\* One byte for both, each read only if it was announced.
ParseVP8TIDAndKeyIdx(p, has_tid, has_key_idx) ==
    LET b == Head(p.rest)
        f == IF has_tid
             THEN [p.fields EXCEPT !.temporalIdx = b \div 64, !.layerSync = Bit(b, 32)]
             ELSE p.fields
        g == IF has_key_idx THEN [f EXCEPT !.keyIdx = b % 32] ELSE f
    IN  IF p.rest = <<>> THEN Failed ELSE Parsing(g, Tail(p.rest))

\* The extension that q, not empty, begins with. A helper that fails ends it.
ParseVP8Extension(q) ==
    LET x  == Head(q)
        p0 == Parsing(NoExtension, Tail(q))
        p1 == IF Bit(x, 128) THEN ParseVP8PictureID(p0) ELSE p0
        p2 == IF p1.ok /\ Bit(x, 64) THEN ParseVP8Tl0PicIdx(p1) ELSE p1
    IN  IF p2.ok /\ (Bit(x, 32) \/ Bit(x, 16))
        THEN ParseVP8TIDAndKeyIdx(p2, Bit(x, 32), Bit(x, 16)) ELSE p2

\* A keyframe begins with an uncompressed header of ten bytes.
ParseVP8FrameSize(key, data_length) == key => data_length >= 10

\* The P bit, at the beginning of the first partition, marks a delta frame.
Parse(bytes) ==
    LET flags   == Head(bytes)
        partid  == flags % 16
        after   == IF Bit(flags, 128) THEN ParseVP8Extension(Tail(bytes))
                   ELSE Parsing(NoExtension, Tail(bytes))
        key     == Bit(flags, 16) /\ partid = 0 /\ ~Bit(Head(after.rest), 1)
    IN  IF Len(bytes) <= 1 \/ partid > 8 THEN Failed
        ELSE IF ~after.ok \/ after.rest = <<>> THEN Failed
        ELSE IF ~ParseVP8FrameSize(key, Len(after.rest)) THEN Failed
        ELSE [ok |-> TRUE, key |-> key, fields |-> after.fields,
              nonReference |-> Bit(flags, 32), beginning |-> Bit(flags, 16),
              partitionId |-> partid, payload |-> after.rest]

-----------------------------------------------------------------------------
\* A byte of flags, from its bits, the highest first.
Flags(bits) ==
    LET v(i, weight) == IF bits[i] THEN weight ELSE 0
    IN  v(1, 128) + v(2, 64) + v(3, 32) + v(4, 16) + v(5, 8) + v(6, 4) + v(7, 2) + v(8, 1)

\* The bytes of each optional part: none if it is absent.
LongPictureID(id) == <<128 + id \div 256, id % 256>>
PictureIDBytes(id, long) ==
    IF id = kNoPictureId THEN <<>> ELSE IF long THEN LongPictureID(id) ELSE <<id>>
Tl0PicIdxBytes(idx) == IF idx = kNoTl0PicIdx THEN <<>> ELSE <<idx>>
TIDAndKeyIdxBytes(tid, sync, key) ==
    IF tid = kNoTemporalIdx /\ key = kNoKeyIdx THEN <<>>
    ELSE <<(IF tid = kNoTemporalIdx THEN 0 ELSE tid * 64 + (IF sync THEN 32 ELSE 0))
           + (IF key = kNoKeyIdx THEN 0 ELSE key)>>

\* The flags of the extension: which of the parts are there.
Announced(f) == <<f.pictureId # kNoPictureId, f.tl0PicIdx # kNoTl0PicIdx,
                  f.temporalIdx # kNoTemporalIdx, f.keyIdx # kNoKeyIdx,
                  FALSE, FALSE, FALSE, FALSE>>
HasExtension(f) == \E i \in 1..4 : Announced(f)[i]

\* The reference: the bytes of a descriptor, field by field as the diagram above
\* Parse draws it.
Layout(d) ==
    LET f == d.fields
    IN  <<Flags(<<HasExtension(f), FALSE, d.nonReference, d.beginning, FALSE, FALSE, FALSE, FALSE>>)
            + d.partitionId>>
        \o (IF HasExtension(f) THEN <<Flags(Announced(f))>> ELSE <<>>)
        \o PictureIDBytes(f.pictureId, d.long)
        \o Tl0PicIdxBytes(f.tl0PicIdx)
        \o TIDAndKeyIdxBytes(f.temporalIdx, f.layerSync, f.keyIdx)

\* A payload the descriptor may come with: not empty, and a keyframe has its header.
Carries(d, payload) ==
    /\ payload # <<>>
    /\ d.beginning /\ d.partitionId = 0 /\ Head(payload) % 2 = 0 => Len(payload) >= 10

\* Parse reads back every descriptor that can be written, and finds the payload:
\* whichever of the fields are there, and however long the PictureID is.
ReadsLayout ==
    \A d \in Descriptors, payload \in Payloads :
        LET r == Parse(Layout(d) \o payload)
        IN  IF ~Carries(d, payload) THEN ~r.ok
            ELSE /\ r.ok /\ r.fields = d.fields /\ r.payload = payload
                 /\ r.nonReference = d.nonReference /\ r.beginning = d.beginning
                 /\ r.partitionId = d.partitionId

\* A packet that ends within its descriptor, or right after it, is refused, and no
\* byte is missed in reading it.
RefusesTruncated ==
    \A d \in Descriptors : \A n \in 0..Len(Layout(d)) :
        LET r == Parse(SubSeq(Layout(d), 1, n)) IN ~r.ok
=============================================================================
