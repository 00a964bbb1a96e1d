------------------------ MODULE Vp8DescriptorProofs ------------------------
(***************************************************************************)
(* The parser of the VP8 payload descriptor, for any descriptor that can   *)
(* be written and any payload.                                             *)
(*                                                                         *)
(* What is written is read back one field at a time: each helper takes the *)
(* bytes of its field off the front of what is left (Reads...). That every *)
(* truncation is refused needs no look at where it falls: what the parser  *)
(* accepts it accepts with anything behind it, and then the payload has    *)
(* that behind it too (ParseGrows). A truncation that was accepted would,  *)
(* completed, have a payload longer than the one that was written.         *)
(***************************************************************************)
EXTENDS MCVp8Depacketizer, SequenceTheorems, TLAPS

-----------------------------------------------------------------------------
LEMMA OneByte ==
    ASSUME NEW S, NEW x \in S, NEW q \in Seq(S)
    PROVE  /\ <<x>> \o q \in Seq(S) /\ <<x>> \o q # <<>> /\ Len(<<x>> \o q) = Len(q) + 1
           /\ Head(<<x>> \o q) = x /\ Tail(<<x>> \o q) = q
<1>1. <<x>> \in Seq(S) /\ Len(<<x>>) = 1 /\ <<x>>[1] = x /\ Len(q) \in Nat
  OBVIOUS
<1>2. /\ <<x>> \o q \in Seq(S) /\ Len(<<x>> \o q) = Len(q) + 1
      /\ (<<x>> \o q)[1] = x
      /\ \A i \in 1..Len(q) : (<<x>> \o q)[i + 1] = q[i]
  BY <1>1
<1>3. <<x>> \o q # <<>> /\ Head(<<x>> \o q) = x
  BY <1>1, <1>2
<1>4. Tail(<<x>> \o q) = q
  <2>1. Tail(<<x>> \o q) \in Seq(S) /\ Len(Tail(<<x>> \o q)) = Len(q)
    BY <1>1, <1>2, <1>3
  <2>2. \A i \in 1..Len(q) : Tail(<<x>> \o q)[i] = q[i]
    BY <1>1, <1>2, <1>3
  <2>3. QED
    BY <2>1, <2>2, SeqEqual
<1>5. QED
  BY <1>2, <1>3, <1>4

OneThenOne(x, y, q) == <<x, y>> \o q = <<x>> \o (<<y>> \o q)

LEMMA TwoBytes ==
    ASSUME NEW S, NEW x \in S, NEW y \in S, NEW q \in Seq(S)
    PROVE  OneThenOne(x, y, q)
<1>1. <<x>> \in Seq(S) /\ <<y>> \in Seq(S) /\ <<x, y>> \in Seq(S)
  OBVIOUS
<1>2. Len(<<x>>) = 1 /\ Len(<<y>>) = 1 /\ Len(<<x, y>>) = 2
  OBVIOUS
<1>3. <<x>> \o <<y>> \in Seq(S) /\ Len(<<x>> \o <<y>>) = 2
  BY <1>1, <1>2
<1>4. \A i \in 1..2 : (<<x>> \o <<y>>)[i] = <<x, y>>[i]
  <2>1. ASSUME NEW i \in 1..2 PROVE i = 1 \/ i = 2
    OBVIOUS
  <2>2. (<<x>> \o <<y>>)[1] = x /\ (<<x>> \o <<y>>)[2] = y
    BY <1>1, <1>2
  <2>3. QED
    BY <2>1, <2>2
<1>5. <<x>> \o <<y>> = <<x, y>>
  BY <1>1, <1>2, <1>3, <1>4, SeqEqual
<1>6. (<<x>> \o <<y>>) \o q = <<x>> \o (<<y>> \o q)
  BY <1>1, ConcatAssociative
<1>7. QED
  BY <1>5, <1>6, Zenon DEF OneThenOne

-----------------------------------------------------------------------------
\* The fields of a descriptor, one by one.
FieldsOf(id, idx, tid, sync, key) ==
    [pictureId |-> id, tl0PicIdx |-> idx, temporalIdx |-> tid, layerSync |-> sync, keyIdx |-> key]

LEMMA ParsingIs ==
    ASSUME NEW f, NEW q
    PROVE  Parsing(f, q).ok = TRUE /\ Parsing(f, q).fields = f /\ Parsing(f, q).rest = q
BY DEF Parsing

-----------------------------------------------------------------------------
\* The two bytes of a long PictureID, and the bit that tells it from a short one.
LEMMA PictureIdIs ==
    ASSUME NEW id \in PictureId
    PROVE  id \in Int /\ 0 <= id /\ id <= MaxPictureId
<1>1. MaxPictureId \in Int
  BY DEF MaxPictureId
<1>2. QED
  BY <1>1 DEF PictureId

LEMMA Halves ==
    ASSUME NEW id \in PictureId
    PROVE  \E h \in 0..127, l \in Byte : h = id \div 256 /\ l = id % 256 /\ h * 256 + l = id
<1> DEFINE h == id \div 256
           l == id % 256
<1>1. id \in Int /\ 0 <= id /\ id <= 32767
  BY PictureIdIs DEF MaxPictureId
<1>2. h = id \div 256 /\ l = id % 256 /\ h \in Int /\ l \in Int
  BY <1>1
<1> HIDE DEF h, l
<1>3. 0 <= h /\ h <= 127 /\ 0 <= l /\ l <= 255
  BY <1>1, <1>2
<1>4. h * 256 + l = id
  BY <1>1, <1>2
<1>5. h \in 0..127 /\ l \in Byte
  BY <1>2, <1>3 DEF Byte
<1>6. QED
  BY <1>2, <1>4, <1>5

LEMMA LongBit ==
    ASSUME NEW h \in 0..127
    PROVE  128 + h \in Byte /\ (128 + h) % 128 = h /\ Bit(128 + h, 128)
<1> DEFINE x == 128 + h
<1>1. h \in Int /\ 0 <= h /\ h <= 127 /\ x = 128 + h /\ x \in Int
  OBVIOUS
<1> HIDE DEF x
<1>2. x \div 128 = 1
  BY <1>1
<1>3. x % 128 = h /\ x \in Byte
  BY <1>1 DEF Byte
<1>4. 1 % 2 = 1
  OBVIOUS
<1>5. Bit(x, 128)
  BY <1>2, <1>4 DEF Bit
<1>6. QED
  BY <1>3, <1>5 DEF x

ShortId == 0..127

LEMMA ShortBit ==
    ASSUME NEW id \in ShortId
    PROVE  id \in Byte /\ ~Bit(id, 128)
<1>1. id \in Int /\ 0 <= id /\ id <= 127
  BY DEF ShortId
<1>2. id \div 128 = 0
  BY <1>1
<1>3. QED
  BY <1>1, <1>2 DEF Bit, Byte

\* A PictureID is read back, from two bytes or from one.
LEMMA ReadsLongPictureID ==
    ASSUME NEW id \in PictureId, NEW q \in Seq(Byte), NEW a, NEW idx, NEW tid, NEW sync, NEW key
    PROVE  /\ LongPictureID(id) \in Seq(Byte)
           /\ ParseVP8PictureID(Parsing(FieldsOf(a, idx, tid, sync, key), LongPictureID(id) \o q))
              = Parsing(FieldsOf(id, idx, tid, sync, key), q)
<1> DEFINE f == FieldsOf(a, idx, tid, sync, key)
           g == FieldsOf(id, idx, tid, sync, key)
<1>0. PICK h \in 0..127, y \in Byte : h = id \div 256 /\ y = id % 256 /\ h * 256 + y = id
  BY Halves
<1> DEFINE x == 128 + h
           w == <<x>> \o (<<y>> \o q)
           p == Parsing(f, w)
<1>1. [f EXCEPT !.pictureId = id] = g
  BY DEF FieldsOf
<1>2. y \in Byte /\ x \in Byte /\ x % 128 = h /\ Bit(x, 128)
  BY LongBit
<1>3. h * 256 + y = id
  BY <1>0
<1>4. LongPictureID(id) = <<x, y>>
  BY <1>0 DEF LongPictureID
<1> HIDE DEF x
<1>5. <<x, y>> \in Seq(Byte) /\ <<x, y>> \o q = w
  <2>1. <<x, y>> \in Seq(Byte)
    BY <1>2
  <2>2. OneThenOne(x, y, q)
    BY <1>2, TwoBytes, Zenon
  <2>3. QED
    BY <2>1, <2>2, Zenon DEF OneThenOne
<1>6. <<y>> \o q \in Seq(Byte) /\ <<y>> \o q # <<>> /\ Head(<<y>> \o q) = y /\ Tail(<<y>> \o q) = q
  BY <1>2, OneByte, Zenon
<1>7. w # <<>> /\ Head(w) = x /\ Tail(w) = <<y>> \o q
  <2> DEFINE r == <<y>> \o q
  <2>1. x \in Byte /\ r \in Seq(Byte)
    BY <1>2, <1>6
  <2> HIDE DEF r, x
  <2>2. <<x>> \o r # <<>> /\ Head(<<x>> \o r) = x /\ Tail(<<x>> \o r) = r
    BY <2>1, OneByte, Zenon
  <2>3. QED
    BY <2>2, Zenon DEF r
<1> HIDE DEF w, f, g
<1>8. (Head(w) % 128) * 256 + Head(Tail(w)) = id
  BY <1>2, <1>3, <1>6, <1>7, Zenon
<1>9. p.rest = w /\ p.fields = f
  BY DEF Parsing
<1> HIDE DEF p
<1>10. ParseVP8PictureID(p) = Parsing([f EXCEPT !.pictureId = id], q)
  BY <1>2, <1>6, <1>7, <1>8, <1>9, Zenon DEF ParseVP8PictureID
<1>11. LongPictureID(id) \in Seq(Byte)
  BY <1>4, <1>5, Zenon
<1>12. ParseVP8PictureID(Parsing(f, LongPictureID(id) \o q)) = Parsing(g, q)
  BY <1>1, <1>4, <1>5, <1>10, Zenon DEF p
<1>13. QED
  BY <1>11, <1>12 DEF f, g

ShortPictureID(id) == <<id>>

LEMMA ReadsShortPictureID ==
    ASSUME NEW id \in ShortId, NEW q \in Seq(Byte), NEW a, NEW idx, NEW tid, NEW sync, NEW key
    PROVE  /\ ShortPictureID(id) \in Seq(Byte)
           /\ ParseVP8PictureID(Parsing(FieldsOf(a, idx, tid, sync, key), ShortPictureID(id) \o q))
              = Parsing(FieldsOf(id, idx, tid, sync, key), q)
<1> DEFINE f == FieldsOf(a, idx, tid, sync, key)
           g == FieldsOf(id, idx, tid, sync, key)
           w == <<id>> \o q
           p == Parsing(f, w)
<1>1. [f EXCEPT !.pictureId = id] = g
  BY DEF FieldsOf
<1>2. id \in Byte /\ ~Bit(id, 128)
  BY ShortBit
<1>3. <<id>> \in Seq(Byte)
  BY <1>2
<1>4. w # <<>> /\ Head(w) = id /\ Tail(w) = q
  BY <1>2, OneByte, Zenon
<1> HIDE DEF w, f, g
<1>5. p.rest = w /\ p.fields = f
  BY DEF Parsing
<1> HIDE DEF p
<1>6. ParseVP8PictureID(p) = Parsing([f EXCEPT !.pictureId = id], q)
  BY <1>2, <1>4, <1>5, Zenon DEF ParseVP8PictureID
<1>7. QED
  BY <1>1, <1>3, <1>6 DEF p, w, f, g, ShortPictureID

LEMMA ReadsTl0PicIdx ==
    ASSUME NEW b \in Byte, NEW q \in Seq(Byte), NEW id, NEW a, NEW tid, NEW sync, NEW key
    PROVE  /\ Tl0PicIdxBytes(b) \in Seq(Byte)
           /\ ParseVP8Tl0PicIdx(Parsing(FieldsOf(id, a, tid, sync, key), Tl0PicIdxBytes(b) \o q))
              = Parsing(FieldsOf(id, b, tid, sync, key), q)
<1> DEFINE w == <<b>> \o q
           f == FieldsOf(id, a, tid, sync, key)
<1>1. w # <<>> /\ Head(w) = b /\ Tail(w) = q
  BY OneByte, Zenon
<1>2. [f EXCEPT !.tl0PicIdx = b] = FieldsOf(id, b, tid, sync, key)
  BY DEF FieldsOf
<1>3. Tl0PicIdxBytes(b) = <<b>> /\ <<b>> \in Seq(Byte)
  BY DEF Tl0PicIdxBytes, Byte, kNoTl0PicIdx
<1> DEFINE p == Parsing(f, w)
<1> HIDE DEF w, f
<1>4. p.rest = w /\ p.fields = f
  BY DEF Parsing
<1> HIDE DEF p
<1>5. ParseVP8Tl0PicIdx(p) = Parsing([f EXCEPT !.tl0PicIdx = b], q)
  BY <1>1, <1>4, Zenon DEF ParseVP8Tl0PicIdx
<1>6. QED
  BY <1>2, <1>3, <1>5 DEF p, w, f

-----------------------------------------------------------------------------
\* The parts of the extension, there or not: each takes its own bytes and fills in its
\* own fields.
PictureIDFits(id, long) ==
    /\ id \in {kNoPictureId} \cup PictureId /\ long \in BOOLEAN
    /\ id = kNoPictureId \/ long = TRUE \/ id \in ShortId
Tl0PicIdxFits(idx) == idx \in {kNoTl0PicIdx} \cup Byte
TIDAndKeyIdxFit(tid, sync, key) ==
    /\ tid \in {kNoTemporalIdx} \cup 0..3 /\ sync \in BOOLEAN /\ key \in {kNoKeyIdx} \cup 0..31
    /\ sync => tid # kNoTemporalIdx

LEMMA TakesPictureID ==
    ASSUME NEW id, NEW long, PictureIDFits(id, long),
           NEW q \in Seq(Byte), NEW idx, NEW tid, NEW sync, NEW key
    PROVE  /\ PictureIDBytes(id, long) \in Seq(Byte)
           /\ LET p == Parsing(FieldsOf(kNoPictureId, idx, tid, sync, key), PictureIDBytes(id, long) \o q)
              IN  (IF id # kNoPictureId THEN ParseVP8PictureID(p) ELSE p)
                  = Parsing(FieldsOf(id, idx, tid, sync, key), q)
<1>1. CASE id = kNoPictureId
  <2>1. PictureIDBytes(id, long) = <<>> /\ <<>> \in Seq(Byte) /\ <<>> \o q = q
    BY <1>1 DEF PictureIDBytes, PictureIDFits
  <2>2. QED
    BY <1>1, <2>1, Zenon
<1>2. CASE id # kNoPictureId /\ long = TRUE
  <2>1. id \in PictureId
    BY <1>2 DEF PictureIDFits
  <2>2. PictureIDBytes(id, long) = LongPictureID(id)
    BY <1>2 DEF PictureIDBytes
  <2>3. /\ LongPictureID(id) \in Seq(Byte)
        /\ ParseVP8PictureID(Parsing(FieldsOf(kNoPictureId, idx, tid, sync, key), LongPictureID(id) \o q))
           = Parsing(FieldsOf(id, idx, tid, sync, key), q)
    BY <2>1, ReadsLongPictureID
  <2>4. QED
    BY <1>2, <2>2, <2>3, Zenon
<1>3. CASE id # kNoPictureId /\ long # TRUE
  <2>1. id \in ShortId /\ long = FALSE
    BY <1>3 DEF PictureIDFits
  <2>2. PictureIDBytes(id, long) = ShortPictureID(id)
    BY <1>3, <2>1 DEF PictureIDBytes, ShortPictureID
  <2>3. /\ ShortPictureID(id) \in Seq(Byte)
        /\ ParseVP8PictureID(Parsing(FieldsOf(kNoPictureId, idx, tid, sync, key), ShortPictureID(id) \o q))
           = Parsing(FieldsOf(id, idx, tid, sync, key), q)
    <3>1. id \in ShortId
      BY <2>1
    <3>2. QED
      BY <3>1, ReadsShortPictureID
  <2>4. QED
    BY <1>3, <2>2, <2>3, Zenon
<1>4. QED
  BY <1>1, <1>2, <1>3 DEF PictureIDFits

LEMMA TakesTl0PicIdx ==
    ASSUME NEW idx, Tl0PicIdxFits(idx), NEW q \in Seq(Byte), NEW id, NEW tid, NEW sync, NEW key
    PROVE  /\ Tl0PicIdxBytes(idx) \in Seq(Byte)
           /\ LET p == Parsing(FieldsOf(id, kNoTl0PicIdx, tid, sync, key), Tl0PicIdxBytes(idx) \o q)
              IN  (IF idx # kNoTl0PicIdx THEN ParseVP8Tl0PicIdx(p) ELSE p)
                  = Parsing(FieldsOf(id, idx, tid, sync, key), q)
<1>1. CASE idx = kNoTl0PicIdx
  <2>1. Tl0PicIdxBytes(idx) = <<>> /\ <<>> \in Seq(Byte) /\ <<>> \o q = q
    BY <1>1 DEF Tl0PicIdxBytes
  <2>2. QED
    BY <1>1, <2>1, Zenon
<1>2. CASE idx # kNoTl0PicIdx
  <2>1. idx \in Byte
    BY <1>2 DEF Tl0PicIdxFits
  <2>2. QED
    BY <1>2, <2>1, ReadsTl0PicIdx
<1>3. QED
  BY <1>1, <1>2

Off == FALSE

\* p after the last byte, if it was announced.
AfterTID(p, tid, key) ==
    IF tid # kNoTemporalIdx \/ key # kNoKeyIdx
    THEN ParseVP8TIDAndKeyIdx(p, tid # kNoTemporalIdx, key # kNoKeyIdx) ELSE p

\* What the last byte holds is read as far as it was announced, and the fields that
\* were not keep what they have.
LEMMA TakesTIDAndKeyIdx ==
    ASSUME NEW tid, NEW sync, NEW key, TIDAndKeyIdxFit(tid, sync, key), NEW q \in Seq(Byte), NEW id, NEW idx
    PROVE  /\ TIDAndKeyIdxBytes(tid, sync, key) \in Seq(Byte)
           /\ AfterTID(Parsing(FieldsOf(id, idx, kNoTemporalIdx, Off, kNoKeyIdx),
                               TIDAndKeyIdxBytes(tid, sync, key) \o q), tid, key)
              = Parsing(FieldsOf(id, idx, tid, sync, key), q)
<1> USE DEF AfterTID
<1> USE DEF TIDAndKeyIdxFit
<1>1. CASE tid = kNoTemporalIdx /\ key = kNoKeyIdx
  <2>1. TIDAndKeyIdxBytes(tid, sync, key) = <<>> /\ <<>> \in Seq(Byte) /\ <<>> \o q = q
    BY <1>1 DEF TIDAndKeyIdxBytes
  <2>2. sync = FALSE
    BY <1>1
  <2>3. QED
    BY <1>1, <2>1, <2>2, Zenon DEF Off
<1>2. CASE tid # kNoTemporalIdx \/ key # kNoKeyIdx
  <2> DEFINE b == (IF tid = kNoTemporalIdx THEN 0 ELSE tid * 64 + (IF sync THEN 32 ELSE 0))
                  + (IF key = kNoKeyIdx THEN 0 ELSE key)
             w == <<b>> \o q
             f == FieldsOf(id, idx, kNoTemporalIdx, Off, kNoKeyIdx)
             g == FieldsOf(id, idx, tid, sync, kNoKeyIdx)
  <2>1. /\ b \in Byte
        /\ tid # kNoTemporalIdx => b \div 64 = tid /\ (Bit(b, 32) <=> sync)
        /\ key # kNoKeyIdx => b % 32 = key
    <3> DEFINE u == IF tid = kNoTemporalIdx THEN 0 ELSE tid
               v == IF tid # kNoTemporalIdx /\ sync THEN 32 ELSE 0
               k == IF key = kNoKeyIdx THEN 0 ELSE key
    <3>1. u \in 0..3 /\ v \in {0, 32} /\ k \in 0..31
      BY DEF kNoTemporalIdx, kNoKeyIdx
    <3>2. b = u * 64 + v + k
      BY DEF kNoTemporalIdx, kNoKeyIdx
    <3>3. /\ tid # kNoTemporalIdx => u = tid /\ (v = 32 <=> sync)
          /\ key # kNoKeyIdx => k = key
      OBVIOUS
    <3> HIDE DEF u, v, k, b
    <3>4. b \in Byte /\ b \div 64 = u /\ b % 32 = k /\ (Bit(b, 32) <=> v = 32)
      <4>1. /\ u \in Int /\ 0 <= u /\ u <= 3 /\ k \in Int /\ 0 <= k /\ k <= 31
            /\ v \in Int /\ (v = 0 \/ v = 32) /\ b \in Int
        BY <3>1, <3>2
      <4>2. b \in Byte
        BY <4>1, <3>2 DEF Byte
      <4>3. b \div 64 = u
        BY <4>1, <3>2
      <4>4. b % 32 = k
        BY <4>1, <3>2
      <4>5. b \div 32 = 2 * u + (IF v = 32 THEN 1 ELSE 0)
        BY <4>1, <3>2
      <4>6. (b \div 32) % 2 = (IF v = 32 THEN 1 ELSE 0)
        BY <4>1, <3>2, <4>5
      <4>7. QED
        BY <4>2, <4>3, <4>4, <4>6 DEF Bit
    <3>5. QED
      BY <3>3, <3>4
  <2>2. TIDAndKeyIdxBytes(tid, sync, key) = <<b>> /\ <<b>> \in Seq(Byte)
    BY <1>2, <2>1 DEF TIDAndKeyIdxBytes
  <2> HIDE DEF b
  <2>3. w # <<>> /\ Head(w) = b /\ Tail(w) = q
    BY <2>1, OneByte, Zenon
  <2> HIDE DEF w
  <2>4. (IF tid # kNoTemporalIdx THEN [f EXCEPT !.temporalIdx = b \div 64, !.layerSync = Bit(b, 32)] ELSE f) = g
    <3>1. CASE tid = kNoTemporalIdx
      BY <3>1 DEF Off
    <3>2. CASE tid # kNoTemporalIdx
      <4>1. b \div 64 = tid /\ Bit(b, 32) = sync
        BY <2>1, <3>2 DEF Bit
      <4>2. [f EXCEPT !.temporalIdx = tid] = FieldsOf(id, idx, tid, Off, kNoKeyIdx)
        BY DEF FieldsOf
      <4>3. ASSUME NEW v
            PROVE  [FieldsOf(id, idx, tid, Off, kNoKeyIdx) EXCEPT !.layerSync = v]
                   = FieldsOf(id, idx, tid, v, kNoKeyIdx)
        BY DEF FieldsOf
      <4>4. [f EXCEPT !.temporalIdx = tid, !.layerSync = sync]
            = [[f EXCEPT !.temporalIdx = tid] EXCEPT !.layerSync = sync]
        OBVIOUS
      <4>5. QED
        BY <3>2, <4>1, <4>2, <4>3, <4>4, Zenon
    <3>3. QED
      BY <3>1, <3>2
  <2>5. (IF key # kNoKeyIdx THEN [g EXCEPT !.keyIdx = b % 32] ELSE g) = FieldsOf(id, idx, tid, sync, key)
    <3>1. CASE key = kNoKeyIdx
      BY <3>1
    <3>2. CASE key # kNoKeyIdx
      <4>1. b % 32 = key
        BY <2>1, <3>2
      <4>2. [g EXCEPT !.keyIdx = key] = FieldsOf(id, idx, tid, sync, key)
        BY DEF FieldsOf
      <4>3. QED
        BY <3>2, <4>1, <4>2, Zenon
    <3>3. QED
      BY <3>1, <3>2
  <2> DEFINE p == Parsing(f, w)
  <2> HIDE DEF f, g
  <2>6. p.rest = w /\ p.fields = f
    BY DEF Parsing
  <2> HIDE DEF p
  <2>7. ParseVP8TIDAndKeyIdx(p, tid # kNoTemporalIdx, key # kNoKeyIdx)
        = Parsing(FieldsOf(id, idx, tid, sync, key), q)
    BY <2>3, <2>4, <2>5, <2>6, Zenon DEF ParseVP8TIDAndKeyIdx
  <2>8. QED
    BY <1>2, <2>2, <2>7, Zenon DEF p, w, f
<1>3. QED
  BY <1>1, <1>2

-----------------------------------------------------------------------------
\* The bytes that follow the flags of the extension, and then q.
PartsBefore(f, long, q) ==
    PictureIDBytes(f.pictureId, long)
        \o (Tl0PicIdxBytes(f.tl0PicIdx) \o (TIDAndKeyIdxBytes(f.temporalIdx, f.layerSync, f.keyIdx) \o q))

\* The whole extension: what is announced is read, in its order, and nothing else is.
LEMMA ReadsExtension ==
    ASSUME NEW f, NEW long, NEW q \in Seq(Byte), NEW id, NEW idx, NEW tid, NEW sync, NEW key,
           PictureIDFits(id, long), Tl0PicIdxFits(idx), TIDAndKeyIdxFit(tid, sync, key),
           f = FieldsOf(id, idx, tid, sync, key)
    PROVE  /\ Flags(Announced(f)) \in Byte
           /\ PartsBefore(f, long, q) \in Seq(Byte)
           /\ ParseVP8Extension(<<Flags(Announced(f))>> \o PartsBefore(f, long, q)) = Parsing(f, q)
<1> DEFINE x == Flags(Announced(f))
           q3 == TIDAndKeyIdxBytes(tid, sync, key) \o q
           q2 == Tl0PicIdxBytes(idx) \o q3
           q1 == PictureIDBytes(id, long) \o q2
           w == <<x>> \o q1
<1>1. /\ f.pictureId = id /\ f.tl0PicIdx = idx /\ f.temporalIdx = tid /\ f.layerSync = sync /\ f.keyIdx = key
  BY DEF FieldsOf
<1>2. /\ x \in Byte
      /\ Bit(x, 128) <=> id # kNoPictureId
      /\ Bit(x, 64) <=> idx # kNoTl0PicIdx
      /\ Bit(x, 32) <=> tid # kNoTemporalIdx
      /\ Bit(x, 16) <=> key # kNoKeyIdx
  <2> DEFINE a == id # kNoPictureId
             b == idx # kNoTl0PicIdx
             c == tid # kNoTemporalIdx
             d == key # kNoKeyIdx
  <2>1. Announced(f) = <<a, b, c, d, FALSE, FALSE, FALSE, FALSE>>
    BY <1>1, Zenon DEF Announced
  <2>2. a \in BOOLEAN /\ b \in BOOLEAN /\ c \in BOOLEAN /\ d \in BOOLEAN
    OBVIOUS
  <2> HIDE DEF a, b, c, d
  <2>3. /\ x \in Byte
        /\ Bit(x, 128) <=> a
        /\ Bit(x, 64) <=> b
        /\ Bit(x, 32) <=> c
        /\ Bit(x, 16) <=> d
    <3>1. x = (IF a THEN 128 ELSE 0) + (IF b THEN 64 ELSE 0) + (IF c THEN 32 ELSE 0) + (IF d THEN 16 ELSE 0)
      BY <2>1, <2>2 DEF Flags
    <3> HIDE DEF x
    <3>2. QED
      BY <2>2, <3>1 DEF Byte, Bit
  <2>4. QED
    BY <2>3 DEF a, b, c, d
<1>3. PartsBefore(f, long, q) = q1
  BY <1>1, Zenon DEF PartsBefore
<1> HIDE DEF x
<1>4. /\ q3 = TIDAndKeyIdxBytes(tid, sync, key) \o q
      /\ q2 = Tl0PicIdxBytes(idx) \o q3
      /\ q1 = PictureIDBytes(id, long) \o q2
  OBVIOUS
<1>5. q3 \in Seq(Byte) /\ q2 \in Seq(Byte) /\ q1 \in Seq(Byte)
  <2>1. TIDAndKeyIdxBytes(tid, sync, key) \in Seq(Byte)
    BY TakesTIDAndKeyIdx
  <2>2. q3 \in Seq(Byte)
    BY <2>1, ConcatProperties
  <2>3. Tl0PicIdxBytes(idx) \in Seq(Byte)
    BY <2>2, TakesTl0PicIdx
  <2>4. q2 \in Seq(Byte)
    BY <2>2, <2>3, ConcatProperties
  <2>5. PictureIDBytes(id, long) \in Seq(Byte)
    BY <2>4, TakesPictureID
  <2>6. QED
    BY <2>2, <2>4, <2>5, ConcatProperties
<1> HIDE DEF q1, q2, q3
<1>6. Head(w) = x /\ Tail(w) = q1
  BY <1>2, <1>5, OneByte, Zenon
<1> DEFINE p0 == Parsing(NoExtension, Tail(w))
           p1 == IF Bit(Head(w), 128) THEN ParseVP8PictureID(p0) ELSE p0
           p2 == IF p1.ok /\ Bit(Head(w), 64) THEN ParseVP8Tl0PicIdx(p1) ELSE p1
           p3 == IF p2.ok /\ (Bit(Head(w), 32) \/ Bit(Head(w), 16))
                 THEN ParseVP8TIDAndKeyIdx(p2, Bit(Head(w), 32), Bit(Head(w), 16)) ELSE p2
<1>7. ParseVP8Extension(w) = p3
  BY Zenon DEF ParseVP8Extension
<1>8. p0 = Parsing(FieldsOf(kNoPictureId, kNoTl0PicIdx, kNoTemporalIdx, Off, kNoKeyIdx), q1)
  BY <1>6, Zenon DEF NoExtension, FieldsOf, Off
<1> HIDE DEF p0
<1>9. p1 = Parsing(FieldsOf(id, kNoTl0PicIdx, kNoTemporalIdx, Off, kNoKeyIdx), q2)
  <2> DEFINE r == Parsing(FieldsOf(kNoPictureId, kNoTl0PicIdx, kNoTemporalIdx, Off, kNoKeyIdx),
                          PictureIDBytes(id, long) \o q2)
  <2>1. (IF id # kNoPictureId THEN ParseVP8PictureID(r) ELSE r)
        = Parsing(FieldsOf(id, kNoTl0PicIdx, kNoTemporalIdx, Off, kNoKeyIdx), q2)
    BY <1>5, TakesPictureID
  <2>2. p0 = r
    BY <1>4, <1>8, Zenon
  <2> HIDE DEF r
  <2>3. CASE id = kNoPictureId
    <3>1. ~Bit(x, 128)
      BY <1>2, <2>3
    <3>2. p1 = p0
      BY <1>6, <3>1, Zenon
    <3>3. QED
      BY <2>1, <2>2, <2>3, <3>2, Zenon
  <2>4. CASE id # kNoPictureId
    <3>1. Bit(x, 128)
      BY <1>2, <2>4
    <3>2. p1 = ParseVP8PictureID(p0)
      BY <1>6, <3>1, Zenon
    <3>3. QED
      BY <2>1, <2>2, <2>4, <3>2, Zenon
  <2>5. QED
    BY <2>3, <2>4, Zenon
<1> HIDE DEF p1
<1>10. p2 = Parsing(FieldsOf(id, idx, kNoTemporalIdx, Off, kNoKeyIdx), q3)
  <2> DEFINE r == Parsing(FieldsOf(id, kNoTl0PicIdx, kNoTemporalIdx, Off, kNoKeyIdx),
                          Tl0PicIdxBytes(idx) \o q3)
  <2>1. (IF idx # kNoTl0PicIdx THEN ParseVP8Tl0PicIdx(r) ELSE r)
        = Parsing(FieldsOf(id, idx, kNoTemporalIdx, Off, kNoKeyIdx), q3)
    BY <1>5, TakesTl0PicIdx
  <2>2. p1 = r
    BY <1>4, <1>9, Zenon
  <2>3. p1.ok
    BY <1>9, ParsingIs
  <2>4. QED
    BY <1>2, <1>6, <2>1, <2>2, <2>3, Zenon
<1> HIDE DEF p2
<1>11. p3 = Parsing(FieldsOf(id, idx, tid, sync, key), q)
  <2> DEFINE r == Parsing(FieldsOf(id, idx, kNoTemporalIdx, Off, kNoKeyIdx),
                          TIDAndKeyIdxBytes(tid, sync, key) \o q)
  <2>1. AfterTID(r, tid, key) = Parsing(FieldsOf(id, idx, tid, sync, key), q)
    BY TakesTIDAndKeyIdx
  <2>2. p2 = r
    BY <1>4, <1>10, Zenon
  <2>3. p2.ok
    BY <1>10, ParsingIs
  <2>4. Bit(x, 32) = (tid # kNoTemporalIdx) /\ Bit(x, 16) = (key # kNoKeyIdx)
    BY <1>2 DEF Bit
  <2>5. QED
    BY <1>6, <2>1, <2>2, <2>3, <2>4, Zenon DEF AfterTID
<1>12. QED
  BY <1>2, <1>3, <1>5, <1>7, <1>11, Zenon DEF x, q1, q2, q3

-----------------------------------------------------------------------------
\* The bytes of the parts, grouped from the front and from the back.
Assoc(s, t, u) == (s \o t) \o u = s \o (t \o u)
Regrouped(a, b, c, d, e, q) == (a \o b \o c \o d \o e) \o q = a \o (b \o (c \o (d \o (e \o q))))

LEMMA Associative == \A s, t, u \in Seq(Byte) : Assoc(s, t, u) /\ s \o t \in Seq(Byte)
BY ConcatAssociative, ConcatProperties DEF Assoc

LEMMA Regroup ==
    ASSUME NEW a \in Seq(Byte), NEW b \in Seq(Byte), NEW c \in Seq(Byte), NEW d \in Seq(Byte),
           NEW e \in Seq(Byte), NEW q \in Seq(Byte)
    PROVE  Regrouped(a, b, c, d, e, q) /\ a \o b \o c \o d \o e \in Seq(Byte)
<1> DEFINE ab == a \o b
           abc == ab \o c
           abcd == abc \o d
           eq == e \o q
           deq == d \o eq
           cdeq == c \o deq
<1>1. ab \in Seq(Byte) /\ eq \in Seq(Byte)
  BY Associative, Zenon
<1> HIDE DEF ab, eq
<1>2. abc \in Seq(Byte) /\ deq \in Seq(Byte)
  BY <1>1, Associative, Zenon
<1> HIDE DEF abc, deq
<1>3. abcd \in Seq(Byte) /\ cdeq \in Seq(Byte)
  BY <1>2, Associative, Zenon
<1> HIDE DEF abcd, cdeq
<1>4. abcd \o e \in Seq(Byte)
  BY <1>3, Associative, Zenon
<1>5. Assoc(abcd, e, q) /\ Assoc(abc, d, eq) /\ Assoc(ab, c, deq) /\ Assoc(a, b, cdeq)
  BY <1>1, <1>2, <1>3, Associative, Zenon
<1>6. (abcd \o e) \o q = abcd \o eq
  BY <1>5, Zenon DEF Assoc, eq
<1>7. abcd \o eq = abc \o deq
  BY <1>5, Zenon DEF Assoc, abcd, deq
<1>8. abc \o deq = ab \o cdeq
  BY <1>5, Zenon DEF Assoc, abc, cdeq
<1>9. ab \o cdeq = a \o (b \o cdeq)
  BY <1>5, Zenon DEF Assoc, ab
<1>10. (abcd \o e) \o q = a \o (b \o cdeq)
  BY <1>6, <1>7, <1>8, <1>9, Zenon
<1>11. QED
  BY <1>4, <1>10, Zenon DEF Regrouped, ab, abc, abcd, eq, deq, cdeq

\* A descriptor, part by part.
LEMMA DescriptorShape ==
    ASSUME NEW d \in Descriptor
    PROVE  LET f == d.fields
           IN  /\ f = FieldsOf(f.pictureId, f.tl0PicIdx, f.temporalIdx, f.layerSync, f.keyIdx)
               /\ PictureIDFits(f.pictureId, d.long) /\ Tl0PicIdxFits(f.tl0PicIdx)
               /\ TIDAndKeyIdxFit(f.temporalIdx, f.layerSync, f.keyIdx)
               /\ d.nonReference \in BOOLEAN /\ d.beginning \in BOOLEAN /\ d.partitionId \in 0..8
<1> DEFINE f == d.fields
<1>1. /\ f \in Fields /\ d.long \in BOOLEAN /\ d.nonReference \in BOOLEAN /\ d.beginning \in BOOLEAN
      /\ d.partitionId \in 0..8
      /\ f.layerSync => f.temporalIdx # kNoTemporalIdx
      /\ f.pictureId > 127 => d.long
  BY DEF Descriptor
<1> HIDE DEF f
<1>2. f = FieldsOf(f.pictureId, f.tl0PicIdx, f.temporalIdx, f.layerSync, f.keyIdx)
  BY <1>1 DEF Fields, FieldsOf
<1>3. /\ f.pictureId \in {kNoPictureId} \cup PictureId
      /\ f.tl0PicIdx \in {kNoTl0PicIdx} \cup Byte
      /\ f.temporalIdx \in {kNoTemporalIdx} \cup 0..3
      /\ f.layerSync \in BOOLEAN
      /\ f.keyIdx \in {kNoKeyIdx} \cup 0..31
  BY <1>1 DEF Fields
<1>4. f.pictureId = kNoPictureId \/ f.pictureId > 127 \/ f.pictureId \in ShortId
  <2> DEFINE id == f.pictureId
  <2>1. id = kNoPictureId \/ id \in PictureId
    BY <1>3
  <2> HIDE DEF id
  <2>2. id \in PictureId => id > 127 \/ id \in ShortId
    BY PictureIdIs DEF ShortId
  <2>3. QED
    BY <2>1, <2>2 DEF id
<1>5. PictureIDFits(f.pictureId, d.long)
  BY <1>1, <1>3, <1>4 DEF PictureIDFits
<1>6. Tl0PicIdxFits(f.tl0PicIdx) /\ TIDAndKeyIdxFit(f.temporalIdx, f.layerSync, f.keyIdx)
  BY <1>1, <1>3 DEF Tl0PicIdxFits, TIDAndKeyIdxFit
<1>7. QED
  BY <1>1, <1>2, <1>5, <1>6 DEF f

LEMMA ExtensionIs ==
    ASSUME NEW f
    PROVE  HasExtension(f) <=> \/ f.pictureId # kNoPictureId \/ f.tl0PicIdx # kNoTl0PicIdx
                               \/ f.temporalIdx # kNoTemporalIdx \/ f.keyIdx # kNoKeyIdx
<1> DEFINE a == f.pictureId # kNoPictureId
           b == f.tl0PicIdx # kNoTl0PicIdx
           c == f.temporalIdx # kNoTemporalIdx
           d == f.keyIdx # kNoKeyIdx
<1>1. HasExtension(f) <=> \E i \in 1..4 : <<a, b, c, d, FALSE, FALSE, FALSE, FALSE>>[i]
  BY Zenon DEF HasExtension, Announced
<1>2. a \in BOOLEAN /\ b \in BOOLEAN /\ c \in BOOLEAN /\ d \in BOOLEAN
  OBVIOUS
<1> HIDE DEF a, b, c, d
<1>3. (\E i \in 1..4 : <<a, b, c, d, FALSE, FALSE, FALSE, FALSE>>[i]) <=> a \/ b \/ c \/ d
  BY <1>2
<1>4. QED
  BY <1>1, <1>3 DEF a, b, c, d

\* The first byte of a descriptor, and what follows it when q follows the descriptor.
First(d) ==
    Flags(<<HasExtension(d.fields), FALSE, d.nonReference, d.beginning, FALSE, FALSE, FALSE, FALSE>>)
      + d.partitionId
Behind(d, q) ==
    IF HasExtension(d.fields)
    THEN <<Flags(Announced(d.fields))>> \o PartsBefore(d.fields, d.long, q) ELSE q

LEMMA FirstBits ==
    ASSUME NEW d \in Descriptor
    PROVE  /\ First(d) \in Byte /\ First(d) % 16 = d.partitionId
           /\ Bit(First(d), 128) = HasExtension(d.fields)
           /\ Bit(First(d), 32) = d.nonReference
           /\ Bit(First(d), 16) = d.beginning
<1> DEFINE a == HasExtension(d.fields)
           b == d.nonReference
           c == d.beginning
           n == d.partitionId
           x == First(d)
<1>1. b \in BOOLEAN /\ c \in BOOLEAN /\ n \in 0..8
  BY DescriptorShape
<1>2. a \in BOOLEAN
  BY DEF HasExtension
<1>3. x = Flags(<<a, FALSE, b, c, FALSE, FALSE, FALSE, FALSE>>) + n
  BY Zenon DEF First
<1> HIDE DEF a, b, c, n, x
<1>4. x = (IF a THEN 128 ELSE 0) + (IF b THEN 32 ELSE 0) + (IF c THEN 16 ELSE 0) + n
  BY <1>1, <1>2, <1>3 DEF Flags
<1>5. x \in Byte /\ x % 16 = n
  BY <1>1, <1>2, <1>4 DEF Byte
<1>6. Bit(x, 128) <=> a
  BY <1>1, <1>2, <1>4 DEF Bit
<1>7. Bit(x, 32) <=> b
  BY <1>1, <1>2, <1>4 DEF Bit
<1>8. Bit(x, 16) <=> c
  BY <1>1, <1>2, <1>4 DEF Bit
<1>9. QED
  BY <1>1, <1>2, <1>5, <1>6, <1>7, <1>8 DEF a, b, c, n, x, Bit

\* A descriptor's bytes, with q behind them.
LEMMA LayoutIs ==
    ASSUME NEW d \in Descriptor, NEW q \in Seq(Byte)
    PROVE  /\ Layout(d) \in Seq(Byte) /\ Behind(d, q) \in Seq(Byte)
           /\ Layout(d) \o q = <<First(d)>> \o Behind(d, q)
<1> DEFINE f == d.fields
           a == <<First(d)>>
           b == IF HasExtension(f) THEN <<Flags(Announced(f))>> ELSE <<>>
           p1 == PictureIDBytes(f.pictureId, d.long)
           p2 == Tl0PicIdxBytes(f.tl0PicIdx)
           p3 == TIDAndKeyIdxBytes(f.temporalIdx, f.layerSync, f.keyIdx)
<1>1. f = FieldsOf(f.pictureId, f.tl0PicIdx, f.temporalIdx, f.layerSync, f.keyIdx)
  BY DescriptorShape
<1>2. /\ PictureIDFits(f.pictureId, d.long) /\ Tl0PicIdxFits(f.tl0PicIdx)
      /\ TIDAndKeyIdxFit(f.temporalIdx, f.layerSync, f.keyIdx)
  BY DescriptorShape
<1>3. Layout(d) = a \o b \o p1 \o p2 \o p3
  BY Zenon DEF Layout, First
<1>4. PartsBefore(f, d.long, q) = p1 \o (p2 \o (p3 \o q))
  BY Zenon DEF PartsBefore
<1>5. Flags(Announced(f)) \in Byte /\ PartsBefore(f, d.long, q) \in Seq(Byte)
  <2> HIDE DEF f
  <2>1. QED
    BY <1>1, <1>2, ReadsExtension
<1>6. a \in Seq(Byte)
  BY FirstBits
<1>7. b \in Seq(Byte)
  BY <1>5
<1>8. p1 \in Seq(Byte)
  BY <1>2, TakesPictureID
<1>9. p2 \in Seq(Byte)
  BY <1>2, TakesTl0PicIdx
<1>10. p3 \in Seq(Byte)
  BY <1>2, TakesTIDAndKeyIdx
<1>11. Behind(d, q) = b \o PartsBefore(f, d.long, q)
  <2>1. CASE HasExtension(f)
    BY <2>1, Zenon DEF Behind
  <2>2. CASE ~HasExtension(f)
    <3>1. /\ f.pictureId = kNoPictureId /\ f.tl0PicIdx = kNoTl0PicIdx
          /\ f.temporalIdx = kNoTemporalIdx /\ f.keyIdx = kNoKeyIdx
      BY <2>2, ExtensionIs, Zenon
    <3>2. p1 = <<>> /\ p2 = <<>> /\ p3 = <<>> /\ b = <<>>
      BY <2>2, <3>1, Zenon DEF PictureIDBytes, Tl0PicIdxBytes, TIDAndKeyIdxBytes
    <3>3. <<>> \o q = q
      OBVIOUS
    <3>4. Behind(d, q) = q
      BY <2>2, Zenon DEF Behind
    <3> HIDE DEF p1, p2, p3, b
    <3>5. QED
      BY <1>4, <3>2, <3>3, <3>4, Zenon
  <2>3. QED
    BY <2>1, <2>2
<1> HIDE DEF a, b, p1, p2, p3
<1>12. (a \o b \o p1 \o p2 \o p3) \o q = a \o (b \o (p1 \o (p2 \o (p3 \o q))))
  <2>1. Regrouped(a, b, p1, p2, p3, q)
    BY <1>6, <1>7, <1>8, <1>9, <1>10, Regroup
  <2>2. QED
    BY <2>1, Zenon DEF Regrouped
<1>13. a \o b \o p1 \o p2 \o p3 \in Seq(Byte)
  BY <1>6, <1>7, <1>8, <1>9, <1>10, Regroup, Zenon
<1>14. b \o PartsBefore(f, d.long, q) \in Seq(Byte)
  BY <1>5, <1>7, ConcatProperties
<1>15. QED
  BY <1>3, <1>4, <1>11, <1>12, <1>13, <1>14, Zenon DEF a

-----------------------------------------------------------------------------
\* What Parse has after the extension, what it takes for a keyframe, and what it accepts.
After(bytes) ==
    IF Bit(Head(bytes), 128) THEN ParseVP8Extension(Tail(bytes)) ELSE Parsing(NoExtension, Tail(bytes))
Key(bytes) == Bit(Head(bytes), 16) /\ Head(bytes) % 16 = 0 /\ ~Bit(Head(After(bytes).rest), 1)
Accepts(bytes) ==
    /\ Len(bytes) > 1 /\ Head(bytes) % 16 <= 8
    /\ After(bytes).ok = TRUE /\ After(bytes).rest # <<>>
    /\ Key(bytes) => Len(After(bytes).rest) >= 10
Reading(bytes) ==
    [ok |-> TRUE, key |-> Key(bytes), fields |-> After(bytes).fields,
     nonReference |-> Bit(Head(bytes), 32), beginning |-> Bit(Head(bytes), 16),
     partitionId |-> Head(bytes) % 16, payload |-> After(bytes).rest]

LEMMA ParseIs ==
    ASSUME NEW bytes \in Seq(Byte), bytes # <<>>, After(bytes).ok \in BOOLEAN,
           After(bytes).ok => After(bytes).rest \in Seq(Byte)
    PROVE  /\ Accepts(bytes) => Parse(bytes) = Reading(bytes)
           /\ ~Accepts(bytes) => Parse(bytes) = Failed
<1> DEFINE after == After(bytes)
           key == Key(bytes)
           few == Len(bytes) <= 1 \/ Head(bytes) % 16 > 8
<1>1. Parse(bytes) =
        IF few THEN Failed
        ELSE IF ~after.ok \/ after.rest = <<>> THEN Failed
        ELSE IF ~ParseVP8FrameSize(key, Len(after.rest)) THEN Failed
        ELSE Reading(bytes)
  BY Zenon DEF Parse, After, Key, Reading
<1>2. few <=> ~(Len(bytes) > 1 /\ Head(bytes) % 16 <= 8)
  <2>1. Head(bytes) \in Byte /\ Len(bytes) \in Nat
    OBVIOUS
  <2> DEFINE n == Len(bytes)
             m == Head(bytes)
  <2> HIDE DEF n, m
  <2>2. n \in Int /\ m \in Int
    <3>1. n \in Nat /\ m \in Byte
      BY <2>1 DEF n, m
    <3>2. QED
      BY <3>1 DEF Byte
  <2>3. m % 16 \in Int
    BY <2>2
  <2>4. (n <= 1 \/ m % 16 > 8) <=> ~(n > 1 /\ m % 16 <= 8)
    BY <2>2, <2>3
  <2>5. QED
    BY <2>4 DEF n, m
<1>3. ParseVP8FrameSize(key, Len(after.rest)) <=> (key => Len(after.rest) >= 10)
  BY Zenon DEF ParseVP8FrameSize
<1>4. (after.ok = TRUE) <=> after.ok
  OBVIOUS
<1> HIDE DEF few, after, key
<1>5. Accepts(bytes) <=> /\ ~few /\ after.ok /\ after.rest # <<>>
                         /\ ParseVP8FrameSize(key, Len(after.rest))
  <2>1. Accepts(bytes) <=> /\ Len(bytes) > 1 /\ Head(bytes) % 16 <= 8
                           /\ after.ok = TRUE /\ after.rest # <<>>
                           /\ key => Len(after.rest) >= 10
    BY Zenon DEF Accepts, after, key
  <2>2. QED
    BY <1>2, <1>3, <1>4, <2>1, Zenon
<1>6. QED
  BY <1>1, <1>5, Zenon

\* What is written is what is there after the extension.
LEMMA AfterLayout ==
    ASSUME NEW d \in Descriptor, NEW payload \in Seq(Byte)
    PROVE  LET w == Layout(d) \o payload
           IN  /\ w \in Seq(Byte) /\ w # <<>> /\ Head(w) = First(d)
               /\ After(w) = Parsing(d.fields, payload)
               /\ payload # <<>> => Len(w) > 1
<1> DEFINE w == Layout(d) \o payload
           f == d.fields
           q == Behind(d, payload)
<1>1. q \in Seq(Byte) /\ w = <<First(d)>> \o q
  BY LayoutIs
<1>2. First(d) \in Byte /\ Bit(First(d), 128) = HasExtension(f)
  BY FirstBits
<1> HIDE DEF w, q
<1>3. w \in Seq(Byte) /\ w # <<>> /\ Len(w) = Len(q) + 1 /\ Head(w) = First(d) /\ Tail(w) = q
  BY <1>1, <1>2, OneByte, Zenon
<1>4. f = FieldsOf(f.pictureId, f.tl0PicIdx, f.temporalIdx, f.layerSync, f.keyIdx)
  BY DescriptorShape
<1>5. /\ PictureIDFits(f.pictureId, d.long) /\ Tl0PicIdxFits(f.tl0PicIdx)
      /\ TIDAndKeyIdxFit(f.temporalIdx, f.layerSync, f.keyIdx)
  BY DescriptorShape
<1> HIDE DEF f
<1>6. CASE HasExtension(f)
  <2>1. q = <<Flags(Announced(f))>> \o PartsBefore(f, d.long, payload)
    BY <1>6, Zenon DEF Behind, q, f
  <2>2. /\ Flags(Announced(f)) \in Byte /\ PartsBefore(f, d.long, payload) \in Seq(Byte)
        /\ ParseVP8Extension(<<Flags(Announced(f))>> \o PartsBefore(f, d.long, payload)) = Parsing(f, payload)
    BY <1>4, <1>5, ReadsExtension
  <2>3. After(w) = Parsing(f, payload)
    BY <1>2, <1>3, <1>6, <2>1, <2>2, Zenon DEF After
  <2>4. Len(q) > 0
    <3>1. Len(q) = Len(PartsBefore(f, d.long, payload)) + 1
      BY <2>1, <2>2, OneByte, Zenon
    <3>2. Len(PartsBefore(f, d.long, payload)) \in Nat
      BY <2>2
    <3>3. QED
      BY <3>1, <3>2
  <2>5. Len(w) > 1
    BY <1>1, <1>3, <2>4
  <2>6. QED
    BY <1>3, <2>3, <2>5, Zenon DEF w, f
<1>7. CASE ~HasExtension(f)
  <2>1. q = payload
    BY <1>7, Zenon DEF Behind, q, f
  <2>2. /\ f.pictureId = kNoPictureId /\ f.tl0PicIdx = kNoTl0PicIdx
        /\ f.temporalIdx = kNoTemporalIdx /\ f.keyIdx = kNoKeyIdx
    BY <1>7, ExtensionIs, Zenon
  <2>3. f.layerSync = FALSE
    BY <1>5, <2>2 DEF TIDAndKeyIdxFit
  <2>4. f = NoExtension
    BY <1>4, <2>2, <2>3, Zenon DEF FieldsOf, NoExtension
  <2>5. After(w) = Parsing(f, payload)
    BY <1>2, <1>3, <1>7, <2>1, <2>4, Zenon DEF After
  <2>6. payload # <<>> => Len(w) > 1
    <3>1. payload # <<>> => Len(payload) > 0
      OBVIOUS
    <3>2. QED
      BY <1>1, <1>3, <2>1, <3>1
  <2>7. QED
    BY <1>3, <2>5, <2>6, Zenon DEF w, f
<1>8. QED
  BY <1>6, <1>7

\* The lowest bit of a byte.
LEMMA LowBit ==
    ASSUME NEW b \in Byte
    PROVE  ~Bit(b, 1) <=> b % 2 = 0
<1>1. b \in Int /\ b \div 1 = b
  BY DEF Byte
<1>2. Bit(b, 1) <=> b % 2 = 1
  BY <1>1, Zenon DEF Bit
<1>3. b % 2 = 0 \/ b % 2 = 1
  BY <1>1
<1>4. QED
  BY <1>2, <1>3

\* Parse reads back a descriptor, and refuses it only for a payload it does not carry.
LEMMA ParsesLayout ==
    ASSUME NEW d \in Descriptor, NEW payload \in Seq(Byte)
    PROVE  LET r == Parse(Layout(d) \o payload)
           IN  /\ ~Carries(d, payload) => r = Failed
               /\ Carries(d, payload) =>
                    /\ r.ok = TRUE /\ r.fields = d.fields /\ r.payload = payload
                    /\ r.nonReference = d.nonReference /\ r.beginning = d.beginning
                    /\ r.partitionId = d.partitionId
<1> DEFINE w == Layout(d) \o payload
           b == Head(payload)
           n == d.partitionId
<1>1. w \in Seq(Byte) /\ w # <<>> /\ Head(w) = First(d) /\ (payload # <<>> => Len(w) > 1)
  BY AfterLayout
<1>2. After(w) = Parsing(d.fields, payload)
  BY AfterLayout
<1>3. After(w).ok = TRUE /\ After(w).fields = d.fields /\ After(w).rest = payload
  <2> DEFINE a == Parsing(d.fields, payload)
  <2>1. a.ok = TRUE /\ a.fields = d.fields /\ a.rest = payload
    BY DEF Parsing
  <2> HIDE DEF a
  <2>2. After(w) = a
    BY <1>2, Zenon DEF a
  <2> HIDE DEF w
  <2>3. QED
    BY <2>1, <2>2
<1>4. First(d) % 16 = n /\ Bit(First(d), 32) = d.nonReference /\ Bit(First(d), 16) = d.beginning
  BY FirstBits
<1>5. n \in 0..8 /\ d.beginning \in BOOLEAN
  BY DescriptorShape
<1> HIDE DEF w, n
<1>6. (Accepts(w) => Parse(w) = Reading(w)) /\ (~Accepts(w) => Parse(w) = Failed)
  BY <1>1, <1>3, ParseIs
<1>7. payload # <<>> => (Key(w) <=> d.beginning /\ n = 0 /\ b % 2 = 0)
  <2>1. Key(w) <=> d.beginning /\ n = 0 /\ ~Bit(b, 1)
    BY <1>1, <1>3, <1>4, <1>5, Zenon DEF Key
  <2>2. payload # <<>> => b \in Byte
    OBVIOUS
  <2>3. QED
    BY <2>1, <2>2, LowBit
<1>8. Accepts(w) <=> Carries(d, payload)
  <2>1. n <= 8
    BY <1>5
  <2>2. Carries(d, payload) <=> payload # <<>> /\ (d.beginning /\ n = 0 /\ b % 2 = 0 => Len(payload) >= 10)
    BY Zenon DEF Carries, n
  <2>3. Accepts(w) <=> /\ Len(w) > 1 /\ n <= 8 /\ payload # <<>>
                       /\ Key(w) => Len(payload) >= 10
    BY <1>1, <1>3, <1>4, Zenon DEF Accepts
  <2>4. QED
    BY <1>1, <1>7, <2>1, <2>2, <2>3, Zenon
<1>9. Accepts(w) => /\ Parse(w).ok = TRUE /\ Parse(w).fields = d.fields /\ Parse(w).payload = payload
                    /\ Parse(w).nonReference = d.nonReference /\ Parse(w).beginning = d.beginning
                    /\ Parse(w).partitionId = n
  <2>1. /\ Reading(w).ok = TRUE /\ Reading(w).fields = After(w).fields /\ Reading(w).payload = After(w).rest
        /\ Reading(w).nonReference = Bit(Head(w), 32) /\ Reading(w).beginning = Bit(Head(w), 16)
        /\ Reading(w).partitionId = Head(w) % 16
    BY DEF Reading
  <2>2. QED
    BY <1>1, <1>3, <1>4, <1>6, <2>1, Zenon
<1>10. QED
  BY <1>6, <1>8, <1>9, Zenon DEF w, n

LEMMA LayoutIsRead == ReadsLayout
<1> SUFFICES ASSUME NEW d \in Descriptors, NEW payload \in Payloads
             PROVE  LET r == Parse(Layout(d) \o payload)
                    IN  IF ~Carries(d, payload) THEN ~r.ok
                        ELSE /\ r.ok /\ r.fields = d.fields /\ r.payload = payload
                             /\ r.nonReference = d.nonReference /\ r.beginning = d.beginning
                             /\ r.partitionId = d.partitionId
  BY Zenon DEF ReadsLayout
<1>1. d \in Descriptor /\ payload \in Seq(Byte)
  BY DescriptorAssumption
<1> DEFINE r == Parse(Layout(d) \o payload)
<1>2. /\ ~Carries(d, payload) => r = Failed
      /\ Carries(d, payload) =>
           /\ r.ok = TRUE /\ r.fields = d.fields /\ r.payload = payload
           /\ r.nonReference = d.nonReference /\ r.beginning = d.beginning
           /\ r.partitionId = d.partitionId
  BY <1>1, ParsesLayout
<1> HIDE DEF r
<1>3. ~Failed.ok
  BY DEF Failed
<1>4. QED
  BY <1>2, <1>3, Zenon DEF r

-----------------------------------------------------------------------------
\* A parse with bytes left, and the same with t behind them.
Good(p) == p.ok = TRUE /\ p.rest \in Seq(Byte)
More(p, t) == Parsing(p.fields, p.rest \o t)

LEMMA GoodParsing ==
    ASSUME NEW f, NEW q \in Seq(Byte)
    PROVE  Good(Parsing(f, q))
<1> DEFINE p == Parsing(f, q)
<1>1. p.ok = TRUE /\ p.rest = q
  BY DEF Parsing
<1> HIDE DEF p
<1>2. Good(p)
  BY <1>1 DEF Good
<1>3. QED
  BY <1>2 DEF p

LEMMA MoreIs ==
    ASSUME NEW p, NEW t \in Seq(Byte), Good(p)
    PROVE  More(p, t).fields = p.fields /\ More(p, t).rest = p.rest \o t /\ Good(More(p, t))
<1>1. p.rest \o t \in Seq(Byte)
  BY DEF Good
<1>2. Good(More(p, t))
  BY <1>1, GoodParsing DEF More
<1>3. More(p, t).fields = p.fields /\ More(p, t).rest = p.rest \o t
  BY DEF More, Parsing
<1>4. QED
  BY <1>2, <1>3

LEMMA Appended ==
    ASSUME NEW q \in Seq(Byte), NEW t \in Seq(Byte), q # <<>>
    PROVE  /\ Head(q) \in Byte /\ Tail(q) \in Seq(Byte)
           /\ q \o t \in Seq(Byte) /\ q \o t # <<>> /\ Len(q \o t) >= Len(q)
           /\ Head(q \o t) = Head(q) /\ Tail(q \o t) = Tail(q) \o t
<1>1. Head(q) \in Byte /\ Tail(q) \in Seq(Byte) /\ q = <<Head(q)>> \o Tail(q)
  BY HeadTailProperties
<1>2. q \o t = <<Head(q)>> \o (Tail(q) \o t)
  <2> DEFINE x == Head(q)
             r == Tail(q)
  <2> HIDE DEF x, r
  <2>1. x \in Byte /\ r \in Seq(Byte) /\ q = <<x>> \o r
    BY <1>1 DEF x, r
  <2>2. <<x>> \in Seq(Byte)
    BY <2>1
  <2>3. (<<x>> \o r) \o t = <<x>> \o (r \o t)
    BY <2>1, <2>2, ConcatAssociative
  <2>4. QED
    BY <2>1, <2>3 DEF x, r
<1>3. Tail(q) \o t \in Seq(Byte)
  BY <1>1, ConcatProperties
<1>4. /\ q \o t \in Seq(Byte) /\ q \o t # <<>>
      /\ Head(q \o t) = Head(q) /\ Tail(q \o t) = Tail(q) \o t
  <2> DEFINE x == Head(q)
             y == Tail(q) \o t
  <2> HIDE DEF x, y
  <2>1. x \in Byte /\ y \in Seq(Byte)
    BY <1>1, <1>3 DEF x, y
  <2>2. /\ <<x>> \o y \in Seq(Byte) /\ <<x>> \o y # <<>>
        /\ Head(<<x>> \o y) = x /\ Tail(<<x>> \o y) = y
    BY <2>1, OneByte, Zenon
  <2>3. q \o t = <<x>> \o y
    BY <1>2 DEF x, y
  <2>4. QED
    BY <2>2, <2>3, Zenon DEF x, y
<1>5. Len(q \o t) >= Len(q)
  <2>1. Len(q \o t) = Len(q) + Len(t) /\ Len(q) \in Nat /\ Len(t) \in Nat
    OBVIOUS
  <2>2. QED
    BY <2>1
<1>6. QED
  BY <1>1, <1>4, <1>5

\* What a helper takes, it takes with anything behind it too: it fails, or what it leaves
\* has the same behind it.
Grows(before, after, t) == before = Failed \/ (Good(before) /\ after = More(before, t))

LEMMA ParsingGrows ==
    ASSUME NEW g, NEW q \in Seq(Byte), NEW t \in Seq(Byte)
    PROVE  Grows(Parsing(g, q), Parsing(g, q \o t), t)
<1> DEFINE p == Parsing(g, q)
<1>1. Good(p)
  BY GoodParsing
<1>2. p.fields = g /\ p.rest = q
  BY DEF Parsing
<1> HIDE DEF p
<1>3. Parsing(g, q \o t) = More(p, t)
  BY <1>2, Zenon DEF More
<1>4. QED
  BY <1>1, <1>3, Zenon DEF Grows, p

LEMMA PictureIDGrows ==
    ASSUME NEW p, NEW t \in Seq(Byte), Good(p)
    PROVE  Grows(ParseVP8PictureID(p), ParseVP8PictureID(More(p, t)), t)
<1> DEFINE m == More(p, t)
           q == p.rest
           b == Head(q)
           h == ParseVP8PictureID(p)
           k == ParseVP8PictureID(m)
<1>1. q \in Seq(Byte) /\ m.fields = p.fields /\ m.rest = q \o t
  BY MoreIs DEF Good
<1> HIDE DEF m, q
<1>2. CASE q = <<>>
  <2>1. h = Failed
    BY <1>2, Zenon DEF ParseVP8PictureID, q
  <2>2. QED
    BY <2>1, Zenon DEF Grows, m
<1>3. CASE q # <<>> /\ ~Bit(b, 128)
  <2> DEFINE g == [p.fields EXCEPT !.pictureId = b]
  <2>1. Tail(q) \in Seq(Byte) /\ q \o t # <<>> /\ Head(q \o t) = b /\ Tail(q \o t) = Tail(q) \o t
    BY <1>1, <1>3, Appended
  <2>2. h = Parsing(g, Tail(q))
    BY <1>3, Zenon DEF ParseVP8PictureID, q
  <2>3. k = Parsing(g, Tail(q) \o t)
    BY <1>1, <1>3, <2>1, Zenon DEF ParseVP8PictureID
  <2> HIDE DEF g
  <2>4. QED
    BY <2>1, <2>2, <2>3, ParsingGrows, Zenon DEF m
<1>4. CASE q # <<>> /\ Bit(b, 128) /\ Tail(q) = <<>>
  <2>1. h = Failed
    BY <1>4, Zenon DEF ParseVP8PictureID, q
  <2>2. QED
    BY <2>1, Zenon DEF Grows, m
<1>5. CASE q # <<>> /\ Bit(b, 128) /\ Tail(q) # <<>>
  <2> DEFINE r == Tail(q)
             id == (b % 128) * 256 + Head(r)
             g == [p.fields EXCEPT !.pictureId = id]
  <2>1. r \in Seq(Byte) /\ q \o t # <<>> /\ Head(q \o t) = b /\ Tail(q \o t) = r \o t
    BY <1>1, <1>5, Appended
  <2>2. Tail(r) \in Seq(Byte) /\ r \o t # <<>> /\ Head(r \o t) = Head(r) /\ Tail(r \o t) = Tail(r) \o t
    BY <1>5, <2>1, Appended
  <2>3. h = Parsing(g, Tail(r))
    BY <1>5, Zenon DEF ParseVP8PictureID, q
  <2>4. k = Parsing(g, Tail(r) \o t)
    <3>1. k = LET y == Head(m.rest)
              IN  IF m.rest = <<>> THEN Failed
                  ELSE IF ~Bit(y, 128) THEN Parsing([m.fields EXCEPT !.pictureId = y], Tail(m.rest))
                  ELSE IF Tail(m.rest) = <<>> THEN Failed
                  ELSE Parsing([m.fields EXCEPT !.pictureId = (y % 128) * 256 + Head(Tail(m.rest))],
                               Tail(Tail(m.rest)))
      BY Zenon DEF ParseVP8PictureID
    <3> HIDE DEF r, k
    <3> DEFINE v == m.rest
    <3>2. /\ v # <<>> /\ Bit(Head(v), 128) /\ Tail(v) # <<>> /\ Head(v) = b
          /\ Head(Tail(v)) = Head(r) /\ Tail(Tail(v)) = Tail(r) \o t
      BY <1>1, <1>5, <2>1, <2>2, Zenon
    <3>3. k = Parsing([m.fields EXCEPT !.pictureId = (Head(v) % 128) * 256 + Head(Tail(v))], Tail(Tail(v)))
      BY <3>1, <3>2, Zenon
    <3> HIDE DEF v
    <3>4. k = Parsing([p.fields EXCEPT !.pictureId = (b % 128) * 256 + Head(r)], Tail(r) \o t)
      BY <1>1, <3>2, <3>3, Zenon
    <3>5. QED
      BY <3>4, Zenon
  <2> HIDE DEF g, r
  <2>5. QED
    BY <2>2, <2>3, <2>4, ParsingGrows, Zenon DEF m
<1>6. QED
  BY <1>2, <1>3, <1>4, <1>5, Zenon DEF m

LEMMA Tl0PicIdxGrows ==
    ASSUME NEW p, NEW t \in Seq(Byte), Good(p)
    PROVE  Grows(ParseVP8Tl0PicIdx(p), ParseVP8Tl0PicIdx(More(p, t)), t)
<1> DEFINE m == More(p, t)
           q == p.rest
           b == Head(q)
           h == ParseVP8Tl0PicIdx(p)
           k == ParseVP8Tl0PicIdx(m)
<1>1. q \in Seq(Byte) /\ m.fields = p.fields /\ m.rest = q \o t
  BY MoreIs DEF Good
<1> HIDE DEF m, q
<1>2. CASE q = <<>>
  <2>1. h = Failed
    BY <1>2, Zenon DEF ParseVP8Tl0PicIdx, q
  <2>2. QED
    BY <2>1, Zenon DEF Grows, m
<1>3. CASE q # <<>>
  <2> DEFINE g == [p.fields EXCEPT !.tl0PicIdx = b]
  <2>1. Tail(q) \in Seq(Byte) /\ q \o t # <<>> /\ Head(q \o t) = b /\ Tail(q \o t) = Tail(q) \o t
    BY <1>1, <1>3, Appended
  <2>2. h = Parsing(g, Tail(q))
    BY <1>3, Zenon DEF ParseVP8Tl0PicIdx, q
  <2>3. k = Parsing(g, Tail(q) \o t)
    BY <1>1, <1>3, <2>1, Zenon DEF ParseVP8Tl0PicIdx
  <2> HIDE DEF g
  <2>4. QED
    BY <2>1, <2>2, <2>3, ParsingGrows, Zenon DEF m
<1>4. QED
  BY <1>2, <1>3, Zenon DEF m

\* The byte for TID and KEYIDX, as the flags x announce it.
Announcing(p, x) == ParseVP8TIDAndKeyIdx(p, Bit(x, 32), Bit(x, 16))

LEMMA TIDAndKeyIdxGrows ==
    ASSUME NEW p, NEW x, NEW t \in Seq(Byte), Good(p)
    PROVE  Grows(Announcing(p, x), Announcing(More(p, t), x), t)
<1> DEFINE m == More(p, t)
           q == p.rest
           b == Head(q)
           f == IF Bit(x, 32)
                THEN [p.fields EXCEPT !.temporalIdx = b \div 64, !.layerSync = Bit(b, 32)]
                ELSE p.fields
           g == IF Bit(x, 16) THEN [f EXCEPT !.keyIdx = b % 32] ELSE f
           h == Announcing(p, x)
           k == Announcing(m, x)
<1>1. q \in Seq(Byte) /\ m.fields = p.fields /\ m.rest = q \o t
  BY MoreIs DEF Good
<1> HIDE DEF m, q
<1>2. CASE q = <<>>
  <2>1. h = Failed
    BY <1>2, Zenon DEF Announcing, ParseVP8TIDAndKeyIdx, q
  <2>2. QED
    BY <2>1, Zenon DEF Grows, m
<1>3. CASE q # <<>>
  <2>1. Tail(q) \in Seq(Byte) /\ q \o t # <<>> /\ Head(q \o t) = b /\ Tail(q \o t) = Tail(q) \o t
    BY <1>1, <1>3, Appended
  <2>2. h = Parsing(g, Tail(q))
    BY <1>3, Zenon DEF Announcing, ParseVP8TIDAndKeyIdx, q
  <2>3. k = Parsing(g, Tail(q) \o t)
    BY <1>1, <1>3, <2>1, Zenon DEF Announcing, ParseVP8TIDAndKeyIdx
  <2> HIDE DEF g, f
  <2>4. QED
    BY <2>1, <2>2, <2>3, ParsingGrows, Zenon DEF m
<1>4. QED
  BY <1>2, <1>3, Zenon DEF m

LEMMA FailedIs ==
    /\ Failed.ok = FALSE
    /\ \A p : p = Failed \/ Good(p) => p.ok \in BOOLEAN
<1>1. Failed.ok = FALSE
  BY DEF Failed
<1>2. QED
  BY <1>1, Zenon DEF Good

\* The three parts of the extension, one after the other.
Ext1(p, x) == IF Bit(x, 128) THEN ParseVP8PictureID(p) ELSE p
Ext2(p, x) == IF p.ok /\ Bit(x, 64) THEN ParseVP8Tl0PicIdx(p) ELSE p
Ext3(p, x) == IF p.ok /\ (Bit(x, 32) \/ Bit(x, 16)) THEN Announcing(p, x) ELSE p

LEMMA ExtensionGrows ==
    ASSUME NEW q \in Seq(Byte), q # <<>>, NEW t \in Seq(Byte)
    PROVE  Grows(ParseVP8Extension(q), ParseVP8Extension(q \o t), t)
<1> DEFINE x == Head(q)
           p == Parsing(NoExtension, Tail(q))
           m == More(p, t)
           p1 == Ext1(p, x)
           p2 == Ext2(p1, x)
           p3 == Ext3(p2, x)
           m1 == Ext1(m, x)
           m2 == Ext2(m1, x)
           m3 == Ext3(m2, x)
<1>1. Tail(q) \in Seq(Byte) /\ Head(q \o t) = x /\ Tail(q \o t) = Tail(q) \o t
  BY Appended
<1>2. ParseVP8Extension(q) = p3
  BY Zenon DEF ParseVP8Extension, Ext1, Ext2, Ext3, Announcing
<1>3. Good(p)
  BY <1>1, GoodParsing
<1>4. ParseVP8Extension(q \o t) = m3
  <2>1. p.fields = NoExtension /\ p.rest = Tail(q)
    BY DEF Parsing
  <2>2. m = Parsing(NoExtension, Tail(q \o t))
    BY <1>1, <2>1, Zenon DEF More
  <2> DEFINE y == Head(q \o t)
             o == Parsing(NoExtension, Tail(q \o t))
  <2>3. ParseVP8Extension(q \o t) = Ext3(Ext2(Ext1(o, y), y), y)
    BY Zenon DEF ParseVP8Extension, Ext1, Ext2, Ext3, Announcing
  <2>4. y = x /\ o = m
    BY <1>1, <2>2
  <2> HIDE DEF m, x, y, o
  <2>5. QED
    BY <2>3, <2>4, Zenon
<1> HIDE DEF p, p1, p2, p3, m, m1, m2, m3, x
<1>5. Grows(p1, m1, t)
  <2>1. m = More(p, t) /\ p1 = Ext1(p, x) /\ m1 = Ext1(m, x)
    BY Zenon DEF m, p1, m1
  <2>2. Grows(ParseVP8PictureID(p), ParseVP8PictureID(More(p, t)), t)
    BY <1>3, PictureIDGrows
  <2>3. QED
    BY <1>3, <2>1, <2>2, Zenon DEF Ext1, Grows
<1>6. Grows(p2, m2, t)
  <2>1. p2 = Ext2(p1, x) /\ m2 = Ext2(m1, x)
    BY Zenon DEF p2, m2
  <2>2. CASE p1 = Failed
    BY <2>1, <2>2, FailedIs, Zenon DEF Ext2, Grows
  <2>3. CASE Good(p1) /\ m1 = More(p1, t)
    <3>1. Grows(ParseVP8Tl0PicIdx(p1), ParseVP8Tl0PicIdx(More(p1, t)), t)
      BY <2>3, Tl0PicIdxGrows
    <3>2. p1.ok = TRUE /\ m1.ok = TRUE
      BY <2>3, MoreIs, Zenon DEF Good
    <3>3. QED
      BY <2>1, <2>3, <3>1, <3>2, Zenon DEF Ext2, Grows
  <2>4. QED
    BY <1>5, <2>2, <2>3, Zenon DEF Grows
<1>7. Grows(p3, m3, t)
  <2>1. p3 = Ext3(p2, x) /\ m3 = Ext3(m2, x)
    BY Zenon DEF p3, m3
  <2>2. CASE p2 = Failed
    BY <2>1, <2>2, FailedIs, Zenon DEF Ext3, Grows
  <2>3. CASE Good(p2) /\ m2 = More(p2, t)
    <3>1. Grows(Announcing(p2, x), Announcing(More(p2, t), x), t)
      BY <2>3, TIDAndKeyIdxGrows
    <3>2. p2.ok = TRUE /\ m2.ok = TRUE
      BY <2>3, MoreIs, Zenon DEF Good
    <3>3. QED
      BY <2>1, <2>3, <3>1, <3>2, Zenon DEF Ext3, Grows
  <2>4. QED
    BY <1>6, <2>2, <2>3, Zenon DEF Grows
<1>8. QED
  BY <1>2, <1>4, <1>7, Zenon

\* What is accepted is accepted with anything behind it, and that is then in the payload.
LEMMA ParseGrows ==
    ASSUME NEW s \in Seq(Byte), NEW t \in Seq(Byte), Parse(s) # Failed
    PROVE  /\ Parse(s).payload \in Seq(Byte) /\ Parse(s).payload # <<>>
           /\ Parse(s \o t) # Failed => Parse(s \o t).payload = Parse(s).payload \o t
           /\ Parse(s \o t) # Failed
<1> DEFINE w == s \o t
           a == After(s)
           b == After(w)
<1>1. Len(s) > 1
  <2>1. Len(s) <= 1 => Parse(s) = Failed
    BY Zenon DEF Parse
  <2>2. Len(s) \in Nat
    OBVIOUS
  <2>3. QED
    BY <2>1, <2>2
<1>2. s # <<>>
  <2>1. Len(<<>>) = 0
    OBVIOUS
  <2>2. s = <<>> => Len(s) = 0
    BY <2>1, Zenon
  <2>3. Len(s) # 0
    BY <1>1
  <2>4. QED
    BY <2>2, <2>3, Zenon
<1>3. /\ Tail(s) \in Seq(Byte) /\ w \in Seq(Byte) /\ w # <<>> /\ Len(w) >= Len(s)
      /\ Head(w) = Head(s) /\ Tail(w) = Tail(s) \o t
  BY <1>2, Appended
<1>4. Tail(s) # <<>>
  <2>1. Len(Tail(s)) = Len(s) - 1 /\ Len(s) \in Nat
    BY <1>2
  <2>2. Len(Tail(s)) # 0
    <3> DEFINE n == Len(s)
               k == Len(Tail(s))
    <3> HIDE DEF n, k
    <3>1. n > 1 /\ k = n - 1 /\ n \in Nat
      BY <1>1, <2>1 DEF n, k
    <3>2. k # 0
      BY <3>1
    <3>3. QED
      BY <3>2 DEF k
  <2>3. Len(<<>>) = 0
    OBVIOUS
  <2>4. QED
    BY <2>2, <2>3, Zenon
<1>5. Len(w) > 1
  BY <1>1, <1>3
<1> HIDE DEF w, a, b
<1>6. Grows(a, b, t)
  <2>1. CASE Bit(Head(s), 128)
    <3>1. a = ParseVP8Extension(Tail(s)) /\ b = ParseVP8Extension(Tail(s) \o t)
      BY <1>3, <2>1, Zenon DEF After, a, b
    <3>2. QED
      BY <1>3, <1>4, <3>1, ExtensionGrows
  <2>2. CASE ~Bit(Head(s), 128)
    <3>1. a = Parsing(NoExtension, Tail(s)) /\ b = Parsing(NoExtension, Tail(s) \o t)
      BY <1>3, <2>2, Zenon DEF After, a, b
    <3>2. QED
      BY <1>3, <3>1, ParsingGrows, Zenon
  <2>3. QED
    BY <2>1, <2>2, Zenon
<1>7. Accepts(s) /\ Parse(s) = Reading(s)
  <2>1. a.ok \in BOOLEAN /\ (a.ok => a.rest \in Seq(Byte))
    BY <1>6, FailedIs, Zenon DEF Grows, Good
  <2>2. QED
    BY <1>2, <2>1, ParseIs DEF a
<1>8. a.ok = TRUE /\ a.rest # <<>> /\ (Key(s) => Len(a.rest) >= 10)
  BY <1>7, Zenon DEF Accepts, a
<1>9. Good(a) /\ b = More(a, t)
  BY <1>6, <1>8, FailedIs, Zenon DEF Grows
<1>10. b.ok = TRUE /\ b.rest = a.rest \o t /\ b.rest \in Seq(Byte) /\ a.rest \in Seq(Byte)
  BY <1>9, MoreIs, Zenon DEF Good
<1>11. b.rest # <<>> /\ Len(b.rest) >= Len(a.rest) /\ Head(b.rest) = Head(a.rest)
  BY <1>8, <1>10, Appended
<1>12. Accepts(w) /\ Parse(w) = Reading(w)
  <2>1. Head(s) % 16 <= 8
    BY <1>7, Zenon DEF Accepts
  <2>2. Key(w) = Key(s)
    BY <1>3, <1>11, Zenon DEF Key, a, b
  <2>3. Len(a.rest) >= 10 => Len(b.rest) >= 10
    BY <1>10, <1>11
  <2>4. Accepts(w)
    BY <1>3, <1>5, <1>8, <1>10, <1>11, <2>1, <2>2, <2>3, Zenon DEF Accepts, b
  <2>5. b.ok \in BOOLEAN /\ (b.ok => b.rest \in Seq(Byte))
    BY <1>10
  <2>6. QED
    BY <1>3, <2>4, <2>5, ParseIs DEF b
<1>13. Reading(s).payload = a.rest /\ Reading(w).payload = b.rest /\ Reading(w).ok = TRUE
  BY DEF Reading, a, b
<1>14. QED
  BY <1>7, <1>8, <1>10, <1>12, <1>13, FailedIs, Zenon DEF w

LEMMA TruncatedIsRefused == RefusesTruncated
<1> SUFFICES ASSUME NEW d \in Descriptors, NEW n \in 0..Len(Layout(d))
             PROVE  ~Parse(SubSeq(Layout(d), 1, n)).ok
  BY Zenon DEF RefusesTruncated
<1> DEFINE w == Layout(d)
           s == SubSeq(w, 1, n)
           u == SubSeq(w, n + 1, Len(w))
           pl == [i \in 1..10 |-> 1]
<1>1. d \in Descriptor
  BY DescriptorAssumption
<1>2. w \in Seq(Byte)
  <2>1. <<>> \in Seq(Byte)
    OBVIOUS
  <2>2. QED
    BY <1>1, <2>1, LayoutIs
<1>3. pl \in Seq(Byte) /\ Len(pl) = 10 /\ pl # <<>>
  BY DEF Byte
<1>4. Carries(d, pl)
  <2>1. Len(pl) >= 10
    BY <1>3
  <2>2. QED
    BY <1>3, <2>1, Zenon DEF Carries
<1> HIDE DEF pl
<1>5. Parse(w \o pl) # Failed => Parse(w \o pl).payload = pl
  BY <1>1, <1>3, <1>4, ParsesLayout
<1> HIDE DEF w
<1>6. s \in Seq(Byte) /\ u \in Seq(Byte) /\ s \o u = w
  <2>1. n \in Nat /\ Len(w) \in Nat /\ n <= Len(w)
    BY <1>2 DEF w
  <2>2. s \in Seq(Byte)
    BY <1>2, <2>1, SubSeqProperties
  <2>3. u \in Seq(Byte)
    BY <1>2, <2>1, SubSeqProperties
  <2>4. s \o u = SubSeq(w, 1, Len(w))
    <3>1. 1 \in 1..(Len(w) + 1) /\ n \in (1 - 1)..Len(w) /\ Len(w) \in n..Len(w)
      BY <2>1
    <3>2. QED
      BY <1>2, <3>1, ConcatAdjacentSubSeq, Zenon
  <2>5. SubSeq(w, 1, Len(w)) = w
    BY <1>2, SubSeqFull
  <2>6. QED
    BY <2>2, <2>3, <2>4, <2>5
<1> HIDE DEF s, u
<1>7. s \o (u \o pl) = w \o pl /\ u \o pl \in Seq(Byte) /\ Len(u \o pl) >= 10
  <2>1. (s \o u) \o pl = s \o (u \o pl)
    <3>1. Assoc(s, u, pl)
      BY <1>3, <1>6, Associative, Zenon
    <3>2. QED
      BY <3>1, Zenon DEF Assoc
  <2>2. u \o pl \in Seq(Byte) /\ Len(u \o pl) = Len(u) + Len(pl) /\ Len(u) \in Nat
    <3>1. \A x, y \in Seq(Byte) : x \o y \in Seq(Byte) /\ Len(x \o y) = Len(x) + Len(y) /\ Len(x) \in Nat
      BY ConcatProperties
    <3>2. QED
      BY <1>3, <1>6, <3>1, Zenon
  <2>3. QED
    BY <1>3, <1>6, <2>1, <2>2
<1>8. ASSUME Parse(s) # Failed PROVE FALSE
  <2> DEFINE t == u \o pl
             r == Parse(s).payload
  <2> HIDE DEF t
  <2>1. t \in Seq(Byte) /\ Len(t) >= 10 /\ s \o t = w \o pl
    BY <1>7 DEF t
  <2>2. /\ r \in Seq(Byte) /\ r # <<>>
        /\ Parse(s \o t) # Failed => Parse(s \o t).payload = r \o t
        /\ Parse(s \o t) # Failed
    BY <1>6, <1>8, <2>1, ParseGrows
  <2>3. pl = r \o t
    BY <1>5, <2>1, <2>2, Zenon
  <2> HIDE DEF r
  <2>4. Len(r \o t) = Len(r) + Len(t) /\ Len(r) \in Nat /\ Len(t) \in Nat /\ Len(r) # 0
    BY <2>1, <2>2
  <2>5. QED
    BY <1>3, <2>1, <2>3, <2>4
<1>9. QED
  BY <1>8, FailedIs, Zenon DEF s, w

-----------------------------------------------------------------------------
\* The parser reads back every descriptor that can be written, whichever of its fields
\* are there, and finds the payload behind it; and it refuses a packet that ends within
\* its descriptor: Parse in pup/pup/vp8_depacketizer.c, for any descriptors and payloads.
THEOREM ParserReadsBack == ParseReadsLayout
<1>1. ReadsLayout /\ RefusesTruncated
  BY LayoutIsRead, TruncatedIsRefused
<1>2. QED
  BY <1>1, Zenon DEF ParseReadsLayout
=============================================================================
