---------------------------- MODULE Vp8FeedProofs ----------------------------
(****************************************************************************)
(* Whatever the network loses, for every stream: what is played keeps the   *)
(* order of the stream, a loss stays where it happened, up to the first     *)
(* loss the feed implements FrameStream, and without one the lag is exact.  *)
(*                                                                          *)
(* The argument: the buffer is a piece of the stream, all that arrived from *)
(* some position on; before the keyframe no keyframe packet that arrived    *)
(* lies in front of it, and afterwards it begins where the last frame       *)
(* played ended. So the frames played are consecutive pieces, each up to    *)
(* the first marker that arrived.                                           *)
(****************************************************************************)
EXTENDS Vp8Feed, Vp8DepacketizerProofs

\* q is what arrived of the stream w from position a to b, when L was lost.
Piece(q, a, b, w, L) ==
    /\ \A i \in 1..Len(q) : q[i].seq \in a..b /\ q[i].seq \notin L /\ q[i] = w[q[i].seq]
    /\ \A i, j \in 1..Len(q) : i < j => q[i].seq < q[j].seq
    /\ \A j \in a..b : j \in L \/ \E i \in 1..Len(q) : q[i].seq = j

\* The stretch of the stream that the k-th of the frames V was made of begins behind the
\* frame before it, and ends with its last packet.
EndOf(V, k) == V[k].payload[Len(V[k].payload)].seq
StartOf(V, k) == IF k = 1 THEN V[1].payload[1].seq ELSE EndOf(V, k - 1) + 1
Upto(V) == IF V = <<>> THEN 0 ELSE EndOf(V, Len(V)) + 1

NoKeyBefore(a, w, L) == \A j \in 1..(a - 1) : j \in L \/ ~w[j].key

\* A sequence with one more element at its end.
Grown(x, q, e) == x = Append(q, e)

\* A frame ends with the first marker that arrived.
EndsWithMarker(f) == /\ Len(f) > 0 /\ f[Len(f)].m
                     /\ \A i \in 1..(Len(f) - 1) : ~f[i].m

FramesFrom(V, w, L) ==
    /\ \A k \in 1..Len(V) : /\ EndsWithMarker(V[k].payload)
                            /\ Piece(V[k].payload, StartOf(V, k), EndOf(V, k), w, L)
    /\ \A k, l \in 1..Len(V) : k < l => EndOf(V, k) < StartOf(V, l)
    /\ V # <<>> => /\ StartOf(V, 1) >= 1 /\ V[1].payload[1].key
                   /\ NoKeyBefore(StartOf(V, 1), w, L)

\* The buffer q of a feed before position n, from a on.
BufferFrom(a, q, n, seen, V, w, L) ==
    /\ Piece(q, a, n - 1, w, L)
    /\ seen => V # <<>> /\ a = Upto(V)
    /\ ~seen => V = <<>> /\ NoKeyBefore(a, w, L)

\* While nothing was lost: each marker so far made try_parse refuse one packet; and from the
\* keyframe on, make one frame.
MarkersUpto(n, w) == {i \in 1..n : w[i].m}
NotLast(w) == {i \in Leading(w) : ~w[i].m}
LagFrom(a, q, seen, w) ==
    IF seen THEN Markers(q) = Cardinality(NotLast(w))
            ELSE Markers(q) + Cardinality(MarkersUpto(a - 1, w)) = a - 1

\* The inductive invariant.
FeedIInv ==
    /\ wire \in Streams
    /\ encoded_fifo = <<>>
    /\ has_first_keyframe \in BOOLEAN
    /\ video \in Seq(Frame)
    /\ packet_buffer \in Seq(Packet)
    /\ next \in 1..(Len(wire) + 1)
    /\ lost \in SUBSET (1..(next - 1))
    /\ FramesFrom(video, wire, lost)
    /\ \E a \in 1..next :
          /\ BufferFrom(a, packet_buffer, next, has_first_keyframe, video, wire, lost)
          /\ lost = {} => LagFrom(a, packet_buffer, has_first_keyframe, wire)

-----------------------------------------------------------------------------
\* What arrives goes to the end of a piece.
LEMMA PieceGrows ==
    ASSUME NEW q \in Seq(Packet), NEW w \in Seq(Packet), NEW n \in 1..Len(w), w[n].seq = n,
           NEW L, n \notin L, NEW a \in 1..n, Piece(q, a, n - 1, w, L)
    PROVE  Piece(Append(q, w[n]), a, n, w, L)
<1>1. PICK p \in Packet : p = w[n]
  OBVIOUS
<1>2. PICK x : x = Append(q, p)
  OBVIOUS
<1>3. /\ x \in Seq(Packet) /\ Len(x) = Len(q) + 1 /\ x[Len(q) + 1] = p /\ Len(q) \in Nat
      /\ \A i \in 1..Len(q) : x[i] = q[i]
  BY <1>2, AppendProperties
<1>4. n \in Nat /\ a \in Nat /\ a <= n /\ p.seq = n
  BY <1>1
<1>5. \A i \in 1..Len(q) : /\ q[i].seq \in a..(n - 1) /\ q[i].seq \notin L
                           /\ q[i] = w[q[i].seq]
  BY DEF Piece
<1>6. \A i \in 1..Len(x) : x[i].seq \in a..n /\ x[i].seq \notin L /\ x[i] = w[x[i].seq]
  <2> SUFFICES ASSUME NEW i \in 1..Len(x)
               PROVE  x[i].seq \in a..n /\ x[i].seq \notin L /\ x[i] = w[x[i].seq]
    OBVIOUS
  <2>1. CASE i = Len(q) + 1
    BY <1>1, <1>3, <1>4, <2>1
  <2>2. CASE i \in 1..Len(q)
    BY <1>3, <1>4, <1>5, <2>2
  <2> QED
    BY <1>3, <2>1, <2>2
<1>7. \A i, j \in 1..Len(x) : i < j => x[i].seq < x[j].seq
  <2> SUFFICES ASSUME NEW i \in 1..Len(x), NEW j \in 1..Len(x), i < j
               PROVE  x[i].seq < x[j].seq
    OBVIOUS
  <2>1. i \in 1..Len(q)
    BY <1>3
  <2>2. CASE j = Len(q) + 1
    BY <1>3, <1>4, <1>5, <2>1, <2>2
  <2>3. CASE j \in 1..Len(q)
    BY <1>3, <2>1, <2>3 DEF Piece
  <2> QED
    BY <1>3, <2>2, <2>3
<1>8. \A j \in a..n : j \in L \/ \E i \in 1..Len(x) : x[i].seq = j
  <2> SUFFICES ASSUME NEW j \in a..n, j \notin L PROVE \E i \in 1..Len(x) : x[i].seq = j
    OBVIOUS
  <2>1. CASE j = n
    BY <1>3, <1>4, <2>1
  <2>2. CASE j \in a..(n - 1)
    <3>1. PICK i \in 1..Len(q) : q[i].seq = j
      BY <2>2 DEF Piece
    <3>2. i \in 1..Len(x) /\ x[i].seq = j
      BY <1>3, <3>1
    <3> QED
      BY <3>2
  <2> QED
    BY <1>4, <2>1, <2>2
<1>9. Piece(x, a, n, w, L)
  BY <1>6, <1>7, <1>8 DEF Piece
<1> QED
  BY <1>1, <1>2, <1>9

\* A loss behind a piece leaves it as it is, and can count as its end.
LEMMA PieceLoses ==
    ASSUME NEW q \in Seq(Packet), NEW w, NEW L, NEW n \in Int, NEW a \in Int
    PROVE  /\ \A b \in Int : b < n /\ Piece(q, a, b, w, L) => Piece(q, a, b, w, L \cup {n})
           /\ Piece(q, a, n - 1, w, L) => Piece(q, a, n, w, L \cup {n})
<1>1. ASSUME NEW b \in Int, b < n, Piece(q, a, b, w, L)
      PROVE  Piece(q, a, b, w, L \cup {n})
  BY <1>1 DEF Piece
<1>2. ASSUME Piece(q, a, n - 1, w, L)
      PROVE  Piece(q, a, n, w, L \cup {n})
  <2>1. \A i \in 1..Len(q) : /\ q[i].seq \in a..(n - 1) /\ q[i].seq \notin L
                             /\ q[i] = w[q[i].seq]
    BY <1>2 DEF Piece
  <2>2. \A i \in 1..Len(q) : /\ q[i].seq \in a..n /\ q[i].seq \notin L \cup {n}
                             /\ q[i] = w[q[i].seq]
    BY <2>1
  <2>3. \A j \in a..n : j \in a..(n - 1) \/ j = n
    OBVIOUS
  <2>4. \A j \in a..n : j \in L \cup {n} \/ \E i \in 1..Len(q) : q[i].seq = j
    BY <1>2, <2>3 DEF Piece
  <2> QED
    BY <1>2, <2>2, <2>4 DEF Piece
<1> QED
  BY <1>1, <1>2

\* A piece cut in two: each part is a piece, and in front of the first packet all is lost.
LEMMA PieceCut ==
    ASSUME NEW q \in Seq(Packet), NEW w, NEW L, NEW a \in Int, NEW b \in Int, Piece(q, a, b, w, L),
           NEW n, NEW v, NEW r, CutAt(q, n, v, r), n > 0
    PROVE  /\ q[n].seq \in a..b /\ q[1].seq \in a..q[n].seq
           /\ \A j \in a..(q[1].seq - 1) : j \in L
           /\ Piece(v, a, q[n].seq, w, L) /\ Piece(v, q[1].seq, q[n].seq, w, L)
           /\ Piece(r, q[n].seq + 1, b, w, L)
<1>1. /\ n \in Nat /\ n \in 1..Len(q) /\ Len(q) \in Nat /\ 1 \in 1..Len(q) /\ Len(v) = n
      /\ \A i \in 1..n : v[i] = q[i]
      /\ Len(r) = Len(q) - n /\ \A i \in 1..(Len(q) - n) : r[i] = q[i + n]
  BY DEF CutAt
<1>2. \A i \in 1..Len(q) : /\ q[i].seq \in a..b /\ q[i].seq \notin L
                           /\ q[i] = w[q[i].seq]
  BY DEF Piece
<1>3. \A i, j \in 1..Len(q) : i < j => q[i].seq < q[j].seq
  BY DEF Piece
<1>4. PICK c \in Int : c = q[n].seq
  BY <1>1, <1>2
<1>5. PICK d \in Int : d = q[1].seq
  BY <1>1, <1>2
<1>6. c \in a..b /\ d \in a..c
  <2>1. c \in a..b /\ d \in a..b
    BY <1>1, <1>2, <1>4, <1>5
  <2>2. CASE n = 1
    BY <1>4, <1>5, <2>1, <2>2
  <2>3. CASE n > 1
    BY <1>1, <1>3, <1>4, <1>5, <2>1, <2>3
  <2> QED
    BY <1>1, <2>2, <2>3
<1>7. \A i \in 1..n : q[i].seq \in d..c
  <2> SUFFICES ASSUME NEW i \in 1..n PROVE q[i].seq \in d..c
    OBVIOUS
  <2>1. i \in 1..Len(q) /\ q[i].seq \in Int
    BY <1>1, <1>2
  <2>2. i = 1 \/ d < q[i].seq
    <3>1. 1 < i => q[1].seq < q[i].seq
      BY <1>1, <1>3, <2>1
    <3> QED
      BY <1>5, <3>1
  <2>3. i = n \/ q[i].seq < c
    <3>1. i < n => q[i].seq < q[n].seq
      BY <1>1, <1>3, <2>1
    <3> QED
      BY <1>1, <1>4, <3>1
  <2> QED
    BY <1>4, <1>5, <2>1, <2>2, <2>3, <1>6
<1>8. \A i \in 1..Len(q) : i > n => q[i].seq \in (c + 1)..b
  BY <1>1, <1>2, <1>3, <1>4, <1>6
<1>9. \A j \in a..b : j \in L \/ \E i \in 1..Len(q) : q[i].seq = j
  BY DEF Piece
<1>10. \A j \in a..c : j \in L \/ \E i \in 1..Len(v) : v[i].seq = j
  <2> SUFFICES ASSUME NEW j \in a..c, j \notin L PROVE \E i \in 1..Len(v) : v[i].seq = j
    OBVIOUS
  <2>1. PICK i \in 1..Len(q) : q[i].seq = j
    BY <1>6, <1>9
  <2>2. ~(i > n)
    BY <1>8, <2>1
  <2>3. i \in 1..Len(v) /\ v[i] = q[i]
    BY <1>1, <2>2
  <2> QED
    BY <2>1, <2>3
<1>11. \A i \in 1..Len(v) : v[i].seq \in d..c /\ v[i].seq \notin L /\ v[i] = w[v[i].seq]
  <2> SUFFICES ASSUME NEW i \in 1..Len(v)
               PROVE  v[i].seq \in d..c /\ v[i].seq \notin L /\ v[i] = w[v[i].seq]
    OBVIOUS
  <2>1. i \in 1..n /\ i \in 1..Len(q) /\ v[i] = q[i]
    BY <1>1
  <2> QED
    BY <1>2, <1>7, <2>1
<1>12. \A i, j \in 1..Len(v) : i < j => v[i].seq < v[j].seq
  <2> SUFFICES ASSUME NEW i \in 1..Len(v), NEW j \in 1..Len(v), i < j
               PROVE  v[i].seq < v[j].seq
    OBVIOUS
  <2>1. i \in 1..Len(q) /\ j \in 1..Len(q) /\ v[i] = q[i] /\ v[j] = q[j]
    BY <1>1
  <2> QED
    BY <1>3, <2>1
<1>13. Piece(v, a, c, w, L) /\ Piece(v, d, c, w, L)
  <2>1. \A i \in 1..Len(v) : v[i].seq \in a..c
    BY <1>6, <1>11
  <2>2. \A j \in d..c : j \in a..c
    BY <1>6
  <2> QED
    BY <1>10, <1>11, <1>12, <2>1, <2>2 DEF Piece
<1>14. \A j \in a..(d - 1) : j \in L
  <2> SUFFICES ASSUME NEW j \in a..(d - 1), j \notin L PROVE FALSE
    OBVIOUS
  <2>1. PICK i \in 1..Len(v) : v[i].seq = j
    BY <1>6, <1>10
  <2> QED
    BY <1>11, <2>1
<1>15. Piece(r, c + 1, b, w, L)
  <2>1. \A i \in 1..Len(r) : i + n \in 1..Len(q) /\ i + n > n /\ r[i] = q[i + n]
    BY <1>1
  <2>2. \A i \in 1..Len(r) : r[i].seq \in (c + 1)..b /\ r[i].seq \notin L /\ r[i] = w[r[i].seq]
    BY <1>2, <1>8, <2>1
  <2>3. \A i, j \in 1..Len(r) : i < j => r[i].seq < r[j].seq
    <3> SUFFICES ASSUME NEW i \in 1..Len(r), NEW j \in 1..Len(r), i < j
                 PROVE  r[i].seq < r[j].seq
      OBVIOUS
    <3>1. i + n < j + n
      BY <1>1
    <3> QED
      BY <1>3, <2>1, <3>1
  <2>4. \A j \in (c + 1)..b : j \in L \/ \E i \in 1..Len(r) : r[i].seq = j
    <3> SUFFICES ASSUME NEW j \in (c + 1)..b, j \notin L PROVE \E i \in 1..Len(r) : r[i].seq = j
      OBVIOUS
    <3>1. PICK i \in 1..Len(q) : q[i].seq = j
      BY <1>6, <1>9
    <3>2. ~(i \in 1..n)
      BY <1>7, <3>1
    <3>3. i - n \in 1..Len(r) /\ i - n \in 1..(Len(q) - n) /\ (i - n) + n = i
      BY <1>1, <3>2
    <3>4. r[i - n] = q[i]
      BY <1>1, <3>3
    <3> QED
      BY <3>1, <3>3, <3>4
  <2> QED
    BY <2>2, <2>3, <2>4 DEF Piece
<1> QED
  BY <1>4, <1>5, <1>6, <1>13, <1>14, <1>15

-----------------------------------------------------------------------------
\* The frames are stretches one behind the other.
LEMMA FramesOrdered ==
    ASSUME NEW V \in Seq(Frame), NEW w, NEW L, FramesFrom(V, w, L)
    PROVE  \A k \in 1..Len(V) :
              /\ V[k].payload \in Seq(Packet)
              /\ EndOf(V, k) \in Int /\ StartOf(V, k) \in Int
              /\ 1 <= StartOf(V, k) /\ StartOf(V, k) <= EndOf(V, k)
              /\ EndOf(V, k) <= EndOf(V, Len(V)) /\ Len(V) \in 1..Len(V)
              /\ \A i \in 1..Len(V[k].payload) :
                    V[k].payload[i].seq \in StartOf(V, k)..EndOf(V, k)
<1>1. \A k \in 1..Len(V) : /\ V[k].payload \in Seq(Packet)
                           /\ Len(V[k].payload) \in 1..Len(V[k].payload)
                           /\ 1 \in 1..Len(V[k].payload)
  <2> SUFFICES ASSUME NEW k \in 1..Len(V)
               PROVE  /\ V[k].payload \in Seq(Packet)
                      /\ Len(V[k].payload) \in 1..Len(V[k].payload)
                      /\ 1 \in 1..Len(V[k].payload)
    OBVIOUS
  <2>1. V[k] \in Frame
    OBVIOUS
  <2>2. V[k].payload \in Seq(Packet)
    BY <2>1 DEF Frame
  <2>3. Len(V[k].payload) \in Nat /\ Len(V[k].payload) > 0
    BY <2>2 DEF FramesFrom, EndsWithMarker
  <2> QED
    BY <2>2, <2>3
<1>2. \A k \in 1..Len(V) : \A i \in 1..Len(V[k].payload) :
            V[k].payload[i].seq \in StartOf(V, k)..EndOf(V, k)
  BY DEF FramesFrom, Piece
<1>3. \A k \in 1..Len(V) : /\ EndOf(V, k) \in Int
                           /\ V[k].payload[1].seq \in Int
                           /\ EndOf(V, k) \in StartOf(V, k)..EndOf(V, k)
  BY <1>1, <1>2 DEF EndOf
<1>4. \A k \in 1..Len(V) : StartOf(V, k) \in Int
  <2> SUFFICES ASSUME NEW k \in 1..Len(V) PROVE StartOf(V, k) \in Int
    OBVIOUS
  <2>1. CASE k = 1
    BY <1>3, <2>1 DEF StartOf
  <2>2. CASE k # 1
    <3>1. k - 1 \in 1..Len(V)
      BY <2>2
    <3> QED
      BY <1>3, <2>2, <3>1 DEF StartOf
  <2> QED
    BY <2>1, <2>2
<1>5. \A k \in 1..Len(V) : StartOf(V, k) <= EndOf(V, k)
  BY <1>3, <1>4
<1>6. Len(V) \in Nat /\ \A k, l \in 1..Len(V) : k < l => EndOf(V, k) < StartOf(V, l)
  BY DEF FramesFrom
<1>7. \A k \in 1..Len(V) : Len(V) \in 1..Len(V) /\ EndOf(V, k) <= EndOf(V, Len(V))
  <2> SUFFICES ASSUME NEW k \in 1..Len(V)
               PROVE  Len(V) \in 1..Len(V) /\ EndOf(V, k) <= EndOf(V, Len(V))
    OBVIOUS
  <2>1. Len(V) \in 1..Len(V)
    BY <1>6
  <2>2. CASE k = Len(V)
    BY <1>3, <2>1, <2>2
  <2>3. CASE k < Len(V)
    <3>1. EndOf(V, k) < StartOf(V, Len(V))
      BY <1>6, <2>1, <2>3
    <3>2. StartOf(V, Len(V)) <= EndOf(V, Len(V))
      BY <1>5, <2>1
    <3>3. EndOf(V, k) \in Int /\ StartOf(V, Len(V)) \in Int /\ EndOf(V, Len(V)) \in Int
      BY <1>3, <1>4, <2>1
    <3> QED
      BY <2>1, <3>1, <3>2, <3>3
  <2> QED
    BY <1>6, <2>1, <2>2, <2>3
<1>8. \A k \in 1..Len(V) : 1 <= StartOf(V, k)
  <2> SUFFICES ASSUME NEW k \in 1..Len(V) PROVE 1 <= StartOf(V, k)
    OBVIOUS
  <2>1. 1 \in 1..Len(V) /\ StartOf(V, 1) >= 1
    BY <1>6 DEF FramesFrom
  <2>2. CASE k = 1
    BY <1>4, <2>1, <2>2
  <2>3. CASE 1 < k
    <3>1. EndOf(V, 1) < StartOf(V, k)
      BY <1>6, <2>1, <2>3
    <3>2. StartOf(V, 1) <= EndOf(V, 1)
      BY <1>5, <2>1
    <3>3. EndOf(V, 1) \in Int /\ StartOf(V, 1) \in Int /\ StartOf(V, k) \in Int
      BY <1>3, <1>4, <2>1
    <3> QED
      BY <2>1, <3>1, <3>2, <3>3
  <2> QED
    BY <2>2, <2>3
<1> QED
  BY <1>1, <1>2, <1>3, <1>4, <1>5, <1>7, <1>8

\* A frame is played: the piece from a on, where the last one ended, or the first keyframe.
Continues(V, f, a, b, w, L) ==
    /\ EndsWithMarker(f.payload) /\ b = f.payload[Len(f.payload)].seq
    /\ Piece(f.payload, a, b, w, L)
    /\ V # <<>> => a = Upto(V)
    /\ V = <<>> => /\ a = f.payload[1].seq /\ a >= 1 /\ f.payload[1].key
                   /\ NoKeyBefore(a, w, L)

LEMMA FramesGrow ==
    ASSUME NEW V \in Seq(Frame), NEW w, NEW L, FramesFrom(V, w, L),
           NEW f \in Frame, NEW a \in Int, NEW b \in Int, Continues(V, f, a, b, w, L),
           NEW V2, Grown(V2, V, f)
    PROVE  /\ V2 \in Seq(Frame) /\ Len(V2) = Len(V) + 1 /\ V2 # <<>>
           /\ FramesFrom(V2, w, L) /\ Upto(V2) = b + 1
           /\ EndOf(V2, Len(V) + 1) = b /\ StartOf(V2, Len(V) + 1) = a
           /\ \A k \in 1..Len(V) : V2[k] = V[k] /\ EndOf(V2, k) = EndOf(V, k)
<1> USE DEF Continues, Grown
<1>1. /\ V2 \in Seq(Frame) /\ Len(V2) = Len(V) + 1 /\ V2[Len(V) + 1] = f /\ V2 # <<>>
      /\ \A k \in 1..Len(V) : V2[k] = V[k]
      /\ Len(V) \in Nat
  BY AppendProperties
<1>2. \A k \in 1..Len(V) : EndOf(V2, k) = EndOf(V, k)
  BY <1>1 DEF EndOf
<1>3. \A k \in 1..Len(V) : StartOf(V2, k) = StartOf(V, k)
  <2> SUFFICES ASSUME NEW k \in 1..Len(V) PROVE StartOf(V2, k) = StartOf(V, k)
    OBVIOUS
  <2>1. CASE k = 1
    BY <1>1, <2>1 DEF StartOf
  <2>2. CASE k # 1
    <3>1. k - 1 \in 1..Len(V)
      BY <2>2
    <3> QED
      BY <1>2, <2>2, <3>1 DEF StartOf
  <2> QED
    BY <2>1, <2>2
<1>4. EndOf(V2, Len(V) + 1) = b
  BY <1>1 DEF EndOf
<1>5. Upto(V2) = b + 1
  BY <1>1, <1>4 DEF Upto
<1>6. StartOf(V2, Len(V) + 1) = a
  <2>1. CASE V = <<>>
    <3>1. Len(V) + 1 = 1
      BY <2>1
    <3> QED
      BY <1>1, <2>1, <3>1 DEF StartOf
  <2>2. CASE V # <<>>
    <3>1. Len(V) + 1 # 1 /\ (Len(V) + 1) - 1 = Len(V) /\ Len(V) \in 1..Len(V)
      BY <1>1, <2>2
    <3>2. StartOf(V2, Len(V) + 1) = EndOf(V, Len(V)) + 1
      BY <1>2, <3>1 DEF StartOf
    <3> QED
      BY <2>2, <3>2 DEF Upto
  <2> QED
    BY <2>1, <2>2
<1>7. \A k \in 1..Len(V2) : /\ EndsWithMarker(V2[k].payload)
                            /\ Piece(V2[k].payload, StartOf(V2, k), EndOf(V2, k), w, L)
  <2> SUFFICES ASSUME NEW k \in 1..Len(V2)
               PROVE  /\ EndsWithMarker(V2[k].payload)
                      /\ Piece(V2[k].payload, StartOf(V2, k), EndOf(V2, k), w, L)
    OBVIOUS
  <2>1. CASE k \in 1..Len(V)
    BY <1>1, <1>2, <1>3, <2>1 DEF FramesFrom
  <2>2. CASE k = Len(V) + 1
    BY <1>1, <1>4, <1>6, <2>2
  <2> QED
    BY <1>1, <2>1, <2>2
<1>8. \A k, l \in 1..Len(V2) : k < l => EndOf(V2, k) < StartOf(V2, l)
  <2> SUFFICES ASSUME NEW k \in 1..Len(V2), NEW l \in 1..Len(V2), k < l
               PROVE  EndOf(V2, k) < StartOf(V2, l)
    OBVIOUS
  <2>1. k \in 1..Len(V)
    BY <1>1
  <2>2. CASE l \in 1..Len(V)
    BY <1>2, <1>3, <2>1, <2>2 DEF FramesFrom
  <2>3. CASE l = Len(V) + 1
    <3>1. EndOf(V, k) <= EndOf(V, Len(V)) /\ EndOf(V, k) \in Int /\ EndOf(V, Len(V)) \in Int
      BY <2>1, FramesOrdered
    <3>2. V # <<>>
      BY <2>1
    <3>3. a = EndOf(V, Len(V)) + 1
      BY <3>2 DEF Upto
    <3>4. EndOf(V, k) < a
      BY <3>1, <3>3
    <3> QED
      BY <1>2, <1>6, <2>1, <2>3, <3>4
  <2>4. l \in 1..Len(V) \/ l = Len(V) + 1
    <3>1. Len(V2) = Len(V) + 1 /\ Len(V) \in Nat
      BY <1>1
    <3> QED
      BY <3>1
  <2> QED
    BY <2>2, <2>3, <2>4
<1>9. /\ StartOf(V2, 1) >= 1 /\ V2[1].payload[1].key /\ NoKeyBefore(StartOf(V2, 1), w, L)
  <2>1. CASE V = <<>>
    <3>1. Len(V) + 1 = 1
      BY <2>1
    <3> QED
      BY <1>1, <1>6, <2>1, <3>1
  <2>2. CASE V # <<>>
    <3>1. 1 \in 1..Len(V)
      BY <1>1, <2>2
    <3> QED
      BY <1>1, <1>3, <2>2, <3>1 DEF FramesFrom
  <2> QED
    BY <2>1, <2>2
<1>10. FramesFrom(V2, w, L)
  BY <1>7, <1>8, <1>9 DEF FramesFrom
<1> QED
  BY <1>1, <1>2, <1>4, <1>5, <1>6, <1>10

\* A loss behind all that was played changes nothing of it.
LEMMA FramesLose ==
    ASSUME NEW V \in Seq(Frame), NEW w, NEW L, FramesFrom(V, w, L), NEW n \in Int,
           \A k \in 1..Len(V) : EndOf(V, k) < n
    PROVE  FramesFrom(V, w, L \cup {n})
<1>1. \A k \in 1..Len(V) : Piece(V[k].payload, StartOf(V, k), EndOf(V, k), w, L \cup {n})
  <2> SUFFICES ASSUME NEW k \in 1..Len(V)
               PROVE  Piece(V[k].payload, StartOf(V, k), EndOf(V, k), w, L \cup {n})
    OBVIOUS
  <2>1. /\ V[k].payload \in Seq(Packet) /\ EndOf(V, k) \in Int /\ StartOf(V, k) \in Int
        /\ EndOf(V, k) < n
    BY FramesOrdered
  <2>2. Piece(V[k].payload, StartOf(V, k), EndOf(V, k), w, L)
    BY DEF FramesFrom
  <2> QED
    BY <2>1, <2>2, PieceLoses
<1>2. ASSUME NEW a, NoKeyBefore(a, w, L) PROVE NoKeyBefore(a, w, L \cup {n})
  BY <1>2 DEF NoKeyBefore
<1> QED
  BY <1>1, <1>2 DEF FramesFrom

-----------------------------------------------------------------------------
\* Where a feed stands when packet n arrives, and what its buffer, q, then holds.
AtPacket(a, B, n, seen, V, w, L) ==
    /\ w \in Streams /\ n \in 1..Len(w) /\ L \in SUBSET (1..(n - 1))
    /\ B \in Seq(Packet) /\ seen \in BOOLEAN /\ V \in Seq(Frame)
    /\ a \in 1..n /\ BufferFrom(a, B, n, seen, V, w, L) /\ FramesFrom(V, w, L)
Holds(q, a, n, w, L) ==
    /\ q \in Seq(Packet) /\ Len(q) \in Nat /\ Len(q) > 0 /\ Piece(q, a, n, w, L)
    /\ w \in Seq(Packet) /\ w[n] \in Packet /\ n \in Nat /\ a \in Nat
    /\ \A i \in 1..Len(q) : q[i].ok /\ q[i].seq \in 1..n /\ q[i] = w[q[i].seq]

LEMMA Arrived ==
    ASSUME NEW w, NEW n, NEW L, NEW B, NEW seen, NEW V, NEW a, AtPacket(a, B, n, seen, V, w, L),
           NEW q, Grown(q, B, w[n])
    PROVE  Holds(q, a, n, w, L)
<1> USE DEF AtPacket, Grown
<1>1. w \in Seq(Packet) /\ \A i \in 1..Len(w) : w[i].ok /\ w[i].seq = i
  BY StreamAssumption
<1>2. n \in Nat /\ n \notin L /\ a \in Nat /\ w[n] \in Packet /\ w[n].seq = n
  BY <1>1
<1>3. q \in Seq(Packet) /\ Len(q) = Len(B) + 1 /\ Len(q) \in Nat /\ Len(q) > 0
  BY <1>2, AppendProperties
<1>4. Piece(B, a, n - 1, w, L)
  BY DEF BufferFrom
<1>5. Piece(q, a, n, w, L)
  BY <1>1, <1>2, <1>4, PieceGrows
<1>6. \A i \in 1..Len(q) : q[i].seq \in a..n /\ q[i] = w[q[i].seq]
  BY <1>5 DEF Piece
<1>7. \A i \in 1..Len(q) : q[i].ok /\ q[i].seq \in 1..n
  <2> SUFFICES ASSUME NEW i \in 1..Len(q) PROVE q[i].ok /\ q[i].seq \in 1..n
    OBVIOUS
  <2>1. PICK j : j = q[i].seq
    OBVIOUS
  <2>2. j \in a..n /\ q[i] = w[j]
    BY <1>6, <2>1
  <2>3. j \in 1..n /\ j \in 1..Len(w)
    BY <1>2, <2>2
  <2> QED
    BY <1>1, <2>1, <2>2, <2>3
<1> QED
  BY <1>1, <1>2, <1>3, <1>5, <1>6, <1>7 DEF Holds

\* It waits.
LEMMA BufferWaits ==
    ASSUME NEW w, NEW n, NEW L, NEW B, NEW seen, NEW V, NEW a, AtPacket(a, B, n, seen, V, w, L),
           NEW q, Grown(q, B, w[n]),
           NEW v, NEW b, CutAt(q, 0, v, b)
    PROVE  b = q /\ a \in 1..(n + 1) /\ BufferFrom(a, b, n + 1, seen, V, w, L)
<1>1. q \in Seq(Packet) /\ Len(q) \in Nat /\ Piece(q, a, n, w, L) /\ n \in Nat
  BY Arrived DEF Holds
<1>2. b \in Seq(Packet) /\ Len(b) = Len(q) /\ \A i \in 1..Len(q) : b[i] = q[i]
  <2>1. /\ b \in Seq(Packet) /\ Len(b) = Len(q) - 0
        /\ \A i \in 1..(Len(q) - 0) : b[i] = q[i + 0]
    BY Zenon DEF CutAt
  <2>2. Len(q) - 0 = Len(q) /\ \A i \in 1..Len(q) : i + 0 = i
    BY <1>1
  <2> QED
    BY <2>1, <2>2
<1>3. b = q
  BY <1>1, <1>2, SeqEqual
<1>4. (n + 1) - 1 = n /\ a \in 1..(n + 1)
  BY <1>1 DEF AtPacket
<1> QED
  BY <1>1, <1>3, <1>4 DEF BufferFrom, AtPacket

\* The packet at the front is refused.
LEMMA BufferRefuses ==
    ASSUME NEW w, NEW n, NEW L, NEW B, NEW seen, NEW V, NEW a, AtPacket(a, B, n, seen, V, w, L),
           NEW q, Grown(q, B, w[n]),
           NEW v, NEW b, CutAt(q, 1, v, b), NEW r, NEW p, PushRefuses(r, q, p, seen, 1)
    PROVE  /\ ~seen /\ q[1].seq + 1 \in 1..(n + 1)
           /\ BufferFrom(q[1].seq + 1, b, n + 1, seen, V, w, L)
<1>1. /\ q \in Seq(Packet) /\ Len(q) \in Nat /\ Len(q) > 0 /\ Piece(q, a, n, w, L)
      /\ n \in Nat /\ a \in Nat
      /\ \A i \in 1..Len(q) : q[i].ok /\ q[i].seq \in 1..n /\ q[i] = w[q[i].seq]
  <2>1. Holds(q, a, n, w, L)
    BY Arrived
  <2> QED
    BY <2>1 DEF Holds
<1>2. ~seen /\ ~q[1].key /\ q[1] = w[q[1].seq] /\ q[1].seq \in 1..n
  BY <1>1 DEF PushRefuses
<1>3. /\ q[1].seq \in a..n
      /\ \A j \in a..(q[1].seq - 1) : j \in L
      /\ Piece(b, q[1].seq + 1, n, w, L)
  <2>1. 1 > 0 /\ n \in Int /\ a \in Int
    BY <1>1
  <2> QED
    BY <1>1, <2>1, PieceCut
<1>4. PICK c \in 1..n : c = q[1].seq
  BY <1>2
<1>5. V = <<>> /\ NoKeyBefore(a, w, L)
  BY <1>2 DEF BufferFrom, AtPacket
<1>6. NoKeyBefore(c + 1, w, L)
  <2> SUFFICES ASSUME NEW j \in 1..c PROVE j \in L \/ ~w[j].key
    BY <1>4 DEF NoKeyBefore
  <2>1. CASE j < a
    <3>1. j \in 1..(a - 1)
      BY <1>1, <2>1
    <3> QED
      BY <1>5, <3>1 DEF NoKeyBefore
  <2>2. CASE a <= j /\ j < c
    <3>1. j \in a..(c - 1)
      BY <1>1, <2>2
    <3> QED
      BY <1>3, <1>4, <3>1
  <2>3. CASE j = c
    BY <1>2, <1>4, <2>3
  <2> QED
    BY <1>1, <1>4, <2>1, <2>2, <2>3
<1>7. (n + 1) - 1 = n /\ c + 1 \in 1..(n + 1)
  BY <1>1, <1>4
<1> QED
  BY <1>2, <1>3, <1>4, <1>5, <1>6, <1>7 DEF BufferFrom

\* The packets up to the first marker are played.
PlaysAs(f, v, V2, V) == f = [payload |-> v, pts |-> v[1].ts] /\ Grown(V2, V, f)

LEMMA BufferPlays ==
    ASSUME NEW w, NEW n, NEW L, NEW B, NEW seen, NEW V, NEW a, AtPacket(a, B, n, seen, V, w, L),
           NEW q, Grown(q, B, w[n]),
           NEW m, NEW v, NEW b, CutAt(q, m, v, b), NEW r, NEW p, PushTakes(r, q, p, seen, m, v),
           NEW f, NEW V2, PlaysAs(f, v, V2, V)
    PROVE  /\ f \in Frame /\ r.frames = <<f>> /\ V2 \in Seq(Frame)
           /\ FramesFrom(V2, w, L)
           /\ q[m].seq + 1 \in 1..(n + 1)
           /\ BufferFrom(q[m].seq + 1, b, n + 1, TRUE, V2, w, L)
<1>1. /\ q \in Seq(Packet) /\ Len(q) \in Nat /\ Len(q) > 0 /\ Piece(q, a, n, w, L)
      /\ n \in Nat /\ a \in Nat
      /\ \A i \in 1..Len(q) : q[i].ok /\ q[i].seq \in 1..n /\ q[i] = w[q[i].seq]
  <2>1. Holds(q, a, n, w, L)
    BY Arrived
  <2> QED
    BY <2>1 DEF Holds
<1>2. /\ m \in 1..Len(q) /\ m \in Nat /\ m > 0 /\ v \in Seq(Packet) /\ Len(v) = m
      /\ \A i \in 1..m : v[i] = q[i]
  BY <1>1 DEF CutAt, PushTakes
<1>3. /\ q[m].seq \in a..n /\ q[1].seq \in a..q[m].seq
      /\ \A j \in a..(q[1].seq - 1) : j \in L
      /\ Piece(v, a, q[m].seq, w, L) /\ Piece(v, q[1].seq, q[m].seq, w, L)
      /\ Piece(b, q[m].seq + 1, n, w, L)
  <2>1. n \in Int /\ a \in Int
    BY <1>1
  <2> QED
    BY <1>1, <1>2, <2>1, PieceCut
<1>0. n \in Nat /\ a \in Nat /\ n \in Int /\ a \in Int
  BY <1>1
<1>4. PICK e \in 1..n : e = q[m].seq
  BY <1>1, <1>2
<1>5. PICK d \in 1..n : d = q[1].seq
  BY <1>1
<1>6. v[1] = q[1] /\ v[m] = q[m] /\ v[1] \in Packet /\ v[1].ts \in Nat
  BY <1>2, PacketAssumption
<1>16. v[m].ok /\ v[m].m /\ \A i \in 1..(m - 1) : ~v[i].m
  BY <1>1, <1>2, <1>6 DEF PushTakes
<1>17. r.frames = <<f>>
  BY <1>16 DEF PushTakes, PlaysAs
<1>7. f \in Frame /\ f.payload = v
  BY <1>2, <1>6 DEF Frame, PlaysAs
<1>8. EndsWithMarker(f.payload) /\ e = f.payload[Len(f.payload)].seq
  BY <1>2, <1>4, <1>6, <1>7, <1>16 DEF EndsWithMarker
<1>9. PICK s \in Int : (seen => s = a) /\ (~seen => s = d)
  <2>1. d \in Int
    BY <1>0
  <2>2. CASE seen
    BY <1>0, <2>2
  <2>3. CASE ~seen
    BY <2>1, <2>3
  <2> QED
    BY <2>2, <2>3
<1>10. Piece(f.payload, s, e, w, L)
  BY <1>3, <1>4, <1>5, <1>7, <1>9
<1>11. V # <<>> => s = Upto(V)
  BY <1>9 DEF BufferFrom, AtPacket
<1>12. V = <<>> => /\ s = f.payload[1].seq /\ s >= 1 /\ f.payload[1].key /\ NoKeyBefore(s, w, L)
  <2> SUFFICES ASSUME V = <<>>
               PROVE  /\ s = f.payload[1].seq /\ s >= 1 /\ f.payload[1].key
                      /\ NoKeyBefore(s, w, L)
    OBVIOUS
  <2>1. ~seen /\ NoKeyBefore(a, w, L)
    BY DEF BufferFrom, AtPacket
  <2>2. s = d /\ s = f.payload[1].seq /\ f.payload[1].key
    BY <1>5, <1>6, <1>7, <1>9, <2>1 DEF PushTakes
  <2>3. d >= 1 /\ d >= a
    BY <1>1, <1>3, <1>5
  <2>4. NoKeyBefore(d, w, L)
    <3> SUFFICES ASSUME NEW j \in 1..(d - 1) PROVE j \in L \/ ~w[j].key
      BY DEF NoKeyBefore
    <3>1. CASE j < a
      <4>1. j \in 1..(a - 1)
        BY <1>1, <3>1
      <4> QED
        BY <2>1, <4>1 DEF NoKeyBefore
    <3>2. CASE a <= j
      <4>1. j \in a..(d - 1)
        BY <1>1, <3>2
      <4> QED
        BY <1>3, <1>5, <4>1
    <3> QED
      BY <1>1, <3>1, <3>2
  <2> QED
    BY <2>2, <2>3, <2>4
<1>13. /\ V2 \in Seq(Frame) /\ Len(V2) = Len(V) + 1 /\ V2 # <<>>
       /\ FramesFrom(V2, w, L) /\ Upto(V2) = e + 1
       /\ EndOf(V2, Len(V) + 1) = e /\ StartOf(V2, Len(V) + 1) = s
       /\ \A k \in 1..Len(V) : V2[k] = V[k] /\ EndOf(V2, k) = EndOf(V, k)
  <2>1. V \in Seq(Frame) /\ FramesFrom(V, w, L)
    BY DEF AtPacket
  <2>2. s \in Int /\ e \in Int /\ Grown(V2, V, f)
    BY <1>0 DEF PlaysAs
  <2>3. Continues(V, f, s, e, w, L)
    BY <1>8, <1>10, <1>11, <1>12 DEF Continues
  <2>4. f \in Frame
    BY <1>7
  <2> QED
    BY <2>1, <2>2, <2>3, <2>4, FramesGrow
<1>14. (n + 1) - 1 = n /\ e + 1 \in 1..(n + 1)
  BY <1>0
<1>15. BufferFrom(e + 1, b, n + 1, TRUE, V2, w, L)
  BY <1>3, <1>4, <1>13, <1>14 DEF BufferFrom
<1> QED
  BY <1>4, <1>5, <1>7, <1>9, <1>13, <1>14, <1>15, <1>17

-----------------------------------------------------------------------------
\* With its marker a packet puts one into the buffer, and takes out at most that of the
\* last packet cut off.
LEMMA MarkersMoved ==
    ASSUME NEW B \in Seq(Packet), NEW p \in Packet, p.m, NEW q, Grown(q, B, p),
           NEW n, NEW v, NEW b, CutAt(q, n, v, b), n > 0, \A i \in 1..(n - 1) : ~v[i].m
    PROVE  /\ Markers(B) \in Nat /\ Markers(b) \in Nat
           /\ v[n].m => Markers(b) = Markers(B)
           /\ ~v[n].m => Markers(b) = Markers(B) + 1
<1>1. q \in Seq(Packet) /\ Markers(q) = Markers(B) + 1
  BY MarkersGrow, AppendProperties DEF Grown
<1>2. v \in Seq(Packet) /\ b \in Seq(Packet) /\ Len(v) = n /\ n \in Nat
  <2>1. Len(q) \in Nat
    BY <1>1
  <2> QED
    BY <2>1 DEF CutAt
<1>3. Markers(q) = Markers(v) + Markers(b)
  BY <1>1, MarkersCut
<1>4. Markers(v) = IF v[n].m THEN 1 ELSE 0
  BY <1>2, MarkersTaken
<1>5. Markers(B) \in Nat /\ Markers(b) \in Nat
  BY <1>2, MarkersFinite
<1>6. CASE v[n].m
  BY <1>1, <1>3, <1>4, <1>5, <1>6
<1>7. CASE ~v[n].m
  BY <1>1, <1>3, <1>4, <1>5, <1>7
<1> QED
  BY <1>5, <1>6, <1>7

\* The markers of the stream up to a position.
LEMMA MarkersOfStream ==
    ASSUME NEW w, NEW n \in Nat
    PROVE  /\ IsFiniteSet(MarkersUpto(n, w)) /\ Cardinality(MarkersUpto(n, w)) \in Nat
           /\ n > 0 /\ w[n].m =>
                 Cardinality(MarkersUpto(n, w)) = Cardinality(MarkersUpto(n - 1, w)) + 1
           /\ n > 0 /\ ~w[n].m =>
                 Cardinality(MarkersUpto(n, w)) = Cardinality(MarkersUpto(n - 1, w))
<1>1. \A k \in Int : IsFiniteSet(MarkersUpto(k, w))
  <2> SUFFICES ASSUME NEW k \in Int PROVE IsFiniteSet(MarkersUpto(k, w))
    OBVIOUS
  <2>1. IsFiniteSet(1..k)
    BY FS_Interval
  <2>2. MarkersUpto(k, w) \in SUBSET (1..k)
    BY DEF MarkersUpto
  <2> QED
    BY <2>1, <2>2, FS_Subset
<1>2. Cardinality(MarkersUpto(n, w)) \in Nat
  BY <1>1, FS_CardinalityType
<1>3. ASSUME n > 0, w[n].m
      PROVE  Cardinality(MarkersUpto(n, w)) = Cardinality(MarkersUpto(n - 1, w)) + 1
  <2>1. MarkersUpto(n, w) = MarkersUpto(n - 1, w) \cup {n}
    BY <1>3 DEF MarkersUpto
  <2>2. n \notin MarkersUpto(n - 1, w)
    BY DEF MarkersUpto
  <2>3. IsFiniteSet(MarkersUpto(n - 1, w))
    BY <1>1
  <2> QED
    BY <1>1, <2>1, <2>2, <2>3, FS_AddElement
<1>4. ASSUME n > 0, ~w[n].m
      PROVE  Cardinality(MarkersUpto(n, w)) = Cardinality(MarkersUpto(n - 1, w))
  <2>1. MarkersUpto(n, w) = MarkersUpto(n - 1, w)
    BY <1>4 DEF MarkersUpto
  <2> QED
    BY <2>1
<1> QED
  BY <1>1, <1>2, <1>3, <1>4

\* Of the packets before the first keyframe, those that are not the last of their frame.
LEMMA NotLastCounted ==
    ASSUME NEW w \in Seq(Packet), NEW a \in 1..Len(w), w[a].key, NoKeyBefore(a, w, {})
    PROVE  /\ Cardinality(NotLast(w)) + Cardinality(MarkersUpto(a - 1, w)) = a - 1
           /\ Cardinality(NotLast(w)) \in Nat
<1>1. a \in Nat /\ a >= 1 /\ a <= Len(w) /\ Len(w) \in Nat /\ a - 1 \in Nat
  OBVIOUS
<1>2. \A j \in 1..(a - 1) : ~w[j].key
  BY DEF NoKeyBefore
<1>3. Leading(w) = 1..(a - 1)
  <2>1. ASSUME NEW i \in Leading(w) PROVE i \in 1..(a - 1)
    <3>1. i \in 1..Len(w) /\ \A j \in 1..i : ~w[j].key
      BY DEF Leading
    <3>2. ~(a \in 1..i)
      BY <3>1
    <3> QED
      BY <1>1, <3>1, <3>2
  <2>2. ASSUME NEW i \in 1..(a - 1) PROVE i \in Leading(w)
    <3>1. i \in 1..Len(w) /\ \A j \in 1..i : j \in 1..(a - 1)
      BY <1>1
    <3> QED
      BY <1>2, <3>1 DEF Leading
  <2> QED
    BY <2>1, <2>2
<1>4. NotLast(w) \cup MarkersUpto(a - 1, w) = 1..(a - 1)
  BY <1>3 DEF NotLast, MarkersUpto
<1>5. NotLast(w) \cap MarkersUpto(a - 1, w) = {}
  BY DEF NotLast, MarkersUpto
<1>6. IsFiniteSet(1..(a - 1)) /\ Cardinality(1..(a - 1)) = a - 1
  <2>1. a - 1 \in Int /\ 1 \in Int
    BY <1>1
  <2>2. /\ IsFiniteSet(1..(a - 1))
        /\ Cardinality(1..(a - 1)) = IF 1 > a - 1 THEN 0 ELSE (a - 1) - 1 + 1
    BY <2>1, FS_Interval
  <2> QED
    BY <1>1, <2>2
<1>7. IsFiniteSet(NotLast(w)) /\ Cardinality(NotLast(w)) \in Nat
  <2>1. NotLast(w) \in SUBSET (1..(a - 1))
    BY <1>3 DEF NotLast
  <2>2. IsFiniteSet(NotLast(w))
    BY <1>6, <2>1, FS_Subset
  <2> QED
    BY <2>2, FS_CardinalityType
<1>8. IsFiniteSet(MarkersUpto(a - 1, w)) /\ Cardinality(MarkersUpto(a - 1, w)) \in Nat
  BY <1>1, MarkersOfStream
<1>9. Cardinality(NotLast(w) \cap MarkersUpto(a - 1, w)) = 0
  BY <1>5, FS_EmptySet
<1>10. a - 1 = Cardinality(NotLast(w)) + Cardinality(MarkersUpto(a - 1, w)) - 0
  <2>1. Cardinality(NotLast(w) \cup MarkersUpto(a - 1, w))
          = Cardinality(NotLast(w)) + Cardinality(MarkersUpto(a - 1, w))
              - Cardinality(NotLast(w) \cap MarkersUpto(a - 1, w))
    BY <1>7, <1>8, FS_Union
  <2> QED
    BY <1>4, <1>6, <1>9, <2>1
<1> QED
  BY <1>1, <1>7, <1>8, <1>10

\* The lag, as a packet waits, or makes try_parse refuse one or play a frame.
LEMMA LagWaits ==
    ASSUME NEW w, NEW n, NEW L, NEW B, NEW seen, NEW V, NEW a, AtPacket(a, B, n, seen, V, w, L),
           NEW q, Grown(q, B, w[n]), ~w[n].m, LagFrom(a, B, seen, w)
    PROVE  LagFrom(a, q, seen, w)
<1>1. Holds(q, a, n, w, L)
  BY Arrived
<1>2. B \in Seq(Packet) /\ w[n] \in Packet
  BY <1>1 DEF Holds, AtPacket
<1>3. Markers(q) = Markers(B) + 0 /\ Markers(B) \in Nat
  BY <1>2, MarkersGrow, MarkersFinite DEF Grown
<1>4. Markers(q) = Markers(B)
  BY <1>3
<1> QED
  BY <1>4 DEF LagFrom

LEMMA LagRefuses ==
    ASSUME NEW w, NEW n, NEW B, NEW seen, NEW V, NEW a, AtPacket(a, B, n, seen, V, w, {}),
           NEW q, Grown(q, B, w[n]),
           NEW v, NEW b, CutAt(q, 1, v, b), NEW r, PushRefuses(r, q, w[n], seen, 1),
           LagFrom(a, B, seen, w)
    PROVE  LagFrom(q[1].seq + 1, b, seen, w)
<1>1. Holds(q, a, n, w, {})
  BY Arrived
<1>2. /\ q \in Seq(Packet) /\ Len(q) \in Nat /\ Len(q) > 0 /\ Piece(q, a, n, w, {})
      /\ n \in Nat /\ a \in Nat /\ w[n] \in Packet
      /\ q[1].ok /\ q[1] = w[q[1].seq]
  BY <1>1 DEF Holds
<1>3. B \in Seq(Packet) /\ a >= 1
  BY DEF AtPacket
<1>4. ~seen /\ w[n].m
  BY <1>2 DEF PushRefuses
<1>5. q[1].seq \in a..n /\ \A j \in a..(q[1].seq - 1) : j \in {}
  <2>1. 1 > 0 /\ n \in Int /\ a \in Int
    BY <1>2
  <2> QED
    BY <1>2, <2>1, PieceCut
<1>6. q[1].seq = a
  BY <1>2, <1>5
<1>7. v[1] = w[a]
  BY <1>2, <1>6 DEF CutAt
<1>8. /\ Markers(B) \in Nat /\ Markers(b) \in Nat
      /\ w[a].m => Markers(b) = Markers(B)
      /\ ~w[a].m => Markers(b) = Markers(B) + 1
  <2>1. 1 > 0 /\ \A i \in 1..(1 - 1) : ~v[i].m
    OBVIOUS
  <2> QED
    BY <1>2, <1>3, <1>4, <1>7, <2>1, MarkersMoved
<1>9. /\ Cardinality(MarkersUpto(a - 1, w)) \in Nat /\ a > 0
      /\ w[a].m => Cardinality(MarkersUpto(a, w)) = Cardinality(MarkersUpto(a - 1, w)) + 1
      /\ ~w[a].m => Cardinality(MarkersUpto(a, w)) = Cardinality(MarkersUpto(a - 1, w))
  <2>1. a - 1 \in Nat /\ a > 0
    BY <1>2, <1>3
  <2> QED
    BY <1>2, <2>1, MarkersOfStream
<1>10. Markers(B) + Cardinality(MarkersUpto(a - 1, w)) = a - 1
  BY <1>4 DEF LagFrom
<1>11. Markers(b) + Cardinality(MarkersUpto(a, w)) = a
  <2>1. CASE w[a].m
    BY <1>2, <1>8, <1>9, <1>10, <2>1
  <2>2. CASE ~w[a].m
    BY <1>2, <1>8, <1>9, <1>10, <2>2
  <2> QED
    BY <2>1, <2>2
<1>12. (a + 1) - 1 = a
  BY <1>2
<1> QED
  BY <1>4, <1>6, <1>11, <1>12 DEF LagFrom

LEMMA LagPlays ==
    ASSUME NEW w, NEW n, NEW B, NEW seen, NEW V, NEW a, AtPacket(a, B, n, seen, V, w, {}),
           NEW q, Grown(q, B, w[n]),
           NEW m, NEW v, NEW b, CutAt(q, m, v, b),
           NEW r, PushTakes(r, q, w[n], seen, m, v),
           LagFrom(a, B, seen, w)
    PROVE  LagFrom(q[m].seq + 1, b, TRUE, w)
<1>1. Holds(q, a, n, w, {})
  BY Arrived
<1>2. /\ q \in Seq(Packet) /\ Len(q) \in Nat /\ Len(q) > 0 /\ Piece(q, a, n, w, {})
      /\ n \in Nat /\ a \in Nat /\ w[n] \in Packet
      /\ \A i \in 1..Len(q) : q[i].ok /\ q[i] = w[q[i].seq]
  BY <1>1 DEF Holds
<1>3. B \in Seq(Packet) /\ a \in 1..n /\ n \in 1..Len(w) /\ w \in Seq(Packet)
  BY <1>1 DEF AtPacket, Holds
<1>4. m \in 1..Len(q) /\ m > 0 /\ v[m] = q[m] /\ w[n].m /\ \A i \in 1..(m - 1) : ~v[i].m
  BY <1>2 DEF CutAt, PushTakes
<1>5. v[m].m
  BY <1>2, <1>4 DEF PushTakes
<1>6. Markers(b) = Markers(B) /\ Markers(B) \in Nat
  <2>1. w[n] \in Packet
    BY <1>2
  <2> QED
    BY <1>3, <1>4, <1>5, <2>1, MarkersMoved
<1>7. CASE seen
  BY <1>6, <1>7 DEF LagFrom
<1>8. CASE ~seen
  <2>1. q[1].seq \in a..q[m].seq /\ q[m].seq \in a..n /\ \A j \in a..(q[1].seq - 1) : j \in {}
    <3>1. n \in Int /\ a \in Int
      BY <1>2
    <3> QED
      BY <1>2, <1>4, <3>1, PieceCut
  <2>2. q[1].seq = a
    BY <1>2, <2>1
  <2>3. w[a].key
    BY <1>2, <1>8, <2>2 DEF PushTakes
  <2>4. NoKeyBefore(a, w, {})
    BY <1>8 DEF AtPacket, BufferFrom
  <2>5. a \in 1..Len(w)
    BY <1>2, <1>3
  <2>6. /\ Cardinality(NotLast(w)) + Cardinality(MarkersUpto(a - 1, w)) = a - 1
        /\ Cardinality(NotLast(w)) \in Nat
    BY <1>3, <2>3, <2>4, <2>5, NotLastCounted
  <2>7. Markers(B) + Cardinality(MarkersUpto(a - 1, w)) = a - 1
    BY <1>8 DEF LagFrom
  <2>8. Cardinality(MarkersUpto(a - 1, w)) \in Nat
    <3>1. a - 1 \in Nat
      BY <2>5
    <3> QED
      BY <3>1, MarkersOfStream
  <2> QED
    BY <1>6, <2>6, <2>7, <2>8 DEF LagFrom
<1> QED
  BY <1>7, <1>8

-----------------------------------------------------------------------------
LEMMA FeedInitIInv == FeedInit => FeedIInv
<1> SUFFICES ASSUME FeedInit PROVE FeedIInv
  OBVIOUS
<1>1. /\ wire \in Streams /\ wire \in Seq(Packet)
      /\ lost = {} /\ encoded_fifo = <<>> /\ next = 1
      /\ video = <<>> /\ packet_buffer = <<>>
  BY StreamAssumption DEF FeedInit, Init
<1>2. has_first_keyframe \in BOOLEAN /\ ~has_first_keyframe
  BY Zenon DEF FeedInit, Init
<1>3. video \in Seq(Frame) /\ packet_buffer \in Seq(Packet)
  BY <1>1, EmptySeq
<1>4. next \in 1..(Len(wire) + 1) /\ lost \in SUBSET (1..(next - 1)) /\ 1 \in 1..next
  BY <1>1
<1>5. FramesFrom(video, wire, lost)
  <2>1. Len(video) = 0
    BY <1>1
  <2> QED
    BY <1>1, <2>1 DEF FramesFrom
<1>6. BufferFrom(1, packet_buffer, next, has_first_keyframe, video, wire, lost)
  <2>1. Piece(packet_buffer, 1, next - 1, wire, lost)
    <3>1. Len(packet_buffer) = 0 /\ next - 1 = 0
      BY <1>1
    <3> QED
      BY <3>1 DEF Piece
  <2>2. NoKeyBefore(1, wire, lost)
    BY DEF NoKeyBefore
  <2> QED
    BY <1>1, <1>2, <2>1, <2>2 DEF BufferFrom
<1>7. LagFrom(1, packet_buffer, has_first_keyframe, wire)
  <2>1. MarkersOf(packet_buffer) = {}
    <3>1. Len(packet_buffer) = 0
      BY <1>1
    <3> QED
      BY <3>1 DEF MarkersOf
  <2>2. Markers(packet_buffer) = 0
    BY <1>3, <2>1, MarkersFinite, FS_EmptySet
  <2>3. MarkersUpto(1 - 1, wire) = {}
    BY DEF MarkersUpto
  <2>4. Cardinality(MarkersUpto(1 - 1, wire)) = 0
    BY <2>3, FS_EmptySet
  <2> QED
    BY <1>2, <2>2, <2>4 DEF LagFrom
<1> QED
  BY <1>1, <1>2, <1>3, <1>4, <1>5, <1>6, <1>7 DEF FeedIInv

\* A packet arrives: the feed stays as it was, but for a frame that may be played.
LEMMA ArrivalStep ==
    ASSUME FeedIInv, handle_rtp
    PROVE  /\ FeedIInv' /\ UNCHANGED <<wire, lost>>
           /\ video' = video \/ \E f \in Frame : video' = Append(video, f)
<1>1. /\ wire \in Streams /\ encoded_fifo = <<>> /\ has_first_keyframe \in BOOLEAN
      /\ video \in Seq(Frame) /\ packet_buffer \in Seq(Packet)
      /\ next \in 1..(Len(wire) + 1) /\ lost \in SUBSET (1..(next - 1))
      /\ FramesFrom(video, wire, lost)
  BY DEF FeedIInv
<1>2. PICK a \in 1..next :
          /\ BufferFrom(a, packet_buffer, next, has_first_keyframe, video, wire, lost)
          /\ lost = {} => LagFrom(a, packet_buffer, has_first_keyframe, wire)
  BY DEF FeedIInv
<1>3. wire \in Seq(Packet)
  BY <1>1, StreamAssumption
<1>4. next \in 1..Len(wire) /\ next + 1 \in 1..(Len(wire) + 1)
      /\ lost \in SUBSET (1..((next + 1) - 1)) /\ wire[next] \in Packet
  <2>1. next <= Len(wire)
    BY DEF handle_rtp
  <2> QED
    BY <1>1, <1>3, <2>1
<1>5. AtPacket(a, packet_buffer, next, has_first_keyframe, video, wire, lost)
  BY <1>1, <1>2, <1>4 DEF AtPacket
<1>6. PICK q : q = Append(packet_buffer, wire[next])
  OBVIOUS
<1>7. PICK r : r = Pushed(wire[next])
  OBVIOUS
<1>8. /\ r.seen \in BOOLEAN
      /\ \E n, v : Outcome(r, q, wire[next], has_first_keyframe, n, v)
  BY <1>1, <1>4, <1>6, <1>7, PushedCuts
<1>9. PICK n, v : Outcome(r, q, wire[next], has_first_keyframe, n, v)
  BY <1>8
<1>10. /\ packet_buffer' = r.buffer /\ has_first_keyframe' = r.seen /\ encoded_fifo' = <<>>
       /\ next' = next + 1 /\ UNCHANGED <<wire, lost>>
       /\ video' = video \o <<>> \o r.frames
  BY <1>1, <1>7 DEF handle_rtp
<1>11. CutAt(q, n, v, r.buffer) /\ r.buffer \in Seq(Packet)
  <2>1. CutAt(q, n, v, r.buffer)
    BY <1>9 DEF Outcome
  <2> QED
    BY <2>1 DEF CutAt
<1>12. Grown(q, packet_buffer, wire[next])
  BY <1>6 DEF Grown
<1>13. ASSUME NEW V2, video' = V2, V2 \in Seq(Frame), FramesFrom(V2, wire, lost),
              NEW c \in 1..(next + 1),
              BufferFrom(c, r.buffer, next + 1, r.seen, V2, wire, lost),
              lost = {} => LagFrom(c, r.buffer, r.seen, wire)
       PROVE  FeedIInv'
  <2>1. /\ wire' \in Streams /\ encoded_fifo' = <<>> /\ has_first_keyframe' \in BOOLEAN
        /\ video' \in Seq(Frame) /\ packet_buffer' \in Seq(Packet)
        /\ next' \in 1..(Len(wire') + 1)
        /\ lost' \in SUBSET (1..(next' - 1))
        /\ FramesFrom(video', wire', lost')
    BY <1>1, <1>4, <1>8, <1>10, <1>11, <1>13
  <2>2. /\ BufferFrom(c, packet_buffer', next', has_first_keyframe', video', wire', lost')
        /\ lost' = {} => LagFrom(c, packet_buffer', has_first_keyframe', wire')
    BY <1>10, <1>13
  <2>3. c \in 1..next'
    BY <1>10
  <2> QED
    BY <2>1, <2>2, <2>3 DEF FeedIInv
<1>14. ASSUME PushTakes(r, q, wire[next], has_first_keyframe, n, v)
       PROVE  \E f, V2 :
                 /\ f \in Frame /\ r.frames = <<f>> /\ V2 \in Seq(Frame)
                 /\ FramesFrom(V2, wire, lost)
                 /\ q[n].seq + 1 \in 1..(next + 1)
                 /\ BufferFrom(q[n].seq + 1, r.buffer, next + 1, TRUE, V2, wire, lost)
                 /\ V2 = Append(video, f)
  <2>1. PICK f, V2 : PlaysAs(f, v, V2, video)
    BY DEF PlaysAs, Grown
  <2>2. /\ f \in Frame /\ r.frames = <<f>> /\ V2 \in Seq(Frame)
        /\ FramesFrom(V2, wire, lost)
        /\ q[n].seq + 1 \in 1..(next + 1)
        /\ BufferFrom(q[n].seq + 1, r.buffer, next + 1, TRUE, V2, wire, lost)
    <3>1. CutAt(q, n, v, r.buffer)
      BY <1>11
    <3> QED
      BY <1>5, <1>12, <1>14, <2>1, <3>1, BufferPlays
  <2>3. V2 = Append(video, f)
    BY <2>1 DEF PlaysAs, Grown
  <2> QED
    BY <2>2, <2>3
<1>15. CASE r.frames = <<>> /\ r.seen = has_first_keyframe
  <2>1. video' = video
    BY <1>1, <1>10, <1>15
  <2>2. \E c \in 1..(next + 1) :
           /\ BufferFrom(c, r.buffer, next + 1, has_first_keyframe, video, wire, lost)
           /\ lost = {} => LagFrom(c, r.buffer, has_first_keyframe, wire)
    <3>1. CASE PushWaits(r, wire[next], has_first_keyframe, n)
      <4>1. CutAt(q, 0, v, r.buffer) /\ ~wire[next].m
        BY <1>11, <3>1 DEF PushWaits
      <4>2. r.buffer = q /\ a \in 1..(next + 1)
            /\ BufferFrom(a, r.buffer, next + 1, has_first_keyframe, video, wire, lost)
        BY <1>5, <1>12, <4>1, BufferWaits
      <4>3. lost = {} => LagFrom(a, q, has_first_keyframe, wire)
        BY <1>2, <1>5, <1>12, <4>1, LagWaits
      <4> QED
        BY <4>2, <4>3
    <3>2. CASE PushRefuses(r, q, wire[next], has_first_keyframe, n)
      <4>1. CutAt(q, 1, v, r.buffer) /\ PushRefuses(r, q, wire[next], has_first_keyframe, 1)
        BY <1>11, <3>2 DEF PushRefuses
      <4>2. q[1].seq + 1 \in 1..(next + 1)
            /\ BufferFrom(q[1].seq + 1, r.buffer, next + 1, has_first_keyframe, video, wire, lost)
        BY <1>5, <1>12, <4>1, BufferRefuses
      <4>3. ASSUME lost = {} PROVE LagFrom(q[1].seq + 1, r.buffer, has_first_keyframe, wire)
        <5>1. AtPacket(a, packet_buffer, next, has_first_keyframe, video, wire, {})
          BY <1>5, <4>3
        <5> QED
          BY <1>2, <1>12, <4>1, <4>3, <5>1, LagRefuses
      <4> QED
        BY <4>2, <4>3
    <3>3. CASE PushTakes(r, q, wire[next], has_first_keyframe, n, v)
      <4> QED
        BY <1>15, <1>14, <3>3
    <3> QED
      BY <1>9, <3>1, <3>2, <3>3 DEF Outcome
  <2>3. PICK c \in 1..(next + 1) :
           /\ BufferFrom(c, r.buffer, next + 1, r.seen, video, wire, lost)
           /\ lost = {} => LagFrom(c, r.buffer, r.seen, wire)
    BY <1>15, <2>2
  <2>4. FeedIInv'
    BY <1>1, <1>13, <2>1, <2>3
  <2> QED
    BY <1>10, <2>1, <2>4
<1>16. CASE PushTakes(r, q, wire[next], has_first_keyframe, n, v)
  <2>2. PICK f, V2 :
           /\ f \in Frame /\ r.frames = <<f>> /\ V2 \in Seq(Frame)
           /\ FramesFrom(V2, wire, lost)
           /\ q[n].seq + 1 \in 1..(next + 1)
           /\ BufferFrom(q[n].seq + 1, r.buffer, next + 1, TRUE, V2, wire, lost)
           /\ V2 = Append(video, f)
    BY <1>16, <1>14
  <2>4. video' = V2
    BY <1>1, <1>10, <2>2
  <2>5. r.seen = TRUE
    BY <1>16 DEF PushTakes
  <2>6. ASSUME lost = {} PROVE LagFrom(q[n].seq + 1, r.buffer, TRUE, wire)
    <3>1. AtPacket(a, packet_buffer, next, has_first_keyframe, video, wire, {})
      BY <1>5, <2>6
    <3> QED
      BY <1>2, <1>11, <1>12, <1>16, <2>6, <3>1, LagPlays
  <2>7. PICK c \in 1..(next + 1) : c = q[n].seq + 1
    BY <2>2
  <2>8. FeedIInv'
    BY <1>13, <2>2, <2>4, <2>5, <2>6, <2>7
  <2> QED
    BY <1>10, <2>2, <2>4, <2>8
<1> QED
  BY <1>9, <1>15, <1>16 DEF Outcome, PushWaits, PushRefuses

\* What was played has arrived.
LEMMA PlayedSoFar ==
    ASSUME FeedIInv, NEW k \in 1..Len(video)
    PROVE  /\ StartOf(video, k) \in Int /\ EndOf(video, k) \in Int
           /\ StartOf(video, k) <= EndOf(video, k) /\ EndOf(video, k) < next
           /\ StartOf(video, k) \in 1..Len(wire) /\ EndOf(video, k) \in 1..Len(wire)
<1>1. /\ video \in Seq(Frame) /\ FramesFrom(video, wire, lost) /\ wire \in Streams
      /\ next \in 1..(Len(wire) + 1)
  BY DEF FeedIInv
<1>2. PICK a \in 1..next :
          BufferFrom(a, packet_buffer, next, has_first_keyframe, video, wire, lost)
  BY DEF FeedIInv
<1>3. video # <<>>
  OBVIOUS
<1>4. a = EndOf(video, Len(video)) + 1
  BY <1>2, <1>3 DEF BufferFrom, Upto
<1>5. /\ EndOf(video, k) <= EndOf(video, Len(video)) /\ EndOf(video, k) \in Int
      /\ 1 <= StartOf(video, k) /\ StartOf(video, k) <= EndOf(video, k)
      /\ StartOf(video, k) \in Int /\ Len(video) \in 1..Len(video)
  BY <1>1, FramesOrdered
<1>6. EndOf(video, Len(video)) \in Int
  BY <1>1, <1>5, FramesOrdered
<1>7. Len(wire) \in Nat
  BY <1>1, StreamAssumption
<1> QED
  BY <1>1, <1>4, <1>5, <1>6, <1>7

\* A packet is lost behind all that was played, or is in the buffer.
LEMMA LossStep ==
    ASSUME FeedIInv, Lose
    PROVE  /\ FeedIInv' /\ UNCHANGED <<wire, video>> /\ lost' = lost \cup {next}
           /\ \A k \in 1..Len(video) : EndOf(video, k) < next
<1>1. /\ wire \in Streams /\ encoded_fifo = <<>> /\ has_first_keyframe \in BOOLEAN
      /\ video \in Seq(Frame) /\ packet_buffer \in Seq(Packet)
      /\ next \in 1..(Len(wire) + 1) /\ lost \in SUBSET (1..(next - 1))
      /\ FramesFrom(video, wire, lost)
  BY DEF FeedIInv
<1>2. PICK a \in 1..next :
          BufferFrom(a, packet_buffer, next, has_first_keyframe, video, wire, lost)
  BY DEF FeedIInv
<1>3. /\ packet_buffer' = packet_buffer /\ has_first_keyframe' = has_first_keyframe
      /\ encoded_fifo' = encoded_fifo
      /\ next' = next + 1 /\ wire' = wire /\ video' = video /\ lost' = lost \cup {next}
      /\ next <= Len(wire)
  BY DEF Lose
<1>4. wire \in Seq(Packet) /\ next \in Nat /\ Len(wire) \in Nat /\ a \in Int /\ next \in Int
  BY <1>1, StreamAssumption
<1>5. \A k \in 1..Len(video) : EndOf(video, k) < next
  BY PlayedSoFar
<1>6. FramesFrom(video, wire, lost \cup {next})
  BY <1>1, <1>4, <1>5, FramesLose
<1>7. BufferFrom(a, packet_buffer, next + 1, has_first_keyframe, video, wire, lost \cup {next})
  <2>1. Piece(packet_buffer, a, next, wire, lost \cup {next})
    <3>1. Piece(packet_buffer, a, next - 1, wire, lost)
      BY <1>2 DEF BufferFrom
    <3> QED
      BY <1>1, <1>4, <3>1, PieceLoses
  <2>2. ASSUME NoKeyBefore(a, wire, lost) PROVE NoKeyBefore(a, wire, lost \cup {next})
    BY <2>2 DEF NoKeyBefore
  <2>3. (next + 1) - 1 = next
    BY <1>4
  <2> QED
    BY <1>2, <2>1, <2>2, <2>3 DEF BufferFrom
<1>8. /\ next' \in 1..(Len(wire') + 1) /\ lost' \in SUBSET (1..(next' - 1))
      /\ a \in 1..next' /\ lost' # {}
  BY <1>1, <1>3, <1>4
<1>9. BufferFrom(a, packet_buffer', next', has_first_keyframe', video', wire', lost')
  BY <1>3, <1>7
<1>10. FramesFrom(video', wire', lost')
  BY <1>3, <1>6
<1>11. FeedIInv'
  BY <1>1, <1>3, <1>8, <1>9, <1>10 DEF FeedIInv
<1> QED
  BY <1>3, <1>5, <1>11

\* Every step keeps the inductive invariant.
LEMMA FeedNextIInv == FeedIInv /\ [FeedNext]_feedVars => FeedIInv'
<1> SUFFICES ASSUME FeedIInv, [FeedNext]_feedVars PROVE FeedIInv'
  OBVIOUS
<1>1. CASE handle_rtp
  BY <1>1, ArrivalStep
<1>2. CASE Lose
  BY <1>2, LossStep
<1>3. CASE UNCHANGED feedVars
  BY <1>3 DEF feedVars, FeedIInv
<1> QED
  BY <1>1, <1>2, <1>3 DEF FeedNext

-----------------------------------------------------------------------------
LEMMA FeedInvariant == FeedSpec => []FeedIInv
  BY FeedInitIInv, FeedNextIInv, PTL DEF FeedSpec

\* Without a loss, the depacketizer lags behind by the packets before the first keyframe
\* that were not the last of their frame, whatever the stream.
THEOREM LagStaysExact == FeedSpec => []LagIsExact
<1>1. FeedIInv => LagIsExact
  <2> SUFFICES ASSUME FeedIInv, lost = {}, has_first_keyframe
               PROVE  Markers(packet_buffer) = Cardinality({i \in Leading(wire) : ~wire[i].m})
    BY DEF LagIsExact
  <2>1. PICK a \in 1..next : LagFrom(a, packet_buffer, has_first_keyframe, wire)
    BY DEF FeedIInv
  <2> QED
    BY <2>1 DEF LagFrom, NotLast
<1> QED
  BY FeedInvariant, <1>1, PTL

\* Whatever is lost, the packets that were played, and behind them those in the buffer, are
\* in the order of the stream, none of them twice.
THEOREM FramesPlayedInOrder == FeedSpec => []PlayedInOrder
<1>1. FeedIInv => PlayedInOrder
  <2> SUFFICES ASSUME FeedIInv PROVE PlayedInOrder
    OBVIOUS
  <2>1. video \in Seq(Frame) /\ FramesFrom(video, wire, lost) /\ packet_buffer \in Seq(Packet)
    BY DEF FeedIInv
  <2>2. \A k \in 1..Len(video) :
           /\ video[k].payload \in Seq(Packet)
           /\ EndOf(video, k) \in Int /\ StartOf(video, k) \in Int
           /\ EndOf(video, k) <= EndOf(video, Len(video)) /\ Len(video) \in 1..Len(video)
           /\ \A i \in 1..Len(video[k].payload) :
                 video[k].payload[i].seq \in StartOf(video, k)..EndOf(video, k)
    BY <2>1, FramesOrdered
  <2>3. ASSUME NEW k \in 1..Len(video), NEW i \in 1..(Len(video[k].payload) - 1)
        PROVE  video[k].payload[i].seq < video[k].payload[i + 1].seq
    <3>1. PICK f \in Seq(Packet) : f = video[k].payload
      BY <2>2
    <3>2. \A x, y \in 1..Len(f) : x < y => f[x].seq < f[y].seq
      BY <2>1, <3>1 DEF FramesFrom, Piece
    <3>3. i \in 1..Len(f) /\ i + 1 \in 1..Len(f) /\ i < i + 1
      BY <3>1
    <3> QED
      BY <3>1, <3>2, <3>3
  <2>4. ASSUME NEW k \in 1..Len(video), NEW i \in Positions(video[k].payload)
        PROVE  i \in StartOf(video, k)..EndOf(video, k)
    BY <2>2 DEF Positions
  <2>5. ASSUME NEW k \in 1..Len(video), NEW l \in 1..Len(video), k < l,
               NEW i \in Positions(video[k].payload), NEW j \in Positions(video[l].payload)
        PROVE  i < j
    <3>1. EndOf(video, k) < StartOf(video, l)
      BY <2>1, <2>5 DEF FramesFrom
    <3>2. i \in StartOf(video, k)..EndOf(video, k) /\ j \in StartOf(video, l)..EndOf(video, l)
      BY <2>4
    <3>3. /\ EndOf(video, k) \in Int /\ StartOf(video, k) \in Int
          /\ EndOf(video, l) \in Int /\ StartOf(video, l) \in Int
      BY <2>2
    <3> QED
      BY <3>1, <3>2, <3>3
  <2>6. ASSUME NEW k \in 1..Len(video),
               NEW i \in Positions(video[k].payload), NEW j \in Positions(packet_buffer)
        PROVE  i < j
    <3>1. PICK a \in 1..next :
             BufferFrom(a, packet_buffer, next, has_first_keyframe, video, wire, lost)
      BY DEF FeedIInv
    <3>2. video # <<>>
      OBVIOUS
    <3>3. a = EndOf(video, Len(video)) + 1
      BY <3>1, <3>2 DEF BufferFrom, Upto
    <3>4. Piece(packet_buffer, a, next - 1, wire, lost)
      BY <3>1 DEF BufferFrom
    <3>5. j \in a..(next - 1)
      BY <3>4 DEF Positions, Piece
    <3>6. i \in StartOf(video, k)..EndOf(video, k)
      BY <2>4
    <3>7. /\ EndOf(video, k) <= EndOf(video, Len(video))
          /\ EndOf(video, k) \in Int /\ StartOf(video, k) \in Int
          /\ EndOf(video, Len(video)) \in Int
      BY <2>2
    <3> QED
      BY <3>3, <3>5, <3>6, <3>7
  <2> QED
    BY <2>3, <2>5, <2>6 DEF PlayedInOrder
<1> QED
  BY FeedInvariant, <1>1, PTL

-----------------------------------------------------------------------------
\* A frame of the stream, by the marks of its packets: from behind one marker to the next.
LEMMA OneFrame ==
    ASSUME wire \in Streams, NEW i \in 1..Len(wire), NEW j \in 1..Len(wire)
    PROVE  /\ i <= j => (j \in SameFrame(i) <=> \A k \in i..(j - 1) : ~wire[k].m)
           /\ j <= i => (j \in SameFrame(i) <=> \A k \in j..(i - 1) : ~wire[k].m)
           /\ i > 1 /\ wire[i].key => wire[i - 1].m
<1>1. wire \in Seq(Packet) /\ Len(wire) \in Nat
  BY StreamAssumption
<1>2. j \in SameFrame(i) <=> wire[j].frame = wire[i].frame
  BY DEF SameFrame
<1>3. ASSUME i <= j
      PROVE  wire[i].frame = wire[j].frame <=> \A k \in i..(j - 1) : ~wire[k].m
  <2>1. j \in i..Len(wire)
    BY <1>1, <1>3
  <2> QED
    BY <2>1, FrameAssumption
<1>4. ASSUME j <= i
      PROVE  wire[j].frame = wire[i].frame <=> \A k \in j..(i - 1) : ~wire[k].m
  <2>1. i \in j..Len(wire)
    BY <1>1, <1>4
  <2> QED
    BY <2>1, FrameAssumption
<1>5. i > 1 /\ wire[i].key => wire[i - 1].m
  BY FrameAssumption
<1> QED
  BY <1>2, <1>3, <1>4, <1>5

\* A frame that was played starts with the first packet of a frame of the stream.
LEMMA StartsAFrame ==
    ASSUME FeedIInv, NEW k \in 1..Len(video)
    PROVE  StartOf(video, k) > 1 => wire[StartOf(video, k) - 1].m
<1>1. /\ video \in Seq(Frame) /\ FramesFrom(video, wire, lost) /\ wire \in Streams
      /\ lost \in SUBSET (1..(next - 1)) /\ next \in 1..(Len(wire) + 1)
  BY DEF FeedIInv
<1>2. \A l \in 1..Len(video) :
         /\ video[l].payload \in Seq(Packet)
         /\ Len(video[l].payload) \in 1..Len(video[l].payload) /\ 1 \in 1..Len(video[l].payload)
         /\ video[l].payload[Len(video[l].payload)].m
         /\ \A i \in 1..Len(video[l].payload) :
               video[l].payload[i] = wire[video[l].payload[i].seq]
  <2> SUFFICES ASSUME NEW l \in 1..Len(video), NEW f, f = video[l].payload
               PROVE  /\ f \in Seq(Packet) /\ Len(f) \in 1..Len(f) /\ 1 \in 1..Len(f)
                      /\ f[Len(f)].m /\ \A i \in 1..Len(f) : f[i] = wire[f[i].seq]
    OBVIOUS
  <2>1. f \in Seq(Packet)
    BY <1>1, FramesOrdered
  <2>2. EndsWithMarker(f) /\ Piece(f, StartOf(video, l), EndOf(video, l), wire, lost)
    BY <1>1 DEF FramesFrom
  <2> QED
    BY <2>1, <2>2 DEF EndsWithMarker, Piece
<1>3. CASE k = 1
  <2>1. StartOf(video, k) = video[1].payload[1].seq
    BY <1>3 DEF StartOf
  <2>2. wire[StartOf(video, k)].key
    BY <1>1, <1>2, <1>3, <2>1 DEF FramesFrom
  <2>3. StartOf(video, k) \in 1..Len(wire)
    BY PlayedSoFar
  <2> QED
    BY <1>1, <2>2, <2>3, OneFrame
<1>4. CASE k # 1
  <2>1. k - 1 \in 1..Len(video)
    BY <1>4
  <2>2. StartOf(video, k) = EndOf(video, k - 1) + 1
    BY <1>4 DEF StartOf
  <2>3. EndOf(video, k - 1) \in Int
    BY <1>1, <2>1, FramesOrdered
  <2>4. PICK e \in Int : e = EndOf(video, k - 1)
    BY <2>3
  <2>5. wire[e].m
    BY <1>2, <2>1, <2>4 DEF EndOf
  <2> QED
    BY <2>2, <2>4, <2>5
<1> QED
  BY <1>3, <1>4

\* A played frame of which no packet was lost, nor the one before it, is a frame of the
\* stream: a loss reaches no further than the frame it cut, or the one behind it.
THEOREM LossesStayLocal == FeedSpec => []LossIsLocal
<1>1. ASSUME FeedIInv, NEW k \in 1..Len(video), NEW i \in Positions(video[k].payload),
             SameFrame(i) \cap lost = {},
             Min(SameFrame(i)) > 1 => Min(SameFrame(i)) - 1 \notin lost
      PROVE  Positions(video[k].payload) = SameFrame(i)
  <2> DEFINE P == Positions(video[k].payload)
             g == SameFrame(i)
             s == StartOf(video, k)
             e == EndOf(video, k)
             d == Min(g)
  <2>1. /\ video \in Seq(Frame) /\ FramesFrom(video, wire, lost) /\ wire \in Streams
        /\ wire \in Seq(Packet) /\ Len(wire) \in Nat
    BY <1>1, StreamAssumption DEF FeedIInv
  <2>2. /\ s \in Int /\ e \in Int /\ s <= e /\ s \in 1..Len(wire) /\ e \in 1..Len(wire)
        /\ s > 1 => wire[s - 1].m
    BY <1>1, PlayedSoFar, StartsAFrame
  <2>3. PICK f \in Seq(Packet) : f = video[k].payload
    BY <1>1, <2>1, FramesOrdered
  <2>4. EndsWithMarker(f) /\ Piece(f, s, e, wire, lost) /\ e = f[Len(f)].seq
    BY <1>1, <2>1, <2>3 DEF FramesFrom, EndOf
  <2>5. P = {f[x].seq : x \in 1..Len(f)}
    BY <2>3 DEF Positions
  <2> HIDE DEF P, g, s, e
  <2>6. \A p \in P : p \in s..e /\ p \notin lost
    BY <2>4, <2>5 DEF Piece
  <2>7. \A p \in s..e : p \notin lost => p \in P
    BY <2>4, <2>5 DEF Piece
  <2>8. Len(f) \in 1..Len(f) /\ wire[e].m /\ e \in P
    <3>1. Len(f) \in 1..Len(f) /\ f[Len(f)].m
      BY <2>3, <2>4 DEF EndsWithMarker
    <3>2. f[Len(f)] = wire[e]
      BY <2>4, <3>1 DEF Piece
    <3> QED
      BY <2>4, <2>5, <3>1, <3>2
  <2>9. \A p \in P : wire[p].m => p = e
    <3> SUFFICES ASSUME NEW p \in P, wire[p].m PROVE p = e
      OBVIOUS
    <3>1. PICK x \in 1..Len(f) : p = f[x].seq
      BY <2>5
    <3>2. f[x].m
      BY <2>4, <3>1 DEF Piece
    <3>3. ~(x \in 1..(Len(f) - 1))
      BY <2>4, <3>2 DEF EndsWithMarker
    <3>4. x = Len(f)
      BY <2>3, <3>3
    <3> QED
      BY <2>4, <3>1, <3>4
  <2>10. i \in P /\ i \in s..e /\ i \in 1..Len(wire) /\ i \in Nat
    <3>1. i \in P
      BY <1>1 DEF P
    <3> QED
      BY <2>1, <2>2, <2>6, <3>1
  <2>11. /\ g \subseteq 1..Len(wire) /\ i \in g /\ \A p \in g : p \notin lost
         /\ d > 1 => d - 1 \notin lost
    BY <1>1, <2>10 DEF g, SameFrame
  <2>12. d \in g /\ \A p \in g : d <= p
    <3>1. g \in SUBSET Nat /\ g # {}
      BY <2>1, <2>11
    <3> QED
      BY <3>1, MinProperty
  <2> HIDE DEF d
  <2>13. \A p \in 1..Len(wire) :
            /\ i <= p => (p \in g <=> \A x \in i..(p - 1) : ~wire[x].m)
            /\ p <= i => (p \in g <=> \A x \in p..(i - 1) : ~wire[x].m)
    BY <2>1, <2>10, OneFrame DEF g
  <2>14. d \in 1..Len(wire) /\ d <= i /\ \A x \in d..(i - 1) : ~wire[x].m
    BY <2>11, <2>12, <2>13
  <2>15. ~(d < s)
    <3> SUFFICES ASSUME d < s PROVE FALSE
      OBVIOUS
    <3>1. s > 1 /\ s - 1 \in d..(i - 1)
      BY <2>2, <2>10, <2>14
    <3> QED
      BY <2>2, <2>14, <3>1
  <2>16. ~(d > s)
    <3> SUFFICES ASSUME d > s PROVE FALSE
      OBVIOUS
    <3>1. d > 1 /\ d - 1 \in 1..Len(wire) /\ d - 1 <= i /\ d - 1 \in s..e /\ ~(d <= d - 1)
      BY <2>2, <2>10, <2>14
    <3>2. d - 1 \notin g
      BY <2>12, <3>1
    <3>3. PICK x \in (d - 1)..(i - 1) : wire[x].m
      BY <2>13, <3>1, <3>2
    <3>4. x = d - 1
      BY <2>14, <3>3
    <3>5. d - 1 \in P
      BY <2>7, <2>11, <3>1
    <3>6. d - 1 = e
      BY <2>9, <3>3, <3>4, <3>5
    <3> QED
      BY <2>10, <2>14, <3>6
  <2>17. d = s
    BY <2>2, <2>14, <2>15, <2>16
  <2>18. ASSUME NEW p \in P PROVE p \in g
    <3>1. p \in s..e /\ p \in 1..Len(wire)
      BY <2>1, <2>2, <2>6
    <3>2. CASE p <= i
      <4>1. \A x \in p..(i - 1) : x \in d..(i - 1)
        BY <2>2, <2>17, <3>1
      <4> QED
        BY <2>13, <2>14, <3>1, <3>2, <4>1
    <3>3. CASE i <= p
      <4>1. \A x \in i..(p - 1) : ~wire[x].m
        <5> SUFFICES ASSUME NEW y \in i..(p - 1), wire[y].m PROVE FALSE
          OBVIOUS
        <5> DEFINE M == {x \in i..(p - 1) : wire[x].m}
                   c == Min(M)
        <5>1. M \in SUBSET Nat /\ M # {}
          BY <2>10, <3>1
        <5>2. c \in M /\ \A x \in M : c <= x
          BY <5>1, MinProperty
        <5> HIDE DEF c
        <5>3. c \in i..(p - 1) /\ wire[c].m /\ c \in 1..Len(wire) /\ c \in s..e /\ c < e
          BY <2>2, <2>10, <3>1, <5>2
        <5>4. \A x \in i..(c - 1) : ~wire[x].m
          <6> SUFFICES ASSUME NEW x \in i..(c - 1), wire[x].m PROVE FALSE
            OBVIOUS
          <6>1. x \in M /\ ~(c <= x)
            BY <2>10, <3>1, <5>3
          <6> QED
            BY <5>2, <6>1
        <5>5. c \in g
          BY <2>10, <2>13, <5>3, <5>4
        <5>6. c \in P
          BY <2>7, <2>11, <5>3, <5>5
        <5> QED
          BY <2>2, <2>9, <5>3, <5>6
      <4> QED
        BY <2>13, <3>1, <3>3, <4>1
    <3> QED
      BY <2>10, <3>1, <3>2, <3>3
  <2>19. ASSUME NEW p \in g PROVE p \in P
    <3>1. p \in 1..Len(wire) /\ p \notin lost /\ s <= p
      BY <2>11, <2>12, <2>17
    <3>2. ~(p > e)
      <4> SUFFICES ASSUME p > e PROVE FALSE
        OBVIOUS
      <4>1. i <= p /\ e \in i..(p - 1)
        BY <2>2, <2>10, <3>1
      <4> QED
        BY <2>8, <2>13, <3>1, <4>1
    <3>3. p \in s..e
      BY <2>2, <3>1, <3>2
    <3> QED
      BY <2>7, <3>1, <3>3
  <2> QED
    BY <2>18, <2>19 DEF P, g
<1>2. FeedIInv => LossIsLocal
  BY <1>1 DEF LossIsLocal
<1> QED
  BY FeedInvariant, <1>2, PTL

-----------------------------------------------------------------------------
\* The frames that were sent before the first loss.
Ahead(V, L) == {k \in 1..Len(V) : \A l \in L : EndOf(V, k) < l}

Stretch(f, w, a, b) == f = SubSeq(w, a, b)

\* A piece of which nothing was lost is a stretch of the stream.
LEMMA PieceIsStretch ==
    ASSUME NEW f \in Seq(Packet), NEW w \in Seq(Packet), NEW L, NEW a \in Nat, NEW b \in Nat,
           1 <= a, a <= b, b <= Len(w), Piece(f, a, b, w, L), \A l \in a..b : l \notin L
    PROVE  Stretch(f, w, a, b)
<1> USE DEF Stretch
<1>1. Len(f) \in Nat /\ Len(w) \in Nat
  OBVIOUS
<1>2. \A i \in 1..Len(f) : f[i].seq \in a..b
  BY DEF Piece
<1>3. \A i, j \in 1..Len(f) : i < j => f[i].seq < f[j].seq
  BY DEF Piece
<1>4. \A j \in a..b : \E i \in 1..Len(f) : f[i].seq = j
  BY DEF Piece
<1>5. \A i \in 1..Len(f) : f[i].seq = a + i - 1
  <2> DEFINE M == {i \in 1..Len(f) : f[i].seq # a + i - 1}
             m == Min(M)
  <2> SUFFICES ASSUME M # {} PROVE FALSE
    OBVIOUS
  <2>1. M \in SUBSET Nat
    OBVIOUS
  <2>2. m \in M /\ \A i \in M : m <= i
    BY <2>1, MinProperty
  <2> HIDE DEF m
  <2>3. m \in 1..Len(f) /\ f[m].seq # a + m - 1
    BY <2>2
  <2>4. \A i \in 1..Len(f) : i < m => f[i].seq = a + i - 1
    <3> SUFFICES ASSUME NEW i \in 1..Len(f), i < m, f[i].seq # a + i - 1 PROVE FALSE
      OBVIOUS
    <3>1. i \in M
      OBVIOUS
    <3>2. m <= i
      BY <2>2, <3>1
    <3> QED
      BY <2>3, <3>2
  <2> HIDE DEF M
  <2>5. f[m].seq > a + m - 1
    <3>1. f[m].seq \in a..b
      BY <1>2, <2>3
    <3>2. CASE m = 1
      BY <2>3, <3>1, <3>2
    <3>3. CASE m # 1
      <4>1. m - 1 \in 1..Len(f) /\ m - 1 < m
        BY <2>3, <3>3
      <4>2. f[m - 1].seq = a + (m - 1) - 1
        BY <2>4, <4>1
      <4>3. f[m - 1].seq < f[m].seq
        BY <1>3, <2>3, <4>1
      <4>4. PICK y \in Int : y = f[m].seq
        BY <3>1
      <4>5. PICK c \in Int : c = m
        BY <2>3
      <4>6. y > a + (c - 1) - 1 /\ y # a + c - 1
        BY <2>3, <4>2, <4>3, <4>4, <4>5
      <4>7. y > a + c - 1
        BY <4>6
      <4> QED
        BY <4>4, <4>5, <4>7
    <3> QED
      BY <3>2, <3>3
  <2>6. a + m - 1 \in a..b
    BY <1>2, <2>3, <2>5
  <2>7. PICK i \in 1..Len(f) : f[i].seq = a + m - 1
    BY <1>4, <2>6
  <2>8. CASE i < m
    BY <2>3, <2>4, <2>7, <2>8
  <2>9. CASE i = m
    BY <2>3, <2>7, <2>9
  <2>10. CASE m < i
    <3>1. f[m].seq < f[i].seq
      BY <1>3, <2>3, <2>10
    <3>2. f[m].seq \in a..b
      BY <1>2, <2>3
    <3> QED
      BY <2>3, <2>5, <2>7, <3>1, <3>2
  <2> QED
    BY <2>3, <2>8, <2>9, <2>10
<1>6. Len(f) = b - a + 1
  <2>1. PICK i \in 1..Len(f) : f[i].seq = b
    BY <1>4
  <2>2. i = b - a + 1
    BY <1>5, <2>1
  <2>3. Len(f) \in 1..Len(f)
    BY <2>1
  <2>4. f[Len(f)].seq = a + Len(f) - 1 /\ f[Len(f)].seq \in a..b
    BY <1>2, <1>5, <2>3
  <2> QED
    BY <1>1, <2>2, <2>4
<1>7. PICK s : s = SubSeq(w, a, b)
  OBVIOUS
<1>8. /\ s \in Seq(Packet) /\ Len(s) = b - a + 1
      /\ \A i \in 1..(b - a + 1) : s[i] = w[a + i - 1]
  <2>1. a \in Int /\ b \in Int /\ a <= b
    BY <1>1
  <2>2. \A i \in a..b : w[i] \in Packet
    BY <1>1, ElementOfSeq
  <2>3. /\ SubSeq(w, a, b) \in Seq(Packet)
        /\ Len(SubSeq(w, a, b)) = IF a <= b THEN b - a + 1 ELSE 0
        /\ \A i \in 1..(b - a + 1) : SubSeq(w, a, b)[i] = w[a + i - 1]
    BY <2>1, <2>2, SubSeqProperties
  <2> QED
    BY <1>7, <2>1, <2>3
<1>9. \A i \in 1..Len(f) : f[i] = s[i]
  <2> SUFFICES ASSUME NEW i \in 1..Len(f) PROVE f[i] = s[i]
    OBVIOUS
  <2>1. f[i] = w[f[i].seq]
    BY DEF Piece
  <2>2. f[i].seq = a + i - 1
    BY <1>5
  <2>3. s[i] = w[a + i - 1]
    BY <1>6, <1>8
  <2> QED
    BY <2>1, <2>2, <2>3
<1> QED
  BY <1>6, <1>7, <1>8, <1>9, SeqEqual

\* A frame that was sent before the first loss is a whole frame of the stream.
LEMMA WholeFrame ==
    ASSUME NEW w \in Streams, NEW V \in Seq(Frame), NEW L \in SUBSET Int, FramesFrom(V, w, L),
           NEW k \in Ahead(V, L), EndOf(V, k) <= Len(w)
    PROVE  /\ StartOf(V, k) \in 1..Len(w) /\ EndOf(V, k) \in StartOf(V, k)..Len(w)
           /\ w[EndOf(V, k)].m
           /\ \A i \in StartOf(V, k)..(EndOf(V, k) - 1) : ~w[i].m
           /\ V[k].payload = SubSeq(w, StartOf(V, k), EndOf(V, k))
           /\ k = 1 => /\ w[StartOf(V, k)].key
                       /\ \A i \in 1..(StartOf(V, k) - 1) : ~w[i].key
<1>1. w \in Seq(Packet) /\ Len(w) \in Nat
  BY StreamAssumption
<1>2. k \in 1..Len(V) /\ \A l \in L : EndOf(V, k) < l
  BY DEF Ahead
<1>3. PICK a \in Int : a = StartOf(V, k)
  BY <1>2, FramesOrdered
<1>4. PICK b \in Int : b = EndOf(V, k)
  BY <1>2, FramesOrdered
<1>5. /\ 1 <= a /\ a <= b /\ b <= Len(w) /\ a \in Nat /\ b \in Nat
  BY <1>2, <1>3, <1>4, FramesOrdered
<1>6. PICK f \in Seq(Packet) : f = V[k].payload
  BY <1>2, FramesOrdered
<1>7. EndsWithMarker(f) /\ Piece(f, a, b, w, L) /\ b = f[Len(f)].seq
  BY <1>2, <1>3, <1>4, <1>6 DEF FramesFrom, EndOf
<1>8. \A i \in 1..b : i \notin L
  <2> SUFFICES ASSUME NEW i \in 1..b, i \in L PROVE FALSE
    OBVIOUS
  <2>1. b < i
    BY <1>2, <1>4
  <2> QED
    BY <1>5, <2>1
<1>9. f = SubSeq(w, a, b)
  <2>1. \A l \in a..b : l \notin L
    BY <1>5, <1>8
  <2>2. Piece(f, a, b, w, L)
    BY <1>7
  <2>3. Stretch(f, w, a, b)
    BY <1>1, <1>5, <2>1, <2>2, PieceIsStretch
  <2> QED
    BY <2>3 DEF Stretch
<1>10. Len(f) \in 1..Len(f) /\ 1 \in 1..Len(f) /\ w[b].m
  <2>1. Len(f) \in 1..Len(f) /\ 1 \in 1..Len(f) /\ f[Len(f)].m
    BY <1>6, <1>7 DEF EndsWithMarker
  <2>2. f[Len(f)] = w[b]
    BY <1>7, <2>1 DEF Piece
  <2> QED
    BY <2>1, <2>2
<1>11. \A i \in a..(b - 1) : ~w[i].m
  <2> SUFFICES ASSUME NEW i \in a..(b - 1) PROVE ~w[i].m
    OBVIOUS
  <2>1. i \in a..b /\ i \notin L /\ i < b
    BY <1>5, <1>8
  <2>2. PICK x \in 1..Len(f) : f[x].seq = i
    BY <1>7, <2>1 DEF Piece
  <2>3. f[x] = w[i]
    BY <1>7, <2>2 DEF Piece
  <2>4. x # Len(f)
    BY <1>7, <2>1, <2>2
  <2>5. x \in 1..(Len(f) - 1)
    BY <1>6, <2>4
  <2> QED
    BY <1>7, <2>3, <2>5 DEF EndsWithMarker
<1>12. ASSUME k = 1 PROVE w[a].key /\ \A i \in 1..(a - 1) : ~w[i].key
  <2>1. a = f[1].seq
    BY <1>3, <1>6, <1>12 DEF StartOf
  <2>2. f[1] = w[a]
    BY <1>7, <1>10, <2>1 DEF Piece
  <2>3. V # <<>>
    BY <1>2
  <2>4. f[1].key /\ NoKeyBefore(a, w, L)
    BY <1>3, <1>6, <1>12, <2>3 DEF FramesFrom
  <2>5. \A i \in 1..(a - 1) : i \in 1..b
    BY <1>5
  <2> QED
    BY <1>8, <2>2, <2>4, <2>5 DEF NoKeyBefore
<1> QED
  BY <1>3, <1>4, <1>5, <1>6, <1>9, <1>10, <1>11, <1>12

\* They are the first ones, up to some n.
LEMMA AheadIsPrefix ==
    ASSUME NEW V \in Seq(Frame), NEW w, NEW L \in SUBSET Int, FramesFrom(V, w, L)
    PROVE  \E n \in 0..Len(V) : Ahead(V, L) = 1..n
<1> DEFINE M == {k \in Nat : k \in 1..Len(V) /\ k \notin Ahead(V, L)}
<1>1. Len(V) \in Nat /\ \A k \in Ahead(V, L) : k \in 1..Len(V)
  BY DEF Ahead
<1>2. CASE M = {}
  <2>1. \A k \in 1..Len(V) : k \in Ahead(V, L)
    BY <1>1, <1>2
  <2>2. Ahead(V, L) = 1..Len(V)
    BY <1>1, <2>1
  <2> QED
    BY <1>1, <2>2
<1>3. CASE M # {}
  <2> DEFINE m == Min(M)
  <2>1. m \in M /\ \A k \in M : m <= k
    <3>1. M \in SUBSET Nat
      OBVIOUS
    <3> QED
      BY <1>3, <3>1, MinProperty
  <2> HIDE DEF m
  <2>2. m \in 1..Len(V) /\ m \notin Ahead(V, L)
    BY <2>1
  <2>3. PICK l \in L : ~(EndOf(V, m) < l)
    BY <2>2 DEF Ahead
  <2>4. \A k \in 1..Len(V) : k < m => k \in Ahead(V, L)
    <3> SUFFICES ASSUME NEW k \in 1..Len(V), k < m, k \notin Ahead(V, L) PROVE FALSE
      OBVIOUS
    <3>1. k \in M /\ ~(m <= k)
      BY <2>2
    <3> QED
      BY <2>1, <3>1
  <2>5. \A k \in 1..Len(V) : m < k => k \notin Ahead(V, L)
    <3> SUFFICES ASSUME NEW k \in 1..Len(V), m < k, k \in Ahead(V, L) PROVE FALSE
      OBVIOUS
    <3>1. EndOf(V, m) < StartOf(V, k) /\ StartOf(V, k) <= EndOf(V, k)
      BY <2>2, FramesOrdered DEF FramesFrom
    <3>2. EndOf(V, m) \in Int /\ StartOf(V, k) \in Int /\ EndOf(V, k) \in Int
      BY <2>2, FramesOrdered
    <3>3. EndOf(V, k) < l /\ l \in Int
      BY DEF Ahead
    <3> QED
      BY <2>3, <3>1, <3>2, <3>3
  <2>6. Ahead(V, L) = 1..(m - 1)
    <3>1. ASSUME NEW k \in Ahead(V, L) PROVE k \in 1..(m - 1)
      <4>1. k \in 1..Len(V) /\ ~(m < k) /\ k # m
        BY <1>1, <2>2, <2>5, <3>1
      <4> QED
        BY <2>2, <4>1
    <3>2. ASSUME NEW k \in 1..(m - 1) PROVE k \in Ahead(V, L)
      <4>1. k \in 1..Len(V) /\ k < m
        BY <2>2, <3>2
      <4> QED
        BY <2>4, <4>1
    <3> QED
      BY <3>1, <3>2
  <2> QED
    BY <1>1, <2>2, <2>6
<1> QED
  BY <1>2, <1>3

\* The frames whose packets were all sent before the first loss, as Vp8Feed names them.
LEMMA AheadByPositions ==
    ASSUME NEW V \in Seq(Frame), NEW w, NEW L \in SUBSET Int, FramesFrom(V, w, L)
    PROVE  {k \in 1..Len(V) : \A i \in Positions(V[k].payload), l \in L : i < l} = Ahead(V, L)
<1>1. ASSUME NEW k \in 1..Len(V)
      PROVE  (\A i \in Positions(V[k].payload), l \in L : i < l)
             <=> \A l \in L : EndOf(V, k) < l
  <2>1. PICK f \in Seq(Packet) : f = V[k].payload
    BY <1>1, FramesOrdered
  <2>2. EndOf(V, k) \in Positions(f)
    <3>1. Len(f) \in 1..Len(f)
      BY <1>1, <2>1 DEF FramesFrom, EndsWithMarker
    <3> QED
      BY <2>1, <3>1 DEF Positions, EndOf
  <2>3. EndOf(V, k) \in Int /\ StartOf(V, k) \in Int
    BY <1>1, FramesOrdered
  <2>4. \A i \in Positions(f) : i \in StartOf(V, k)..EndOf(V, k)
    BY <1>1, <2>1, FramesOrdered DEF Positions
  <2>5. ASSUME \A l \in L : EndOf(V, k) < l, NEW i \in Positions(f), NEW l \in L PROVE i < l
    <3>1. i \in StartOf(V, k)..EndOf(V, k) /\ EndOf(V, k) < l /\ l \in Int
      BY <2>4, <2>5
    <3> QED
      BY <2>3, <3>1
  <2> QED
    BY <2>1, <2>2, <2>5
<1> QED
  BY <1>1 DEF Ahead

\* The refinement mapping: P are the first n frames, F the position behind them.
Shows(P, F, n, V) ==
    /\ n \in 0..Len(V)
    /\ P = [k \in 1..n |-> V[k].payload]
    /\ F = IF n = 0 THEN 0 ELSE EndOf(V, n) + 1

LEMMA Mapped ==
    /\ FeedIInv => \E n : Ahead(video, lost) = 1..n /\ Shows(Payloads, From, n, video)
    /\ FeedIInv' => \E n : Ahead(video', lost') = 1..n /\ Shows(Payloads', From', n, video')
<1>1. ASSUME NEW n \in Nat PROVE Cardinality(1..n) = n /\ (1..n = {} <=> n = 0)
  <2>1. Cardinality(1..n) = n
    BY <1>1, FS_Interval
  <2>2. n # 0 => 1 \in 1..n
    BY <1>1
  <2> QED
    BY <1>1, <2>1, <2>2
<1>2. ASSUME FeedIInv
      PROVE  \E n : Ahead(video, lost) = 1..n /\ Shows(Payloads, From, n, video)
  <2>1. /\ video \in Seq(Frame) /\ lost \in SUBSET Int /\ FramesFrom(video, wire, lost)
    BY <1>2 DEF FeedIInv
  <2>2. PICK n \in 0..Len(video) : Ahead(video, lost) = 1..n
    BY <2>1, AheadIsPrefix
  <2>3. BeforeLoss = 1..n
    BY <2>1, <2>2, AheadByPositions DEF BeforeLoss
  <2>4. /\ Cardinality(1..n) = n /\ (1..n = {} <=> n = 0)
    BY <1>1, <2>1, <2>2
  <2>5. Shows(Payloads, From, n, video)
    BY <2>2, <2>3, <2>4, Zenon DEF Shows, Payloads, From, EndOf
  <2> QED
    BY <2>2, <2>5
<1>3. ASSUME FeedIInv'
      PROVE  \E n : Ahead(video', lost') = 1..n /\ Shows(Payloads', From', n, video')
  <2>1. /\ video' \in Seq(Frame) /\ lost' \in SUBSET Int /\ FramesFrom(video', wire', lost')
    BY <1>3 DEF FeedIInv
  <2>2. PICK n \in 0..Len(video') : Ahead(video', lost') = 1..n
    BY <2>1, AheadIsPrefix
  <2>3. BeforeLoss' = 1..n
    BY <2>1, <2>2, AheadByPositions DEF BeforeLoss
  <2>4. /\ Cardinality(1..n) = n /\ (1..n = {} <=> n = 0)
    BY <1>1, <2>1, <2>2
  <2>5. Shows(Payloads', From', n, video')
    BY <2>2, <2>3, <2>4, Zenon DEF Shows, Payloads, From, EndOf
  <2> QED
    BY <2>2, <2>5
<1> QED
  BY <1>2, <1>3

\* The frames shown stay the same, or one more is shown.
LEMMA ShownSame ==
    ASSUME NEW V \in Seq(Frame), NEW V2, NEW n \in 0..Len(V),
           \A k \in 1..Len(V) : V2[k] = V[k],
           NEW P, NEW F, Shows(P, F, n, V), NEW P2, NEW F2, Shows(P2, F2, n, V2)
    PROVE  P2 = P /\ F2 = F
<1>1. \A k \in 1..n : V2[k].payload = V[k].payload
  OBVIOUS
<1>2. P2 = P
  BY <1>1 DEF Shows
<1>3. ASSUME n # 0 PROVE EndOf(V2, n) = EndOf(V, n)
  <2>1. n \in 1..Len(V)
    BY <1>3
  <2> QED
    BY <2>1 DEF EndOf
<1>4. F2 = F
  BY <1>3 DEF Shows
<1> QED
  BY <1>2, <1>4

LEMMA ShownGrows ==
    ASSUME NEW V \in Seq(Frame), NEW V2 \in Seq(Frame), NEW n \in Nat, n = Len(V),
           Len(V2) = n + 1, \A k \in 1..n : V2[k] = V[k],
           NEW P, NEW F, Shows(P, F, n, V), NEW P2, NEW F2, Shows(P2, F2, n + 1, V2)
    PROVE  P2 = Append(P, V2[n + 1].payload) /\ F2 = EndOf(V2, n + 1) + 1
<1> DEFINE e == V2[n + 1].payload
<1>1. /\ P = [k \in 1..n |-> V[k].payload]
      /\ P2 = [k \in 1..(n + 1) |-> V2[k].payload]
      /\ F2 = EndOf(V2, n + 1) + 1
  BY DEF Shows
<1>2. \A k \in 1..(n + 1) : V2[k].payload \in Seq(Packet)
  <2>1. \A k \in 1..(n + 1) : V2[k] \in Frame
    OBVIOUS
  <2> QED
    BY <2>1 DEF Frame
<1>3. \A k \in 1..n : k \in 1..(n + 1) /\ V[k].payload = V2[k].payload
  OBVIOUS
<1>4. n + 1 \in 1..(n + 1) /\ e \in Seq(Packet)
  BY <1>2
<1>5. P \in Seq(Seq(Packet)) /\ Len(P) = n /\ \A k \in 1..n : P[k] = V2[k].payload
  <2>1. \A k \in 1..n : V[k].payload \in Seq(Packet)
    BY <1>2, <1>3
  <2> QED
    BY <1>1, <1>3, <2>1
<1>6. P2 \in Seq(Seq(Packet)) /\ Len(P2) = n + 1 /\ \A k \in 1..(n + 1) : P2[k] = V2[k].payload
  BY <1>1, <1>2
<1>7. PICK x : x = Append(P, e)
  OBVIOUS
<1> HIDE DEF e
<1>8. /\ x \in Seq(Seq(Packet)) /\ Len(x) = n + 1 /\ x[n + 1] = e
      /\ \A k \in 1..n : x[k] = P[k]
  BY <1>4, <1>5, <1>7, AppendProperties
<1>9. \A k \in 1..(n + 1) : x[k] = P2[k]
  <2> SUFFICES ASSUME NEW k \in 1..(n + 1) PROVE x[k] = P2[k]
    OBVIOUS
  <2>1. CASE k \in 1..n
    BY <1>5, <1>6, <1>8, <2>1
  <2>2. CASE k = n + 1
    BY <1>6, <1>8, <2>2 DEF e
  <2> QED
    BY <2>1, <2>2
<1>10. x = P2
  BY <1>6, <1>8, <1>9, SeqEqual
<1> QED
  BY <1>1, <1>7, <1>10 DEF e

LEMMA SameBound == ASSUME NEW m \in Nat, NEW n \in Nat, 1..m = 1..n PROVE m = n
<1>1. /\ m # 0 => m \in 1..m
      /\ n # 0 => n \in 1..n
  OBVIOUS
<1>2. /\ m # 0 => m \in 1..n
      /\ n # 0 => n \in 1..m
  BY <1>1
<1> QED
  BY <1>2

\* When no frame sent before the first loss is added, FrameStream does not move.
LEMMA NothingShown ==
    ASSUME FeedIInv, FeedIInv', \A k \in 1..Len(video) : video'[k] = video[k],
           Ahead(video', lost') = Ahead(video, lost)
    PROVE  UNCHANGED <<Payloads, From>>
<1>1. PICK n : Ahead(video, lost) = 1..n /\ Shows(Payloads, From, n, video)
  BY Mapped
<1>2. PICK m : Ahead(video', lost') = 1..m /\ Shows(Payloads', From', m, video')
  BY Mapped
<1>3. video \in Seq(Frame) /\ video' \in Seq(Frame)
  BY DEF FeedIInv
<1>4. n \in 0..Len(video) /\ m \in 0..Len(video')
  BY <1>1, <1>2 DEF Shows
<1>5. m = n
  <2>1. 1..m = 1..n /\ m \in Nat /\ n \in Nat
    BY <1>1, <1>2, <1>3, <1>4
  <2> QED
    BY <2>1, SameBound
<1>6. Payloads' = Payloads /\ From' = From
  BY <1>1, <1>2, <1>3, <1>4, <1>5, ShownSame
<1> QED
  BY <1>6

\* When one is, FrameStream plays it.
LEMMA OneMoreShown ==
    ASSUME FeedIInv, FeedIInv', UNCHANGED <<wire, lost>>,
           NEW N, N = Len(video), Len(video') = N + 1, N + 1 \in Ahead(video', lost'),
           \A k \in 1..N : video'[k] = video[k] /\ EndOf(video', k) = EndOf(video, k)
    PROVE  Played!Next
<1>1. PICK n : Ahead(video, lost) = 1..n /\ Shows(Payloads, From, n, video)
  BY Mapped
<1>2. PICK m : Ahead(video', lost') = 1..m /\ Shows(Payloads', From', m, video')
  BY Mapped
<1>3. /\ wire \in Streams /\ video \in Seq(Frame) /\ lost \in SUBSET Int
      /\ FramesFrom(video, wire, lost)
  BY DEF FeedIInv
<1>4. /\ wire \in Streams /\ video' \in Seq(Frame) /\ lost' \in SUBSET Int
      /\ FramesFrom(video', wire, lost')
  BY <1>3 DEF FeedIInv
<1>5. N \in Nat /\ n \in 0..N /\ m \in 0..(N + 1)
  BY <1>1, <1>2, <1>3 DEF Shows
<1>6. m = N + 1
  BY <1>2, <1>5
<1>7. n = N
  <2>1. CASE N = 0
    BY <1>5, <2>1
  <2>2. CASE N # 0
    <3>1. N \in 1..m /\ N \in 1..Len(video) /\ N \in 1..N
      BY <1>5, <1>6, <2>2
    <3>2. N \in Ahead(video', lost')
      BY <1>2, <3>1
    <3>3. \A l \in lost : EndOf(video, N) < l
      BY <3>1, <3>2 DEF Ahead
    <3>4. N \in Ahead(video, lost)
      BY <3>1, <3>3 DEF Ahead
    <3> QED
      BY <1>1, <1>5, <3>4
  <2> QED
    BY <2>1, <2>2
<1>8. PICK a : a = StartOf(video', N + 1)
  OBVIOUS
<1>9. PICK b : b = EndOf(video', N + 1)
  OBVIOUS
<1>10. b \in Int /\ b <= Len(wire)
  <2>1. next' \in 1..(Len(wire) + 1) /\ Len(wire) \in Nat
    BY <1>3, StreamAssumption DEF FeedIInv
  <2>2. PICK c \in 1..next' :
           BufferFrom(c, packet_buffer', next', has_first_keyframe', video', wire', lost')
    BY DEF FeedIInv
  <2>3. video' # <<>>
    BY <1>4, <1>5
  <2>4. c = b + 1
    BY <1>9, <2>2, <2>3 DEF BufferFrom, Upto
  <2>5. N + 1 \in 1..Len(video')
    BY <1>5
  <2>6. b \in Int
    BY <1>4, <1>9, <2>5, FramesOrdered
  <2> QED
    BY <2>1, <2>4, <2>6
<1>11. /\ a \in 1..Len(wire) /\ b \in a..Len(wire) /\ wire[b].m
       /\ \A i \in a..(b - 1) : ~wire[i].m
       /\ video'[N + 1].payload = SubSeq(wire, a, b)
       /\ N + 1 = 1 => wire[a].key /\ \A i \in 1..(a - 1) : ~wire[i].key
  <2> DEFINE V2 == video'
             L2 == lost'
             k == N + 1
  <2>1. V2 \in Seq(Frame) /\ L2 \in SUBSET Int /\ FramesFrom(V2, wire, L2)
    BY <1>4
  <2>2. k \in Ahead(V2, L2) /\ EndOf(V2, k) <= Len(wire)
    BY <1>9, <1>10
  <2> HIDE DEF V2, L2, k
  <2>3. /\ StartOf(V2, k) \in 1..Len(wire) /\ EndOf(V2, k) \in StartOf(V2, k)..Len(wire)
        /\ wire[EndOf(V2, k)].m
        /\ \A i \in StartOf(V2, k)..(EndOf(V2, k) - 1) : ~wire[i].m
        /\ V2[k].payload = SubSeq(wire, StartOf(V2, k), EndOf(V2, k))
        /\ k = 1 => /\ wire[StartOf(V2, k)].key
                    /\ \A i \in 1..(StartOf(V2, k) - 1) : ~wire[i].key
    BY <1>4, <2>1, <2>2, WholeFrame, Zenon
  <2>4. a = StartOf(V2, k) /\ b = EndOf(V2, k)
    BY <1>8, <1>9 DEF V2, k
  <2> QED
    BY <2>3, <2>4, Zenon DEF V2, k
<1>12. Payloads' = Append(Payloads, SubSeq(wire, a, b)) /\ From' = b + 1
  <2> DEFINE V2 == video'
             P2 == Payloads'
             F2 == From'
  <2>1. Shows(P2, F2, N + 1, V2) /\ Shows(Payloads, From, N, video)
    BY <1>1, <1>2, <1>6, <1>7
  <2>2. /\ V2 \in Seq(Frame) /\ Len(V2) = N + 1 /\ \A k \in 1..N : V2[k] = video[k]
        /\ V2[N + 1].payload = SubSeq(wire, a, b) /\ EndOf(V2, N + 1) = b
    BY <1>4, <1>9, <1>11
  <2> HIDE DEF V2, P2, F2
  <2>3. P2 = Append(Payloads, V2[N + 1].payload) /\ F2 = EndOf(V2, N + 1) + 1
    BY <1>3, <1>5, <2>1, <2>2, ShownGrows
  <2> QED
    BY <2>2, <2>3 DEF P2, F2
<1>13. IF From = 0 THEN wire[a].key /\ \A i \in 1..(a - 1) : ~wire[i].key ELSE a = From
  <2>1. CASE N = 0
    <3>1. From = 0
      BY <1>1, <1>7, <2>1 DEF Shows
    <3> QED
      BY <1>11, <2>1, <3>1
  <2>2. CASE N # 0
    <3>1. From = EndOf(video, N) + 1
      BY <1>1, <1>7, <2>2 DEF Shows
    <3>2. N \in 1..N /\ N \in 1..Len(video) /\ (N + 1) - 1 = N /\ N + 1 # 1
      BY <1>5, <2>2
    <3>3. EndOf(video, N) \in Int /\ 1 <= StartOf(video, N) /\ StartOf(video, N) \in Int
          /\ StartOf(video, N) <= EndOf(video, N)
      BY <1>3, <3>2, FramesOrdered
    <3>4. a = EndOf(video, N) + 1
      BY <1>8, <3>2 DEF StartOf
    <3> QED
      BY <3>1, <3>3, <3>4
  <2> QED
    BY <2>1, <2>2
<1>14. b \in 1..Len(wire)
  BY <1>3, <1>11, StreamAssumption
<1>15. Played!Play(a, b)
  BY <1>11, <1>12, <1>13 DEF Played!Play, Played!FrameAt, Played!IsFirstKey
<1> QED
  BY <1>11, <1>14, <1>15 DEF Played!Next

LEMMA FeedStep ==
    ASSUME FeedIInv, [FeedNext]_feedVars
    PROVE  FeedIInv' /\ (Played!Next \/ UNCHANGED <<wire, Payloads, From>>)
<1>1. FeedIInv'
  BY FeedNextIInv
<1>2. CASE video' = video /\ UNCHANGED <<wire, lost>>
  <2>1. Ahead(video', lost') = Ahead(video, lost)
    BY <1>2
  <2> QED
    BY <1>1, <1>2, <2>1, NothingShown
<1>3. ASSUME NEW f \in Frame, video' = Append(video, f), UNCHANGED <<wire, lost>>
      PROVE  Played!Next \/ UNCHANGED <<wire, Payloads, From>>
  <2>1. video \in Seq(Frame) /\ video' \in Seq(Frame)
    BY <1>1 DEF FeedIInv
  <2>2. PICK N : N = Len(video)
    OBVIOUS
  <2>3. N \in Nat /\ Len(video') = N + 1 /\ \A k \in 1..N : video'[k] = video[k]
    BY <1>3, <2>1, <2>2, AppendProperties
  <2>4. \A k \in 1..N : EndOf(video', k) = EndOf(video, k)
    BY <2>3 DEF EndOf
  <2>5. CASE N + 1 \in Ahead(video', lost')
    BY <1>1, <1>3, <2>2, <2>3, <2>4, <2>5, OneMoreShown
  <2>6. CASE N + 1 \notin Ahead(video', lost')
    <3>1. \A k : k \in 1..(N + 1) <=> k \in 1..N \/ k = N + 1
      BY <2>3
    <3>2. Ahead(video', lost') = {k \in 1..(N + 1) : \A l \in lost : EndOf(video', k) < l}
      BY <1>3, <2>3 DEF Ahead
    <3>3. Ahead(video, lost) = {k \in 1..N : \A l \in lost : EndOf(video, k) < l}
      BY <2>2 DEF Ahead
    <3>4. Ahead(video', lost') = Ahead(video, lost)
      BY <2>4, <2>6, <3>1, <3>2, <3>3, Zenon
    <3> QED
      BY <1>1, <1>3, <2>2, <2>3, <3>4, NothingShown
  <2> QED
    BY <2>5, <2>6
<1>4. CASE handle_rtp
  BY <1>2, <1>3, <1>4, ArrivalStep
<1>5. CASE Lose
  <2>1. /\ UNCHANGED <<wire, video>> /\ lost' = lost \cup {next}
        /\ \A k \in 1..Len(video) : EndOf(video, k) < next
    BY <1>5, LossStep
  <2>2. Ahead(video, lost \cup {next}) = Ahead(video, lost)
    BY <2>1 DEF Ahead
  <2>3. Ahead(video', lost') = Ahead(video, lost)
    BY <2>1, <2>2
  <2> QED
    BY <1>1, <2>1, <2>3, NothingShown
<1>6. CASE UNCHANGED feedVars
  BY <1>2, <1>6 DEF feedVars
<1> QED
  BY <1>1, <1>4, <1>5, <1>6 DEF FeedNext

\* Whatever is lost, and wherever in the stream the subscription began: up to the first loss
\* the decoder gets the frames of the stream from the first keyframe on, each whole, in
\* order, none missing, and the loss takes none of them back.
THEOREM FeedImplementsFrameStream == FeedSpec => ImplementsFrameStream
<1>1. FeedInit => Played!Init
  <2> SUFFICES ASSUME FeedInit PROVE Payloads = <<>> /\ From = 0
    BY DEF Played!Init
  <2>1. video = <<>> /\ FeedIInv
    BY FeedInitIInv DEF FeedInit
  <2>2. PICK n : Shows(Payloads, From, n, video)
    BY <2>1, Mapped
  <2>3. n = 0
    BY <2>1, <2>2 DEF Shows
  <2> QED
    BY <2>2, <2>3 DEF Shows
<1>2. FeedIInv /\ [FeedNext]_feedVars => FeedIInv' /\ [Played!Next]_<<wire, Payloads, From>>
  BY FeedStep
<1> QED
  BY FeedInitIInv, <1>1, <1>2, PTL DEF FeedSpec, ImplementsFrameStream, Played!Spec
=============================================================================
