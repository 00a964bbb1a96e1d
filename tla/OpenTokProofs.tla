---------------------------- MODULE OpenTokProofs ----------------------------
(******************************************************************************)
(* What an application that joins a session knows of it, for any streams and  *)
(* any wires.                                                                 *)
(*                                                                            *)
(* That a deleted stream does not come back. The client compares nothing      *)
(* with what it was told before: neither an event nor the snapshot is tested  *)
(* against the streams that have ended. It is the wire that keeps the picture *)
(* right. A stream whose end the client knows or will be told of is over      *)
(* (EndedAreOver), its id is not used again, and so no message after the one  *)
(* that ends it announces it: neither a later one on the wire (NothingAfter)  *)
(* nor one that is still to be taken when its end was (NothingLate). The one  *)
(* exception is a snapshot that waits for its continuation: the ends that are *)
(* taken meanwhile overtake it (Overtaking), and as each end is told once     *)
(* (EndedOnce), those streams stay.                                           *)
(*                                                                            *)
(* That the picture converges, and what the recording server makes of it      *)
(* (JoinIInv): each stream the client believes in, or is about to be told of, *)
(* is there or will be ended by a later message (NothingLeft); once the       *)
(* snapshot is on its way, or taken, each stream of the others is known or    *)
(* announced by a message (NothingMissing). This rests on the order in which  *)
(* the client joins (Ordered), on there being one read and one snapshot       *)
(* (OneRead), and on the client's own streams being created behind the read   *)
(* (OwnLater). AllSubscribed, Named and Counted say what becomes of the       *)
(* streams that were announced.                                               *)
(*                                                                            *)
(* That the picture is a replica of the session, step by step (StreamReplica).*)
(* The wire says of a stream once that it is created and once that it ended   *)
(* (ToldOnce), so each event taken moves the state that the wire starts from  *)
(* to the next one; the snapshot is the state at its place on the wire        *)
(* (SnapshotIsTrue), and no stream is known before its event (KnownBefore).   *)
(* What the client knows, with a snapshot that waits, is then the state that  *)
(* the wire starts from (KnownIsBehind), also when its continuation runs.     *)
(******************************************************************************)
EXTENDS OpenTokSession, SequenceTheorems, FiniteSetTheorems, TLAPS

\* A stream's uri names a stream, and a subscriber's a subscriber.
LEMMA StreamIsStream ==
    ASSUME NEW s PROVE Resource(StreamUri(s)) = "stream"
BY DEF Resource, StreamUri

LEMMA SubscriberIsSubscriber ==
    ASSUME NEW s, NEW b PROVE Resource(SubscriberUri(s, b)) = "subscriber"
BY DEF Resource, SubscriberUri, StreamUri

\* The overriding tests dispatch each message as the last resource its uri names:
\* nothing about a subscriber or a channel is taken for an event of the stream it
\* belongs to, which client.connect would announce.
THEOREM OnlyStreamsAreAnnounced ==
    ASSUME NEW s, NEW b, NEW c
    PROVE  /\ Resource(SessionUri) = "session"
           /\ Resource(ConnectionUri(c)) = "session"
           /\ Resource(StreamUri(s)) = "stream"
           /\ Resource(SubscriberUri(s, b)) = "subscriber"
           /\ Resource(ChannelUri(StreamUri(s), c)) = "channel"
           /\ Resource(ChannelUri(SubscriberUri(s, b), c)) = "channel"
<1>1. Resource(SessionUri) = "session" /\ Resource(ConnectionUri(c)) = "session"
  BY DEF Resource, SessionUri, ConnectionUri
<1>2. Resource(ChannelUri(StreamUri(s), c)) = "channel"
  BY DEF Resource, ChannelUri, StreamUri
<1>3. Resource(ChannelUri(SubscriberUri(s, b), c)) = "channel"
  BY DEF Resource, ChannelUri, SubscriberUri, StreamUri
<1>4. QED
  BY <1>1, <1>2, <1>3, StreamIsStream, SubscriberIsSubscriber

-----------------------------------------------------------------------------
\* What a message tells the application: that s is there, or that it has ended.
Announces(m, s) ==
    \/ Dispatched(m) = <<"stream", "created">> /\ m.uri[1][2] = s
    \/ m.method = "STATUS" /\ m.uri = Read.uri /\ s \in m.content.streams
Ends(m, s) == Dispatched(m) = <<"stream", "deleted">> /\ m.uri[1][2] = s

DownMessage ==
    {Created(s) : s \in Streams} \cup {Deleted(s) : s \in Streams}
    \cup {Offer(p[1], p[2]) : p \in Streams \X Nat}
    \cup {Reply(Create, Empty)} \cup {Reply(Read, [streams |-> S]) : S \in SUBSET Streams}

Over(s) == s \in past \ streams

EndedAreOver ==
    \A s \in Streams : s \in gone \/ (\E i \in 1..Len(down) : Ends(down[i], s)) => Over(s)
NothingAfter ==
    \A s \in Streams : \A i, j \in 1..Len(down) :
        i < j /\ Ends(down[i], s) => ~Announces(down[j], s)
NothingLate == \A s \in Streams \cap gone : \A i \in 1..Len(down) : ~Announces(down[i], s)

WireSafe == EndedAreOver /\ NothingAfter /\ NothingLate

\* The streams the application knows of, or will when the continuation of the read has
\* run, without those whose end overtook the snapshot.
known == (view \cup snapshot) \ overtaken

\* The state is read when the registration was answered, and that is asked for when the
\* socket opens. A snapshot waits between the answer to the read and its continuation;
\* only then does a deletion overtake it.
Overtaking ==
    /\ readyState \in {"none", "CONNECTING"} => create = "none"
    /\ create # "answered" => read = "none"
    /\ read # "replied" => snapshot = {}
    /\ read \in {"none", "pending", "lost"} => overtaken = {}
    /\ overtaken \subseteq gone /\ gone \cap snapshot \subseteq overtaken

WireIInv ==
    /\ down \in Seq(DownMessage)
    /\ streams \subseteq past /\ past \subseteq Streams
    /\ WireSafe
    /\ known \cap gone = {} /\ Overtaking

-----------------------------------------------------------------------------
\* What each message of the server says.
LEMMA CreatedSays ==
    ASSUME NEW s \in Streams
    PROVE  /\ Created(s) \in DownMessage
           /\ \A r : (Announces(Created(s), r) => r = s) /\ ~Ends(Created(s), r)
<1>1. Created(s).uri[1][2] = s /\ Created(s).method = "created"
  BY DEF Created, Message, StreamUri
<1>2. QED
  BY <1>1 DEF DownMessage, Announces, Ends, Dispatched

LEMMA DeletedSays ==
    ASSUME NEW s \in Streams
    PROVE  /\ Deleted(s) \in DownMessage
           /\ \A r : ~Announces(Deleted(s), r) /\ (Ends(Deleted(s), r) => r = s)
<1>1. Deleted(s).uri[1][2] = s /\ Deleted(s).method = "deleted"
  BY DEF Deleted, Message, StreamUri
<1>2. QED
  BY <1>1 DEF DownMessage, Announces, Ends, Dispatched

LEMMA OfferSays ==
    ASSUME NEW s \in Streams, NEW b \in Nat
    PROVE  /\ Offer(s, b) \in DownMessage
           /\ \A r : ~Announces(Offer(s, b), r) /\ ~Ends(Offer(s, b), r)
<1>1. Offer(s, b).method = "offer"
  BY DEF Offer, offer, Message
<1>2. <<s, b>> \in Streams \X Nat /\ <<s, b>>[1] = s /\ <<s, b>>[2] = b
  OBVIOUS
<1>3. Offer(s, b) \in DownMessage
  BY <1>2 DEF DownMessage
<1>4. QED
  BY <1>1, <1>3 DEF Announces, Ends, Dispatched

LEMMA CreateReplySays ==
    /\ Reply(Create, Empty) \in DownMessage
    /\ \A r : ~Announces(Reply(Create, Empty), r) /\ ~Ends(Reply(Create, Empty), r)
<1>1. /\ Reply(Create, Empty).method = "STATUS"
      /\ Reply(Create, Empty).uri = <<<<"connection", self>>>>
  BY DEF Reply, Create, connections_create, ConnectionUri, Message
<1>2. Read.uri = <<>>
  BY DEF Read, sessions_get, SessionUri, Message
<1>3. <<<<"connection", self>>>> # <<>>
  OBVIOUS
<1>4. QED
  BY <1>1, <1>2, <1>3 DEF DownMessage, Announces, Ends, Dispatched

LEMMA ReadReplySays ==
    ASSUME NEW S \in SUBSET Streams
    PROVE  /\ Reply(Read, [streams |-> S]) \in DownMessage
           /\ \A r : /\ Announces(Reply(Read, [streams |-> S]), r) => r \in S
                     /\ ~Ends(Reply(Read, [streams |-> S]), r)
<1>1. /\ Reply(Read, [streams |-> S]).method = "STATUS"
      /\ Reply(Read, [streams |-> S]).content.streams = S
  BY DEF Reply, Message
<1>2. QED
  BY <1>1 DEF DownMessage, Announces, Ends, Dispatched

\* What is taken names a stream there may be.
LEMMA TakenNames ==
    ASSUME NEW m \in DownMessage, NEW method \in {"created", "deleted"},
           Dispatched(m) = <<"stream", method>>
    PROVE  m.uri[1][2] \in Streams
<1>1. m.method = method
  BY DEF Dispatched
<1>2. \/ \E s \in Streams : m = Created(s) \/ m = Deleted(s)
      \/ \E p \in Streams \X Nat : m = Offer(p[1], p[2])
      \/ m = Reply(Create, Empty)
      \/ \E S \in SUBSET Streams : m = Reply(Read, [streams |-> S])
  BY DEF DownMessage
<1>3. m.method \notin {"offer", "STATUS"}
  BY <1>1
<1>4. PICK s \in Streams : m = Created(s) \/ m = Deleted(s)
  BY <1>2, <1>3 DEF Offer, offer, Reply, Message
<1>5. QED
  BY <1>4 DEF Created, Deleted, Message, StreamUri

LEMMA StatusNames ==
    ASSUME NEW m \in DownMessage, m.method = "STATUS", m.uri = Read.uri
    PROVE  m.content.streams \subseteq Streams
<1>1. \/ \E s \in Streams : m = Created(s) \/ m = Deleted(s)
      \/ \E p \in Streams \X Nat : m = Offer(p[1], p[2])
      \/ m = Reply(Create, Empty)
      \/ \E S \in SUBSET Streams : m = Reply(Read, [streams |-> S])
  BY DEF DownMessage
<1>2. m # Reply(Create, Empty)
  <2>1. Reply(Create, Empty).uri = <<<<"connection", self>>>> /\ Read.uri = <<>>
    BY DEF Reply, Create, connections_create, ConnectionUri, Message, Read, sessions_get, SessionUri
  <2>2. <<<<"connection", self>>>> # <<>>
    OBVIOUS
  <2>3. QED
    BY <2>1, <2>2
<1>3. PICK S \in SUBSET Streams : m = Reply(Read, [streams |-> S])
  BY <1>1, <1>2 DEF Created, Deleted, Offer, offer, Message
<1>4. QED
  BY <1>3 DEF Reply, Message

-----------------------------------------------------------------------------
\* The server says something more: only of a stream that is there that it is there, and
\* only of one that is over that it has ended.
LEMMA WireGrows ==
    ASSUME WireIInv, NEW m \in DownMessage, down' = Append(down, m), gone' = gone,
           past \subseteq past', streams' \cap past \subseteq streams,
           \A s \in Streams : (Announces(m, s) => s \in streams') /\ (Ends(m, s) => Over(s)')
    PROVE  down' \in Seq(DownMessage) /\ WireSafe'
<1>1. /\ down \in Seq(DownMessage) /\ Len(down) \in Nat
      /\ down' \in Seq(DownMessage) /\ Len(down') = Len(down) + 1
      /\ down'[Len(down) + 1] = m
      /\ \A i \in 1..Len(down) : down'[i] = down[i]
  BY DEF WireIInv
<1>2. \A s \in Streams : Over(s) => Over(s)'
  BY DEF Over
<1>3. \A i \in 1..Len(down') : i \in 1..Len(down) \/ i = Len(down) + 1
  BY <1>1
<1>4. EndedAreOver'
  <2>1. ASSUME NEW s \in Streams, s \in gone' \/ \E i \in 1..Len(down') : Ends(down'[i], s)
        PROVE  Over(s)'
    BY <1>1, <1>2, <1>3, <2>1 DEF WireIInv, WireSafe, EndedAreOver
  <2>2. QED
    BY <2>1 DEF EndedAreOver
<1>5. \A s \in Streams : Over(s) => ~Announces(m, s)
  BY <1>2 DEF Over
<1>6. NothingAfter'
  <2>1. ASSUME NEW s \in Streams, NEW i \in 1..Len(down'), NEW j \in 1..Len(down'),
               i < j, Ends(down'[i], s)
        PROVE  ~Announces(down'[j], s)
    <3>1. i \in 1..Len(down)
      BY <1>1, <2>1
    <3>2. Ends(down[i], s) /\ Over(s)
      BY <1>1, <2>1, <3>1 DEF WireIInv, WireSafe, EndedAreOver
    <3>3. CASE j \in 1..Len(down)
      BY <1>1, <2>1, <3>1, <3>2, <3>3 DEF WireIInv, WireSafe, NothingAfter
    <3>4. CASE j = Len(down) + 1
      BY <1>1, <1>5, <3>2, <3>4
    <3>5. QED
      BY <1>3, <3>3, <3>4
  <2>2. QED
    BY <2>1 DEF NothingAfter
<1>7. NothingLate'
  BY <1>1, <1>3, <1>5 DEF WireIInv, WireSafe, NothingLate, EndedAreOver
<1>8. QED
  BY <1>1, <1>4, <1>6, <1>7 DEF WireSafe

\* The oldest message is taken, and the application learns what it says.
LEMMA WireShrinks ==
    ASSUME WireIInv, Takes, UNCHANGED server,
           \A s \in Streams : s \in gone' => s \in gone \/ Ends(Head(down), s)
    PROVE  /\ down' \in Seq(DownMessage) /\ WireSafe'
           /\ Head(down) \in DownMessage
           /\ \A s \in Streams : Announces(Head(down), s) => s \notin gone
<1>1. /\ down \in Seq(DownMessage) /\ down # <<>> /\ down' = Tail(down)
      /\ streams' = streams /\ past' = past
  BY DEF WireIInv, Takes, server
<1>2. /\ Len(down) \in Nat /\ 1 \in 1..Len(down) /\ Head(down) = down[1]
      /\ Head(down) \in DownMessage
      /\ down' \in Seq(DownMessage) /\ Len(down') = Len(down) - 1
      /\ \A i \in 1..Len(down') : i + 1 \in 1..Len(down) /\ down'[i] = down[i + 1]
  BY <1>1
<1>3. EndedAreOver'
  BY <1>1, <1>2 DEF WireIInv, WireSafe, EndedAreOver, Over
<1>4. NothingAfter'
  <2>1. ASSUME NEW s \in Streams, NEW i \in 1..Len(down'), NEW j \in 1..Len(down'),
               i < j, Ends(down'[i], s)
        PROVE  ~Announces(down'[j], s)
    <3>1. i + 1 < j + 1 /\ Ends(down[i + 1], s)
      BY <1>2, <2>1
    <3>2. QED
      BY <1>2, <2>1, <3>1 DEF WireIInv, WireSafe, NothingAfter
  <2>2. QED
    BY <2>1 DEF NothingAfter
<1>5. NothingLate'
  <2>1. ASSUME NEW s \in Streams, s \in gone', NEW i \in 1..Len(down')
        PROVE  ~Announces(down'[i], s)
    <3>1. i + 1 \in 1..Len(down) /\ down'[i] = down[i + 1] /\ 1 < i + 1
      BY <1>2
    <3>2. CASE s \in gone
      BY <3>1, <3>2 DEF WireIInv, WireSafe, NothingLate
    <3>3. CASE Ends(down[1], s)
      BY <1>2, <3>1, <3>3 DEF WireIInv, WireSafe, NothingAfter
    <3>4. QED
      BY <1>2, <2>1, <3>2, <3>3
  <2>2. QED
    BY <2>1 DEF NothingLate
<1>6. \A s \in Streams : Announces(Head(down), s) => s \notin gone
  BY <1>2 DEF WireIInv, WireSafe, NothingLate
<1>7. QED
  BY <1>2, <1>3, <1>4, <1>5, <1>6 DEF WireSafe

\* What is on the wire is lost.
LEMMA WireLost ==
    ASSUME WireIInv, down' = <<>>, UNCHANGED <<known, gone, server>>, Overtaking'
    PROVE  WireIInv'
<1>1. Len(down') = 0 /\ down' \in Seq(DownMessage) /\ 1..0 = {}
  OBVIOUS
<1>2. EndedAreOver' /\ NothingAfter' /\ NothingLate'
  BY <1>1 DEF WireIInv, WireSafe, EndedAreOver, NothingAfter, NothingLate, Over, server
<1>3. QED
  BY <1>1, <1>2 DEF WireIInv, WireSafe, known, server

\* Nothing of the session is touched.
LEMMA WireKept ==
    ASSUME WireIInv, UNCHANGED <<gone, down, streams, past>>, known' \subseteq known, Overtaking'
    PROVE  WireIInv'
  BY DEF WireIInv, WireSafe, EndedAreOver, NothingAfter, NothingLate, Over

-----------------------------------------------------------------------------
\* What a step makes of what is known.
LEMMA AnnouncesSet ==
    ASSUME NEW q, NEW S, q \in Lists(S), Announce(q)
    PROVE  view' = view \cup S
BY DEF Lists, Announce

LEMMA KnownSteps ==
    ASSUME WireIInv, [Next]_vars
    PROVE  /\ Overtaking'
           /\ OnStreamCreated => /\ gone' = gone /\ Stream \in Streams
                                 /\ known' = known \cup ({Stream} \ Own)
           /\ OnStreamDeleted => /\ gone' = gone \cup {Stream} /\ Stream \in Streams
                                 /\ known' = known \ {Stream}
           /\ OnReadReply /\ read = "pending" => /\ gone' = gone
                                                 /\ known' = known \cup Head(down).content.streams
           /\ \/ OnStreamCreated \/ OnStreamDeleted \/ (OnReadReply /\ read = "pending")
              \/ UNCHANGED <<known, gone>>
<1>0. Overtaking /\ down \in Seq(DownMessage) /\ known \cap gone = {}
  BY DEF WireIInv
<1>1. ASSUME OnStreamCreated
      PROVE  Overtaking' /\ gone' = gone /\ Stream \in Streams /\ known' = known \cup ({Stream} \ Own)
  <2>1. /\ Takes /\ Dispatched(Head(down)) = <<"stream", "created">>
        /\ UNCHANGED <<gone, create, readyState, read, snapshot, overtaken, server>>
    BY <1>1 DEF OnStreamCreated, TakesEvent
  <2>2. Head(down) \in DownMessage /\ Head(down) = down[1] /\ 1 \in 1..Len(down)
    BY <1>0, <2>1 DEF Takes
  <2>3. Stream \in Streams /\ Announces(Head(down), Stream)
    BY <2>1, <2>2, TakenNames DEF Announces, Stream
  <2>4. Stream \notin gone
    BY <2>2, <2>3 DEF WireIInv, WireSafe, NothingLate
  <2>5. view' = view \cup ({Stream} \ Own)
    <3>1. {<<Stream>>[i] : i \in DOMAIN <<Stream>>} = {Stream}
      <4>1. DOMAIN <<Stream>> = {1} /\ <<Stream>>[1] = Stream
        OBVIOUS
      <4>2. QED
        BY <4>1
    <3>2. QED
      BY <1>1, <3>1 DEF OnStreamCreated, Announce, Foreign
  <2>6. Stream \notin overtaken
    BY <1>0, <2>4 DEF Overtaking
  <2>7. known' = known \cup ({Stream} \ Own)
    BY <2>1, <2>5, <2>6 DEF known
  <2>8. Overtaking'
    BY <1>0, <2>1 DEF Overtaking
  <2>9. QED
    BY <2>1, <2>3, <2>7, <2>8
<1>2. ASSUME OnStreamDeleted
      PROVE  Overtaking' /\ gone' = gone \cup {Stream} /\ Stream \in Streams /\ known' = known \ {Stream}
  <2>1. /\ Takes /\ Dispatched(Head(down)) = <<"stream", "deleted">>
        /\ UNCHANGED <<create, readyState, read, snapshot, server>>
        /\ view' = view \ {Stream} /\ gone' = gone \cup {Stream}
        /\ overtaken' = overtaken \cup ({Stream} \cap snapshot)
    BY <1>2 DEF OnStreamDeleted, TakesEvent, Kept
  <2>2. Head(down) \in DownMessage
    BY <1>0, <2>1 DEF Takes
  <2>3. Stream \in Streams
    BY <2>1, <2>2, TakenNames DEF Stream
  <2>4. known' = known \ {Stream}
    BY <2>1 DEF known
  <2>5. Overtaking'
    BY <1>0, <2>1 DEF Overtaking
  <2>6. QED
    BY <2>1, <2>3, <2>4, <2>5
<1>3. ASSUME OnReadReply
      PROVE  /\ Overtaking' /\ gone' = gone
             /\ known' = IF read = "pending" THEN known \cup Head(down).content.streams ELSE known
  <2>1. /\ Takes /\ Head(down).method = "STATUS" /\ Head(down).uri = Read.uri
        /\ UNCHANGED <<view, gone, create, readyState, overtaken, server>>
        /\ IF read # "pending" THEN UNCHANGED <<read, snapshot>>
           ELSE read' = "replied" /\ snapshot' = Head(down).content.streams
    BY <1>3 DEF OnReadReply, TakesReply, Ignored
  <2>3. CASE read # "pending"
    BY <1>0, <2>1, <2>3 DEF known, Overtaking
  <2>4. CASE read = "pending"
    <3>1. overtaken = {} /\ snapshot = {}
      BY <1>0, <2>4 DEF Overtaking
    <3>2. known' = known \cup Head(down).content.streams
      BY <2>1, <2>4, <3>1 DEF known
    <3>3. Head(down) \in DownMessage /\ Head(down) = down[1] /\ 1 \in 1..Len(down)
      BY <1>0, <2>1 DEF Takes
    <3>4. Head(down).content.streams \subseteq Streams
      BY <2>1, <3>3, StatusNames
    <3>5. \A s \in Head(down).content.streams : s \notin gone
      BY <2>1, <3>3, <3>4 DEF WireIInv, WireSafe, NothingLate, Announces
    <3>6. Overtaking'
      BY <1>0, <2>1, <2>4, <3>1, <3>5 DEF Overtaking
    <3>7. QED
      BY <2>1, <2>4, <3>2, <3>6
  <2>5. QED
    BY <2>3, <2>4
<1>4. ASSUME AnnounceSnapshot PROVE Overtaking' /\ UNCHANGED <<known, gone>>
  <2>1. /\ read = "replied" /\ read' = "answered" /\ snapshot' = {}
        /\ UNCHANGED <<gone, create, readyState, overtaken, down>>
    BY <1>4 DEF AnnounceSnapshot
  <2>2. view' = view \cup snapshot
    BY <1>4, AnnouncesSet DEF AnnounceSnapshot
  <2>3. known' = known
    BY <2>1, <2>2 DEF known
  <2>4. Overtaking'
    BY <1>0, <2>1 DEF Overtaking
  <2>5. QED
    BY <2>1, <2>3, <2>4
<1>5. ASSUME \/ ReadSession \/ OnCreateReply \/ connect \/ disconnect \/ AnvilAnswers \/ Open \/ Closed
             \/ CreateTimeout \/ ReadTimeout \/ SocketError
      PROVE  Overtaking' /\ UNCHANGED <<known, gone>>
  <2>1. UNCHANGED <<view, gone, snapshot, overtaken>>
    BY <1>5 DEF ReadSession, OnCreateReply, connect, disconnect, AnvilAnswers, Open, Closed, CreateTimeout,
                ReadTimeout, SocketError, joining, loop, Ignored
  <2>2. Overtaking'
    BY <1>0, <1>5, <2>1
       DEF ReadSession, OnCreateReply, connect, disconnect, AnvilAnswers, Open, Closed, CreateTimeout,
           ReadTimeout, SocketError, joining, loop, Ignored, Overtaking
  <2>3. QED
    BY <2>1, <2>2 DEF known
<1>6. ASSUME UNCHANGED <<view, gone, snapshot, overtaken, read, create, readyState>>
      PROVE  Overtaking' /\ UNCHANGED <<known, gone>>
  BY <1>0, <1>6 DEF known, Overtaking
<1>7. ASSUME \/ OnOffer \/ ServerTakes \/ UNCHANGED vars
             \/ (\E b \in DOMAIN subs : answer(b)) \/ (\E s \in Remote : RemotePublishes(s))
             \/ (\E o \in Own : publish(o)) \/ (\E s \in Streams : StreamEnds(s))
      PROVE  Overtaking' /\ UNCHANGED <<known, gone>>
  BY <1>6, <1>7 DEF OnOffer, ServerTakes, answer, RemotePublishes, publish, StreamEnds, vars, joining, loop
<1>8. QED
  BY <1>1, <1>2, <1>3, <1>4, <1>5, <1>7 DEF Next, OnMessage, Continuation, OtherEvent

-----------------------------------------------------------------------------
LEMMA TakingIsSafe ==
    ASSUME WireIInv, [Next]_vars, OnMessage
    PROVE  WireIInv'
<1>1. Takes /\ UNCHANGED server
  BY DEF OnMessage, OnCreateReply, OnStreamCreated, OnStreamDeleted, OnReadReply, OnOffer, TakesReply, TakesEvent
<1>2. streams' = streams /\ past' = past
  BY <1>1 DEF server
<1>3. \/ gone' = gone
      \/ gone' = gone \cup {Stream} /\ \A s : s = Stream => Ends(Head(down), s)
  BY DEF OnMessage, OnCreateReply, OnStreamCreated, OnStreamDeleted, OnReadReply, OnOffer,
         TakesEvent, Stream, Ends
<1>4. /\ down' \in Seq(DownMessage) /\ WireSafe' /\ Head(down) \in DownMessage
      /\ \A s \in Streams : Announces(Head(down), s) => s \notin gone
  BY <1>1, <1>3, WireShrinks
<1>5. known' \cap gone' = {}
  <2>0. known \cap gone = {}
    BY DEF WireIInv
  <2>1. CASE OnStreamCreated
    <3>1. Announces(Head(down), Stream)
      BY <2>1 DEF OnStreamCreated, TakesEvent, Announces, Stream
    <3>2. QED
      BY <1>4, <2>0, <2>1, <3>1, KnownSteps
  <2>2. CASE OnStreamDeleted
    BY <2>0, <2>2, KnownSteps
  <2>3. CASE OnReadReply /\ read = "pending"
    <3>1. Head(down).method = "STATUS" /\ Head(down).uri = Read.uri
      BY <2>3 DEF OnReadReply, TakesReply
    <3>2. Head(down).content.streams \subseteq Streams
      BY <1>4, <3>1, StatusNames
    <3>3. \A s \in Head(down).content.streams : s \notin gone
      BY <1>4, <3>1, <3>2 DEF Announces
    <3>4. QED
      BY <2>0, <2>3, <3>3, KnownSteps
  <2>4. CASE UNCHANGED <<known, gone>>
    BY <2>0, <2>4
  <2>5. QED
    BY <2>1, <2>2, <2>3, <2>4, KnownSteps
<1>6. QED
  BY <1>2, <1>4, <1>5, KnownSteps DEF WireIInv

\* A stream that appears has not been there before.
LEMMA AppearingIsSafe ==
    ASSUME WireIInv, NEW s \in Streams, s \notin past, Appears(s), UNCHANGED <<known, gone>>, Overtaking'
    PROVE  WireIInv'
<1>1. /\ streams' = streams \cup {s} /\ past' = past \cup {s}
      /\ down' = down \/ down' = Append(down, Created(s))
  BY DEF Appears, Notify
<1>2. (known \cap gone = {})' /\ streams' \subseteq past' /\ past' \subseteq Streams
  BY <1>1 DEF WireIInv
<1>3. CASE down' = down
  <2>1. \A r \in Streams : Over(r) => Over(r)'
    BY <1>1 DEF Over
  <2>2. QED
    BY <1>2, <1>3, <2>1 DEF WireIInv, WireSafe, EndedAreOver, NothingAfter, NothingLate
<1>4. CASE down' = Append(down, Created(s))
  <2>1. streams' \cap past \subseteq streams /\ past \subseteq past'
    BY <1>1
  <2>2. \A r \in Streams : (Announces(Created(s), r) => r \in streams')
                            /\ (Ends(Created(s), r) => Over(r)')
    BY <1>1, CreatedSays
  <2>3. down' \in Seq(DownMessage) /\ WireSafe'
    BY <1>4, <2>1, <2>2, CreatedSays, WireGrows
  <2>4. QED
    BY <1>2, <2>3 DEF WireIInv
<1>5. QED
  BY <1>1, <1>3, <1>4

LEMMA EndingIsSafe ==
    ASSUME WireIInv, NEW s \in Streams, StreamEnds(s), Overtaking'
    PROVE  WireIInv'
<1>1. /\ streams' = streams \ {s} /\ past' = past /\ s \in streams
      /\ down' = down \/ down' = Append(down, Deleted(s))
      /\ UNCHANGED <<known, gone>>
  BY DEF StreamEnds, Notify, joining, loop, known
<1>2. (known \cap gone = {})' /\ streams' \subseteq past' /\ past' \subseteq Streams
  BY <1>1 DEF WireIInv
<1>3. CASE down' = down
  <2>1. \A r \in Streams : Over(r) => Over(r)'
    BY <1>1 DEF Over
  <2>2. QED
    BY <1>1, <1>2, <1>3, <2>1 DEF WireIInv, WireSafe, EndedAreOver, NothingAfter, NothingLate
<1>4. CASE down' = Append(down, Deleted(s))
  <2>1. streams' \cap past \subseteq streams /\ past \subseteq past'
    BY <1>1
  <2>2. \A r \in Streams : (Announces(Deleted(s), r) => r \in streams')
                            /\ (Ends(Deleted(s), r) => Over(r)')
    BY <1>1, DeletedSays DEF WireIInv, Over
  <2>3. down' \in Seq(DownMessage) /\ WireSafe'
    BY <1>1, <1>4, <2>1, <2>2, DeletedSays, WireGrows
  <2>4. QED
    BY <1>2, <2>3 DEF WireIInv
<1>5. QED
  BY <1>1, <1>3, <1>4

\* An answer of the server, or an offer.
LEMMA AnsweringIsSafe ==
    ASSUME WireIInv, NEW m \in DownMessage, down' = Append(down, m),
           UNCHANGED <<known, gone, streams, past>>, Overtaking',
           \A s \in Streams : (Announces(m, s) => s \in streams) /\ ~Ends(m, s)
    PROVE  WireIInv'
<1>1. down' \in Seq(DownMessage) /\ WireSafe'
  BY WireGrows DEF WireIInv
<1>2. QED
  BY <1>1 DEF WireIInv

LEMMA ServingIsSafe ==
    ASSUME WireIInv, ServerTakes, subs \in Seq(Streams), Overtaking'
    PROVE  WireIInv'
<1>0. UNCHANGED <<known, gone>>
  BY DEF ServerTakes, joining, loop, known
<1>1. CASE UNCHANGED <<down, streams, past>>
  BY <1>0, <1>1, WireKept
<1>2. CASE down' = Append(down, Reply(Create, Empty)) /\ UNCHANGED server
  BY <1>0, <1>2, CreateReplySays, AnsweringIsSafe DEF server
<1>3. CASE down' = Append(down, Reply(Read, [streams |-> streams])) /\ UNCHANGED server
  <2>1. streams \in SUBSET Streams
    BY DEF WireIInv
  <2>2. QED
    BY <1>0, <1>3, <2>1, ReadReplySays, AnsweringIsSafe DEF server
<1>4. ASSUME NEW s \in Streams, s \notin past, Appears(s) PROVE WireIInv'
  BY <1>0, <1>4, AppearingIsSafe
<1>5. ASSUME NEW s \in Streams, NEW b \in DOMAIN subs,
             down' = Append(down, Offer(s, b)), UNCHANGED <<streams, past>>
      PROVE  WireIInv'
  <2>1. b \in Nat
    BY <1>5
  <2>2. QED
    BY <1>0, <1>5, <2>1, OfferSays, AnsweringIsSafe
<1>6. QED
  BY <1>1, <1>2, <1>3, <1>4, <1>5 DEF ServerTakes, server

-----------------------------------------------------------------------------
SessionIInv == TypeOK /\ WireIInv

\* The streams of a snapshot can be listed.
LEMMA ListsAreSequences ==
    ASSUME NEW S \in SUBSET Streams, NEW q \in Lists(S)
    PROVE  q \in Seq(Streams)
<1>1. IsFiniteSet(S)
  BY StreamAssumption, FS_Union, FS_Subset DEF Streams
<1>2. Cardinality(S) \in Nat
  BY <1>1, FS_CardinalityType
<1>3. q \in [1..Cardinality(S) -> Streams]
  BY DEF Lists
<1>4. QED
  BY <1>2, <1>3

LEMMA AnnouncingTyped ==
    ASSUME SubscriptionsTypeOK, NEW q \in Seq(Streams), Announce(q), readyState' = readyState,
           view \subseteq Streams
    PROVE  /\ SubscriptionsTypeOK' /\ view' \subseteq Streams
           /\ DOMAIN subs \subseteq DOMAIN subs'
<1>1. /\ subs \in Seq(Streams) /\ subs' = subs \o q
      /\ streamId' = Extended(q) /\ UNCHANGED <<preparing, published>>
  BY DEF SubscriptionsTypeOK, Announce, Subscribe
<1>2. /\ subs' \in Seq(Streams)
      /\ DOMAIN subs = 1..Len(subs) /\ DOMAIN subs' = 1..Len(subs')
      /\ Len(subs') = Len(subs) + Len(q) /\ Len(subs) \in Nat /\ Len(q) \in Nat
  BY <1>1
<1>3. DOMAIN subs \subseteq DOMAIN subs'
  BY <1>2
<1>4. Extended(q) \in Streams \cup {NoStream}
  <2>1. CASE q = <<>>
    BY <2>1 DEF Extended, SubscriptionsTypeOK
  <2>2. CASE q # <<>>
    <3>1. Len(q) \in 1..Len(q)
      BY <2>2
    <3>2. QED
      BY <2>2, <3>1 DEF Extended
  <2>3. QED
    BY <2>1, <2>2
<1>5. {q[i] : i \in DOMAIN q} \subseteq Streams
  OBVIOUS
<1>6. QED
  BY <1>1, <1>2, <1>3, <1>4, <1>5 DEF SubscriptionsTypeOK, Announce

\* What is of no interest to the wires.
LEMMA JoiningTyped ==
    ASSUME TypeOK, WireIInv, UNCHANGED <<view, loop, subscriptions, server>>,
           alive' \in BOOLEAN, promise' \in {"none", "pending", "resolved", "rejected"},
           create' \in {"none", "pending", "replied", "answered", "timeout"},
           read' \in {"none", "pending", "replied", "answered", "lost"}, gone' \subseteq Streams,
           readyState' \in {"none", "CONNECTING", "OPEN", "CLOSING", "CLOSED"}
    PROVE  TypeOK'
  BY DEF TypeOK, SubscriptionsTypeOK, subscriptions, server, loop

LEMMA AnnouncedTyped ==
    ASSUME TypeOK, NEW q \in Seq(Streams), Announce(q),
           UNCHANGED <<alive, promise, readyState, create, gone, overtaken, server>>,
           read' \in {"none", "pending", "replied", "answered", "lost"},
           chunk' \in Nat, snapshot' \subseteq Streams
    PROVE  TypeOK'
<1>1. SubscriptionsTypeOK' /\ view' \subseteq Streams /\ DOMAIN subs \subseteq DOMAIN subs'
  BY AnnouncingTyped DEF TypeOK
<1>2. QED
  BY <1>1 DEF TypeOK, server

\* The messages that are left of a chunk.
LEMMA ChunkIsCounted ==
    ASSUME TypeOK, WireIInv, Takes, ChunkGoesOn \/ ChunkBegins
    PROVE  chunk' \in Nat
<1>1. down \in Seq(DownMessage) /\ down # <<>> /\ down' = Tail(down) /\ chunk \in Nat
  BY DEF TypeOK, WireIInv, Takes
<1>2. Len(down') \in Nat
  BY <1>1
<1>3. CASE ChunkGoesOn
  BY <1>1, <1>3 DEF ChunkGoesOn, Takes
<1>4. CASE ChunkBegins
  BY <1>2, <1>4 DEF ChunkBegins
<1>5. QED
  BY <1>3, <1>4

LEMMA TypesStay ==
    ASSUME SessionIInv, [Next]_vars
    PROVE  TypeOK'
<1>0. TypeOK /\ WireIInv /\ down \in Seq(DownMessage)
  BY DEF SessionIInv, WireIInv
<1>1. CASE UNCHANGED vars
  BY <1>0, <1>1 DEF vars, joining, loop, subscriptions, server, TypeOK, SubscriptionsTypeOK
<1>2. CASE connect \/ disconnect \/ AnvilAnswers \/ Open \/ Closed \/ SocketError
           \/ ReadSession \/ CreateTimeout \/ ReadTimeout
  <2>1. UNCHANGED <<view, gone, loop, subscriptions, server>>
    BY <1>2 DEF connect, disconnect, AnvilAnswers, Open, Closed, SocketError, ReadSession,
                CreateTimeout, ReadTimeout, joining
  <2>2. /\ alive' \in BOOLEAN /\ promise' \in {"none", "pending", "resolved", "rejected"}
        /\ create' \in {"none", "pending", "replied", "answered", "timeout"}
        /\ read' \in {"none", "pending", "replied", "answered", "lost"}
        /\ readyState' \in {"none", "CONNECTING", "OPEN", "CLOSING", "CLOSED"}
    BY <1>0, <1>2
       DEF connect, disconnect, AnvilAnswers, Open, Closed, SocketError, ReadSession,
           CreateTimeout, ReadTimeout, joining, AfterClose, TypeOK, SubscriptionsTypeOK
  <2>3. QED
    BY <1>0, <2>1, <2>2, JoiningTyped DEF TypeOK
<1>3. CASE OnStreamCreated
  <2>1. Takes /\ Dispatched(Head(down)) = <<"stream", "created">>
        /\ UNCHANGED <<alive, promise, readyState, create, read, gone, snapshot, overtaken, server>>
    BY <1>3 DEF OnStreamCreated, TakesEvent
  <2>2. Stream \in Streams /\ chunk' \in Nat
    <3>1. Head(down) \in DownMessage
      BY <1>0, <2>1 DEF Takes
    <3>2. chunk' \in Nat
      BY <1>0, <1>3, <2>1, ChunkIsCounted DEF OnStreamCreated
    <3>3. QED
      BY <2>1, <3>1, <3>2, TakenNames DEF Stream
  <2>3. CASE Foreign(Stream)
    <3>1. Announce(<<Stream>>) /\ <<Stream>> \in Seq(Streams)
      BY <1>3, <2>2, <2>3 DEF OnStreamCreated
    <3>2. read \in {"none", "pending", "replied", "answered", "lost"} /\ snapshot' \subseteq Streams
      BY <1>0, <2>1 DEF TypeOK
    <3>3. QED
      BY <1>0, <2>1, <2>2, <3>1, <3>2, AnnouncedTyped
  <2>4. CASE ~Foreign(Stream)
    <3>1. UNCHANGED <<view, subscriptions>>
      BY <1>3, <2>4 DEF OnStreamCreated
    <3>2. QED
      BY <1>0, <2>1, <2>2, <3>1 DEF TypeOK, SubscriptionsTypeOK, subscriptions, server
  <2>5. QED
    BY <2>3, <2>4
<1>4. CASE OnStreamDeleted
  <2>1. Takes /\ Dispatched(Head(down)) = <<"stream", "deleted">>
        /\ UNCHANGED <<alive, promise, readyState, create, read, snapshot, subscriptions, server>>
        /\ view' = view \ {Stream} /\ gone' = gone \cup {Stream}
        /\ overtaken' = overtaken \cup ({Stream} \cap snapshot)
    BY <1>4 DEF OnStreamDeleted, TakesEvent, Kept
  <2>2. Stream \in Streams
    <3>1. Head(down) \in DownMessage
      BY <1>0, <2>1 DEF Takes
    <3>2. QED
      BY <2>1, <3>1, TakenNames DEF Stream
  <2>3. chunk' \in Nat
    BY <1>0, <1>4, <2>1, ChunkIsCounted DEF OnStreamDeleted
  <2>4. QED
    BY <1>0, <2>1, <2>2, <2>3 DEF TypeOK, SubscriptionsTypeOK, subscriptions, server
<1>5. CASE OnReadReply \/ OnCreateReply
  <2>1. /\ Takes /\ UNCHANGED <<alive, promise, readyState, view, gone, overtaken, subscriptions, server>>
        /\ ChunkGoesOn \/ ChunkBegins
        /\ create' = create \/ create' = "replied"
        /\ read' = read \/ read' = "replied"
        /\ snapshot' = snapshot \/ (OnReadReply /\ snapshot' = Head(down).content.streams)
    BY <1>5 DEF OnReadReply, OnCreateReply, TakesReply, Ignored
  <2>2. chunk' \in Nat
    BY <1>0, <2>1, ChunkIsCounted
  <2>3. snapshot' \subseteq Streams
    <3>1. Head(down) \in DownMessage
      BY <1>0, <2>1 DEF Takes
    <3>2. OnReadReply => Head(down).content.streams \subseteq Streams
      BY <3>1, StatusNames DEF OnReadReply, TakesReply
    <3>3. QED
      BY <1>0, <2>1, <3>2 DEF TypeOK
  <2>4. QED
    BY <1>0, <2>1, <2>2, <2>3 DEF TypeOK, SubscriptionsTypeOK, subscriptions, server
<1>6. CASE AnnounceSnapshot
  <2>1. UNCHANGED <<alive, promise, readyState, create, gone, overtaken, chunk, server>>
        /\ read' = "answered" /\ snapshot' = {}
    BY <1>6 DEF AnnounceSnapshot
  <2>2. PICK q \in Lists(snapshot) : Announce(q)
    BY <1>6 DEF AnnounceSnapshot
  <2>3. q \in Seq(Streams) /\ chunk' \in Nat
    BY <1>0, <2>1, <2>2, ListsAreSequences DEF TypeOK
  <2>4. QED
    BY <1>0, <2>1, <2>2, <2>3, AnnouncedTyped
<1>7. CASE OnOffer
  <2>1. chunk' \in Nat
    BY <1>0, <1>7, ChunkIsCounted DEF OnOffer, TakesEvent
  <2>2. QED
    BY <1>0, <1>7, <2>1 DEF OnOffer, PrepareAnswer, server, TypeOK, SubscriptionsTypeOK
<1>8. ASSUME NEW b \in DOMAIN subs, answer(b) PROVE TypeOK'
  BY <1>0, <1>8 DEF answer, Answer, joining, loop, server, TypeOK, SubscriptionsTypeOK
<1>9. ASSUME NEW o \in Own, publish(o) PROVE TypeOK'
  BY <1>0, <1>9 DEF publish, Publish, joining, loop, server, TypeOK, SubscriptionsTypeOK
<1>10. CASE ServerTakes
  <2>1. UNCHANGED <<joining, readyState, subscriptions>>
    BY <1>10 DEF ServerTakes
  <2>2. /\ subscribed' = subscribed \/ subscribed' = TRUE
        /\ \/ UNCHANGED <<streams, past, window>>
           \/ \E s \in Streams : Appears(s)
        /\ \/ watched' = watched
           \/ \E s \in Streams, b \in DOMAIN subs : watched' = watched \cup {<<s, b>>}
        /\ \/ answered' = answered
           \/ \E s \in Streams, b \in DOMAIN subs : answered' = answered \cup {<<s, b>>}
    <3>1. CASE UNCHANGED server
      BY <3>1 DEF server
    <3>2. CASE subscribed' = TRUE /\ UNCHANGED <<streams, past, window, watched, answered>>
      BY <3>2
    <3>3. ASSUME NEW s \in Streams,
                 UNCHANGED <<streams, past, window>> \/ Appears(s),
                 UNCHANGED <<subscribed, watched, answered>>
          PROVE  <2>2!:
      BY <3>3
    <3>4. ASSUME NEW s \in Streams, NEW b \in DOMAIN subs,
                 watched' = watched \/ watched' = watched \cup {<<s, b>>},
                 answered' = answered \/ answered' = answered \cup {<<s, b>>},
                 UNCHANGED <<subscribed, streams, past, window>>
          PROVE  <2>2!:
      BY <3>4
    <3>5. QED
      BY <1>10, <3>1, <3>2, <3>3, <3>4 DEF ServerTakes
  <2>3. /\ subscribed' \in BOOLEAN
        /\ streams' \subseteq past' /\ past' \subseteq Streams /\ window' \subseteq past'
    BY <1>0, <2>2 DEF Appears, TypeOK
  <2>4. watched' \subseteq Streams \X DOMAIN subs /\ answered' \subseteq Streams \X DOMAIN subs
    BY <1>0, <2>2 DEF TypeOK
  <2>5. QED
    BY <1>0, <2>1, <2>3, <2>4 DEF joining, loop, subscriptions, TypeOK, SubscriptionsTypeOK
<1>11. ASSUME NEW s \in Streams, (s \in Remote /\ RemotePublishes(s)) \/ StreamEnds(s)
       PROVE  TypeOK'
  <2>1. /\ UNCHANGED <<joining, readyState, subscriptions, subscribed, watched, answered>>
        /\ streams' \subseteq past' /\ past' \subseteq Streams /\ window' \subseteq past'
    BY <1>0, <1>11 DEF RemotePublishes, StreamEnds, Appears, TypeOK
  <2>2. QED
    BY <1>0, <2>1 DEF joining, loop, subscriptions, TypeOK, SubscriptionsTypeOK
<1>12. QED
  BY <1>1, <1>2, <1>3, <1>4, <1>5, <1>6, <1>7, <1>8, <1>9, <1>10, <1>11
     DEF Next, OnMessage, Continuation, OtherEvent, Streams

LEMMA WireStaysSafe ==
    ASSUME SessionIInv, [Next]_vars
    PROVE  WireIInv'
<1>0. WireIInv /\ subs \in Seq(Streams) /\ Overtaking'
  BY KnownSteps DEF SessionIInv, TypeOK, SubscriptionsTypeOK
<1>1. CASE UNCHANGED <<joining, down, server>>
  BY <1>0, <1>1, WireKept DEF joining, loop, known, server
<1>2. CASE connect \/ disconnect \/ AnvilAnswers \/ Open \/ CreateTimeout \/ ReadTimeout \/ ReadSession
  BY <1>0, <1>2, WireKept
     DEF connect, disconnect, AnvilAnswers, Open, CreateTimeout, ReadTimeout, ReadSession, joining, loop,
         known, server
<1>3. CASE Closed \/ SocketError
  BY <1>0, <1>3, WireLost DEF Closed, SocketError, loop, known
<1>4. CASE OnMessage
  BY <1>0, <1>4, TakingIsSafe
<1>5. CASE AnnounceSnapshot
  <2>1. view' = view \cup snapshot
    BY <1>5, AnnouncesSet DEF AnnounceSnapshot
  <2>2. known' = known
    BY <1>5, <2>1 DEF AnnounceSnapshot, known
  <2>3. QED
    BY <1>0, <1>5, <2>2, WireKept DEF AnnounceSnapshot, server
<1>6. CASE ServerTakes
  BY <1>0, <1>6, ServingIsSafe
<1>7. CASE (\E b \in DOMAIN subs : answer(b)) \/ (\E o \in Own : publish(o)) \/ UNCHANGED vars
  BY <1>1, <1>7 DEF answer, publish, vars
<1>8. ASSUME NEW s \in Remote, RemotePublishes(s) PROVE WireIInv'
  <2>1. UNCHANGED <<known, gone>>
    BY <1>8 DEF RemotePublishes, joining, loop, known
  <2>2. QED
    BY <1>0, <1>8, <2>1, AppearingIsSafe DEF RemotePublishes, Streams
<1>9. ASSUME NEW s \in Streams, StreamEnds(s) PROVE WireIInv'
  BY <1>0, <1>9, EndingIsSafe
<1>10. QED
  BY <1>1, <1>2, <1>3, <1>4, <1>5, <1>6, <1>7, <1>8, <1>9 DEF Next, Continuation, OtherEvent

LEMMA InitIsSafe == Init => SessionIInv
<1>1. ASSUME Init PROVE TypeOK
  <2>1. subs = <<>> /\ <<>> \in Seq(Streams) /\ {} \subseteq DOMAIN subs
    BY <1>1 DEF Init, SubscriptionsInit
  <2>2. QED
    BY <1>1, <2>1 DEF Init, SubscriptionsInit, TypeOK, SubscriptionsTypeOK
<1>2. ASSUME Init PROVE WireIInv
  <2>1. down = <<>> /\ Len(<<>>) = 0 /\ <<>> \in Seq(DownMessage) /\ 1..0 = {}
    BY <1>2 DEF Init
  <2>2. EndedAreOver /\ NothingAfter /\ NothingLate
    BY <1>2, <2>1 DEF Init, EndedAreOver, NothingAfter, NothingLate
  <2>3. QED
    BY <1>2, <2>1, <2>2 DEF Init, WireIInv, WireSafe, known, Overtaking
<1>3. QED
  BY <1>1, <1>2 DEF SessionIInv

LEMMA AlwaysSafe == Spec => []SessionIInv
<1>1. SessionIInv /\ [Next]_vars => SessionIInv'
  BY TypesStay, WireStaysSafe DEF SessionIInv
<1>2. QED
  BY <1>1, InitIsSafe, PTL DEF Spec

\* The types of every variable: also the streams of a snapshot are streams, and a
\* subscriber that is answered is one there is.
THEOREM ClientTyped == Spec => []TypeOK
<1>1. SessionIInv => TypeOK
  BY DEF SessionIInv
<1>2. QED
  BY <1>1, AlwaysSafe, PTL

\* A deleted stream comes back only if its deletion came in one piece with the snapshot
\* that lists it: for any streams, any number of publications, and any order in which the
\* events, the snapshot, the timeouts and the closing of the socket come.
THEOREM DeletedStaysDeleted == Spec => []NoResurrection
<1>1. SessionIInv => NoResurrection
  BY DEF SessionIInv, WireIInv, known, NoResurrection
<1>2. QED
  BY <1>1, AlwaysSafe, PTL

-----------------------------------------------------------------------------
\* What the client sends.
UpMessage ==
    {SubscribeSession, Create, Read} \cup {streams_create(s) : s \in Streams}
    \cup {subscribers_create(p[1], p[2]) : p \in Streams \X Nat}
    \cup {subscribers_answer(p[1], p[2], "answer") : p \in Streams \X Nat}

\* The answer to the read, and whether there is one on the wire; what is on a wire.
IsSnapshot(m) == m.method = "STATUS" /\ m.uri = Read.uri
Has(w, m) == \E i \in 1..Len(w) : w[i] = m
SnapshotComes == \E i \in 1..Len(down) : IsSnapshot(down[i])
\* The requests that publish.
Creations == {streams_create(s) : s \in Streams}

\* Before the server has taken the subscription nothing has happened; without a socket
\* nothing is on the wires; connect() resolves when the registration is answered, and
\* then the read is sent.
Unsubscribed ==
    ~subscribed => /\ view = {} /\ subs = <<>> /\ preparing = {} /\ down = <<>>
                   /\ read = "none" /\ create # "replied"
                   /\ up = <<>> \/ up = Opening
Unopened == readyState \in {"none", "CONNECTING"} => ~subscribed /\ up = <<>> /\ create = "none"
Unwired == ~Connected => up = <<>> /\ down = <<>>
Registered ==
    /\ read = "none" <=> create # "answered"
    /\ promise = "resolved" => create = "answered"
Ordered == Unsubscribed /\ Unopened /\ Unwired /\ Registered

\* The state of the session is read once.
OneRead ==
    /\ \A i, j \in 1..Len(up) : up[i] = Read /\ up[j] = Read => i = j
    /\ \A i, j \in 1..Len(down) : IsSnapshot(down[i]) /\ IsSnapshot(down[j]) => i = j
    /\ Has(up, Read) => ~SnapshotComes
    /\ read \in {"none", "replied", "answered"} => ~Has(up, Read) /\ ~SnapshotComes

\* The client publishes after it has read: its streams are in no snapshot and not its own
\* subscribers'.
OwnLater ==
    /\ view \cap Own = {} /\ snapshot \cap Own = {} /\ \A b \in DOMAIN subs : subs[b] \notin Own
    /\ \A i \in 1..Len(down) : IsSnapshot(down[i]) => down[i].content.streams \cap Own = {}
    /\ read = "none" \/ Has(up, Read) => past \cap Own = {}
    /\ \A i \in 1..Len(up) : up[i] \in Creations => read # "none" /\ \A j \in 1..Len(up) : up[j] = Read => j < i

\* What was announced has been there.
FromThePast ==
    /\ snapshot \subseteq past
    /\ \A b \in DOMAIN subs : subs[b] \in past
    /\ \A s \in Streams : \A i \in 1..Len(down) : Announces(down[i], s) => s \in past

\* No stream that has ended stays in the picture, or comes into it to stay.
NothingLeft ==
    Connected => \A s \in Streams :
        /\ s \in known => s \in streams \/ \E j \in 1..Len(down) : Ends(down[j], s)
        /\ \A i \in 1..Len(down) : Announces(down[i], s) =>
               s \in streams \/ \E j \in 1..Len(down) : i < j /\ Ends(down[j], s)

\* No stream of the others is missed, once the snapshot was made.
NothingMissing ==
    Connected /\ (read \in {"replied", "answered"} \/ (read = "pending" /\ SnapshotComes)) =>
        \A s \in streams \ Own : s \in known \/ \E i \in 1..Len(down) : Announces(down[i], s)

\* Each stream of the picture has a subscriber, which the server knows or will hear of.
AllSubscribed ==
    /\ \A s \in view : \E b \in DOMAIN subs : subs[b] = s
    /\ alive /\ readyState = "OPEN" =>
        \A b \in DOMAIN subs : \/ subs[b] \notin streams \/ <<subs[b], b>> \in watched
                               \/ Has(up, subscribers_create(subs[b], b))

\* The options name the stream of the last subscriber, and so does each answer the one
\* that was last when it was sent.
Named ==
    /\ subs # <<>> => streamId = subs[Len(subs)]
    /\ \A i \in 1..Len(up) : up[i].method = "answer" =>
           \E s \in Streams, b, c \in DOMAIN subs :
               up[i] = subscribers_answer(s, b, "answer") /\ c >= b /\ subs[c] = s
    /\ AnswersAreNamed

\* A stream of the others is announced by one event, and by the snapshot if it was there
\* when the read was served: the event of a stream that is in the snapshot was sent in the
\* window. A stream of a snapshot that waits is yet to be announced by it.
TimesIn(w, s) == Cardinality({b \in DOMAIN w : w[b] = s})
Times(s) == TimesIn(subs, s)
Coming(s) == IF Has(down, Created(s)) THEN 1 ELSE 0
InWindow(s) == IF s \in window THEN 1 ELSE 0
Late(s) == IF read \in {"none", "pending"} \/ (read = "replied" /\ s \in snapshot) THEN 0 ELSE 1
Counted ==
    \A s \in Remote :
        /\ \A i, j \in 1..Len(down) : down[i] = Created(s) /\ down[j] = Created(s) => i = j
        /\ s \notin past => Times(s) + Coming(s) = 0
        /\ Times(s) + Coming(s) <= InWindow(s) + Late(s)

\* A stream ends once: no end is told of a stream that was announced as deleted. So a
\* stream whose end overtook the snapshot stays in the picture.
EndedOnce ==
    /\ \A s \in Streams : \A i, j \in 1..Len(down) : Ends(down[i], s) /\ Ends(down[j], s) => i = j
    /\ \A s \in Streams \cap gone : \A i \in 1..Len(down) : ~Ends(down[i], s)
    /\ overtaken \subseteq view \cup snapshot

JoinIInv ==
    /\ up \in Seq(UpMessage)
    /\ Ordered /\ OneRead /\ OwnLater /\ FromThePast /\ NothingLeft /\ NothingMissing
    /\ AllSubscribed /\ Named /\ Counted /\ EndedOnce

-----------------------------------------------------------------------------
\* A wire with one message more, with several more, and with one less.
LEMMA Longer ==
    ASSUME NEW S, NEW w \in Seq(S), NEW m \in S, NEW v, v = Append(w, m)
    PROVE  /\ v \in Seq(S) /\ Len(w) \in Nat /\ Len(v) = Len(w) + 1 /\ v[Len(w) + 1] = m
           /\ Len(w) + 1 \in 1..Len(v)
           /\ \A i \in 1..Len(w) : v[i] = w[i] /\ i \in 1..Len(v) /\ i < Len(w) + 1
           /\ \A i \in 1..Len(v) : i \in 1..Len(w) \/ i = Len(w) + 1
           /\ \A x : Has(v, x) <=> Has(w, x) \/ m = x
<1>1. /\ v \in Seq(S) /\ Len(w) \in Nat /\ Len(v) = Len(w) + 1 /\ v[Len(w) + 1] = m
      /\ \A i \in 1..Len(w) : v[i] = w[i]
  OBVIOUS
<1>2. /\ Len(w) + 1 \in 1..Len(v)
      /\ \A i \in 1..Len(w) : i \in 1..Len(v) /\ i < Len(w) + 1
      /\ \A i \in 1..Len(v) : i \in 1..Len(w) \/ i = Len(w) + 1
  BY <1>1
<1>3. \A x : Has(v, x) <=> Has(w, x) \/ m = x
  BY <1>1, <1>2 DEF Has
<1>4. QED
  BY <1>1, <1>2, <1>3

LEMMA Listed ==
    ASSUME NEW S, NEW n \in Nat, NEW f \in [1..n -> S]
    PROVE  f \in Seq(S) /\ Len(f) = n
OBVIOUS

LEMMA Joined ==
    ASSUME NEW S, NEW w \in Seq(S), NEW q \in Seq(S), NEW v, v = w \o q
    PROVE  /\ v \in Seq(S) /\ Len(w) \in Nat /\ Len(q) \in Nat /\ Len(v) = Len(w) + Len(q)
           /\ \A i \in 1..Len(w) : v[i] = w[i] /\ i \in 1..Len(v)
           /\ \A i \in 1..Len(q) : v[Len(w) + i] = q[i] /\ Len(w) + i \in 1..Len(v)
           /\ \A i \in 1..Len(v) : \/ i \in 1..Len(w)
                                   \/ i - Len(w) \in 1..Len(q) /\ v[i] = q[i - Len(w)] /\ i > Len(w)
           /\ \A x : Has(v, x) <=> Has(w, x) \/ Has(q, x)
<1>1. /\ v \in Seq(S) /\ Len(w) \in Nat /\ Len(q) \in Nat /\ Len(v) = Len(w) + Len(q)
      /\ \A i \in 1..Len(w) : v[i] = w[i]
      /\ \A i \in 1..Len(v) : i \notin 1..Len(w) => v[i] = q[i - Len(w)]
  OBVIOUS
<1>2. /\ \A i \in 1..Len(w) : i \in 1..Len(v)
      /\ \A i \in 1..Len(q) : /\ Len(w) + i \in 1..Len(v) /\ Len(w) + i \notin 1..Len(w)
                              /\ (Len(w) + i) - Len(w) = i
      /\ \A i \in 1..Len(v) : i \in 1..Len(w) \/ (i - Len(w) \in 1..Len(q) /\ i \notin 1..Len(w) /\ i > Len(w))
  BY <1>1
<1>3. \A i \in 1..Len(q) : v[Len(w) + i] = q[i]
  BY <1>1, <1>2
<1>4. ASSUME NEW x PROVE Has(v, x) <=> Has(w, x) \/ Has(q, x)
  <2>1. Has(w, x) => Has(v, x)
    BY <1>1, <1>2 DEF Has
  <2>2. Has(q, x) => Has(v, x)
    BY <1>2, <1>3 DEF Has
  <2>3. ASSUME NEW i \in 1..Len(v), v[i] = x PROVE Has(w, x) \/ Has(q, x)
    <3>1. CASE i \in 1..Len(w)
      BY <1>1, <2>3, <3>1 DEF Has
    <3>2. CASE i \notin 1..Len(w)
      <4>1. i - Len(w) \in 1..Len(q) /\ q[i - Len(w)] = x
        BY <1>1, <1>2, <2>3, <3>2
      <4>2. QED
        BY <4>1 DEF Has
    <3>3. QED
      BY <3>1, <3>2
  <2>4. Has(v, x) => Has(w, x) \/ Has(q, x)
    BY <2>3 DEF Has
  <2>5. QED
    BY <2>1, <2>2, <2>4
<1>5. QED
  BY <1>1, <1>2, <1>3, <1>4

LEMMA Shorter ==
    ASSUME NEW S, NEW w \in Seq(S), w # <<>>, NEW v, v = Tail(w)
    PROVE  /\ v \in Seq(S) /\ Head(w) \in S /\ Head(w) = w[1] /\ 1 \in 1..Len(w)
           /\ \A i \in 1..Len(v) : v[i] = w[i + 1] /\ i + 1 \in 1..Len(w) /\ 1 < i + 1
           /\ \A i \in 1..Len(w) : i = 1 \/ (i - 1 \in 1..Len(v) /\ v[i - 1] = w[i])
           /\ \A x : Has(w, x) <=> Has(v, x) \/ Head(w) = x
<1>1. /\ v \in Seq(S) /\ Len(w) \in Nat /\ Len(v) = Len(w) - 1
      /\ Head(w) \in S /\ Head(w) = w[1] /\ 1 \in 1..Len(w)
      /\ \A i \in 1..Len(v) : v[i] = w[i + 1]
  OBVIOUS
<1>2. /\ \A i \in 1..Len(v) : i + 1 \in 1..Len(w) /\ 1 < i + 1
      /\ \A i \in 1..Len(w) : i = 1 \/ (i - 1 \in 1..Len(v) /\ (i - 1) + 1 = i)
  BY <1>1
<1>3. \A i \in 1..Len(w) : i = 1 \/ (i - 1 \in 1..Len(v) /\ v[i - 1] = w[i])
  BY <1>1, <1>2
<1>4. ASSUME NEW x PROVE Has(w, x) <=> Has(v, x) \/ Head(w) = x
  <2>1. Has(v, x) \/ Head(w) = x => Has(w, x)
    BY <1>1, <1>2 DEF Has
  <2>2. ASSUME NEW i \in 1..Len(w), w[i] = x PROVE Has(v, x) \/ Head(w) = x
    BY <1>1, <1>3, <2>2 DEF Has
  <2>3. Has(w, x) => Has(v, x) \/ Head(w) = x
    BY <2>2 DEF Has
  <2>4. QED
    BY <2>1, <2>3
<1>5. QED
  BY <1>1, <1>2, <1>3, <1>4

\* The wire to the server, when the server takes a message.
LEMMA UpShrinks ==
    ASSUME up \in Seq(UpMessage), ServerTakes
    PROVE  /\ up' \in Seq(UpMessage) /\ Head(up) \in UpMessage /\ Head(up) = up[1] /\ 1 \in 1..Len(up)
           /\ \A i \in 1..Len(up') : up'[i] = up[i + 1] /\ i + 1 \in 1..Len(up) /\ 1 < i + 1
           /\ \A i \in 1..Len(up) : i = 1 \/ (i - 1 \in 1..Len(up') /\ up'[i - 1] = up[i])
           /\ \A x : Has(up, x) <=> Has(up', x) \/ Head(up) = x
<1>1. up # <<>> /\ up' = Tail(up)
  BY DEF ServerTakes
<1>2. /\ up' \in Seq(UpMessage) /\ Head(up) \in UpMessage /\ Head(up) = up[1] /\ 1 \in 1..Len(up)
      /\ \A i \in 1..Len(up') : up'[i] = up[i + 1] /\ i + 1 \in 1..Len(up) /\ 1 < i + 1
      /\ \A i \in 1..Len(up) : i = 1 \/ (i - 1 \in 1..Len(up') /\ up'[i - 1] = up[i])
  BY <1>1, Shorter
<1>3. \A x : Has(up, x) <=> Has(up', x) \/ Head(up) = x
  BY <1>1, Shorter
<1>4. QED
  BY <1>2, <1>3

LEMMA DownGrows ==
    ASSUME down \in Seq(DownMessage), NEW m \in DownMessage, down' = Append(down, m)
    PROVE  /\ \A i \in 1..Len(down) : down'[i] = down[i]
           /\ down'[Len(down) + 1] = m
           /\ \A i \in 1..Len(down') : i \in 1..Len(down) \/ i = Len(down) + 1
           /\ \A x : Has(down', x) <=> Has(down, x) \/ m = x
<1>1. \A i \in 1..Len(down) : down'[i] = down[i]
  BY Longer
<1>2. down'[Len(down) + 1] = m /\ \A i \in 1..Len(down') : i \in 1..Len(down) \/ i = Len(down) + 1
  BY Longer
<1>3. ASSUME NEW x PROVE Has(down', x) <=> Has(down, x) \/ m = x
  <2>1. \A i \in 1..Len(down) : i \in 1..Len(down')
    BY Longer
  <2>2. Len(down) + 1 \in 1..Len(down')
    BY Longer
  <2>3. QED
    BY <1>1, <1>2, <2>1, <2>2 DEF Has
<1>4. QED
  BY <1>1, <1>2, <1>3

\* The wire from the server, when the client takes a message.
LEMMA DownShrinks ==
    ASSUME down \in Seq(DownMessage), Takes
    PROVE  /\ down' \in Seq(DownMessage) /\ Head(down) \in DownMessage /\ Head(down) = down[1]
           /\ 1 \in 1..Len(down)
           /\ \A i \in 1..Len(down') : down'[i] = down[i + 1] /\ i + 1 \in 1..Len(down) /\ 1 < i + 1
           /\ \A i \in 1..Len(down) : i = 1 \/ (i - 1 \in 1..Len(down') /\ down'[i - 1] = down[i])
           /\ \A x : Has(down, x) <=> Has(down', x) \/ Head(down) = x
<1>1. down # <<>> /\ down' = Tail(down)
  BY DEF Takes
<1>2. /\ down' \in Seq(DownMessage) /\ Head(down) \in DownMessage /\ Head(down) = down[1]
      /\ 1 \in 1..Len(down)
      /\ \A i \in 1..Len(down') : down'[i] = down[i + 1] /\ i + 1 \in 1..Len(down) /\ 1 < i + 1
      /\ \A i \in 1..Len(down) : i = 1 \/ (i - 1 \in 1..Len(down') /\ down'[i - 1] = down[i])
  BY <1>1, Shorter
<1>3. \A x : Has(down, x) <=> Has(down', x) \/ Head(down) = x
  BY <1>1, Shorter
<1>4. QED
  BY <1>2, <1>3

LEMMA NoneLeft == Len(<<>>) = 0 /\ 1..0 = {} /\ \A S : <<>> \in Seq(S)
  OBVIOUS

\* No two messages of the client are taken for each other.
LEMMA UpMethods ==
    /\ Read.method = "read" /\ Create.method = "create" /\ SubscribeSession.method = "SUBSCRIBE"
    /\ Read \in UpMessage /\ Create \in UpMessage /\ SubscribeSession \in UpMessage
    /\ \A s : streams_create(s).method = "create" /\ streams_create(s) # Create
    /\ \A s, b : /\ subscribers_create(s, b).method = "create"
                 /\ subscribers_answer(s, b, "answer").method = "answer"
                 /\ subscribers_create(s, b) # Create
    /\ \A s, b, r : subscribers_create(s, b) # streams_create(r)
    /\ \A s, b, r, c : /\ subscribers_create(s, b) = subscribers_create(r, c) => s = r /\ b = c
                       /\ subscribers_answer(s, b, "answer") = subscribers_answer(r, c, "answer")
                            => s = r /\ b = c
    /\ \A s \in Streams : streams_create(s) \in UpMessage /\ streams_create(s) \in Creations
    /\ \A s \in Streams, b \in Nat : /\ subscribers_create(s, b) \in UpMessage
                                     /\ subscribers_answer(s, b, "answer") \in UpMessage
<1>1. /\ Read.method = "read" /\ Create.method = "create" /\ SubscribeSession.method = "SUBSCRIBE"
      /\ Read \in UpMessage /\ Create \in UpMessage /\ SubscribeSession \in UpMessage
  BY DEF Read, sessions_get, Create, connections_create, SubscribeSession, Message, UpMessage
<1>2. /\ Create.uri = <<<<"connection", self>>>>
      /\ \A s : streams_create(s).method = "create" /\ streams_create(s).uri = <<<<"stream", s>>>>
  BY DEF Create, connections_create, ConnectionUri, streams_create, StreamUri, Message
<1>3. \A s, b : /\ SubscriberUri(s, b)[1] = <<"stream", s>> /\ SubscriberUri(s, b)[2] = <<"subscriber", b>>
                /\ Len(SubscriberUri(s, b)) = 2
  BY DEF SubscriberUri, StreamUri
<1>4. \A s, b : /\ subscribers_create(s, b).method = "create"
                /\ subscribers_answer(s, b, "answer").method = "answer"
                /\ subscribers_create(s, b).uri = SubscriberUri(s, b)
                /\ subscribers_answer(s, b, "answer").uri = SubscriberUri(s, b)
  BY DEF subscribers_create, subscribers_answer, Message
<1>5. \A s : <<<<"stream", s>>>> # <<<<"connection", self>>>>
  <2>1. \A s : <<<<"stream", s>>>>[1][1] = "stream" /\ <<<<"connection", self>>>>[1][1] = "connection"
    OBVIOUS
  <2>2. QED
    BY <2>1
<1>6. \A s, b, r : SubscriberUri(s, b) # <<r>>
  <2>1. \A r : Len(<<r>>) = 1
    OBVIOUS
  <2>2. QED
    BY <1>3, <2>1
<1>7. \A s, b, r, c : SubscriberUri(s, b) = SubscriberUri(r, c) => s = r /\ b = c
  <2>1. \A s, b, r, c : SubscriberUri(s, b) = SubscriberUri(r, c) =>
            <<"stream", s>> = <<"stream", r>> /\ <<"subscriber", b>> = <<"subscriber", c>>
    BY <1>3
  <2>2. QED
    BY <2>1
<1>8. \A s \in Streams : streams_create(s) \in UpMessage /\ streams_create(s) \in Creations
  BY DEF UpMessage, Creations
<1>9. ASSUME NEW s \in Streams, NEW b \in Nat
      PROVE  subscribers_create(s, b) \in UpMessage /\ subscribers_answer(s, b, "answer") \in UpMessage
  <2>1. <<s, b>> \in Streams \X Nat /\ <<s, b>>[1] = s /\ <<s, b>>[2] = b
    OBVIOUS
  <2>2. QED
    BY <2>1 DEF UpMessage
<1>10. \A s : streams_create(s) # Create
  BY <1>2, <1>5
<1>11. \A s, b : subscribers_create(s, b) # Create
  <2>1. ASSUME NEW s, NEW b PROVE subscribers_create(s, b).uri # Create.uri
    <3>1. SubscriberUri(s, b) # <<<<"connection", self>>>>
      BY <1>6
    <3>2. subscribers_create(s, b).uri = SubscriberUri(s, b)
      BY <1>4
    <3>3. QED
      BY <1>2, <3>1, <3>2
  <2>2. QED
    BY <2>1
<1>12. \A s, b, r : subscribers_create(s, b) # streams_create(r)
  <2>1. \A s, b, r : SubscriberUri(s, b) # <<<<"stream", r>>>>
    BY <1>6
  <2>2. \A s, b, r : subscribers_create(s, b).uri # streams_create(r).uri
    BY <1>2, <1>4, <2>1
  <2>3. QED
    BY <2>2
<1>13. \A s, b, r, c : /\ subscribers_create(s, b) = subscribers_create(r, c) => s = r /\ b = c
                       /\ subscribers_answer(s, b, "answer") = subscribers_answer(r, c, "answer")
                            => s = r /\ b = c
  BY <1>4, <1>7
<1>14. QED
  BY <1>1, <1>2, <1>4, <1>8, <1>9, <1>10, <1>11, <1>12, <1>13

LEMMA AnswersDiffer ==
    ASSUME NEW s, NEW b, NEW r, NEW c,
           subscribers_answer(s, b, "answer") = subscribers_answer(r, c, "answer")
    PROVE  s = r /\ b = c
<1>1. SubscriberUri(s, b) = SubscriberUri(r, c)
  BY DEF subscribers_answer, Message
<1>2. <<"stream", s>> = <<"stream", r>> /\ <<"subscriber", b>> = <<"subscriber", c>>
  BY <1>1 DEF SubscriberUri, StreamUri
<1>3. QED
  BY <1>2

\* What each message of the server is.
LEMMA DownKinds ==
    /\ \A s \in Streams : /\ Created(s).method = "created" /\ Deleted(s).method = "deleted"
                          /\ Created(s) \in DownMessage /\ Deleted(s) \in DownMessage
                          /\ Dispatched(Created(s)) = <<"stream", "created">>
                          /\ Created(s).uri[1][2] = s /\ Deleted(s).uri[1][2] = s
                          /\ Dispatched(Deleted(s)) = <<"stream", "deleted">>
    /\ Reply(Create, Empty).method = "STATUS" /\ Reply(Create, Empty).uri = Create.uri
    /\ Create.uri # Read.uri /\ ~IsSnapshot(Reply(Create, Empty))
    /\ \A S : /\ IsSnapshot(Reply(Read, [streams |-> S]))
              /\ Reply(Read, [streams |-> S]).content.streams = S
    /\ \A s, b : Offer(s, b).method = "offer"
<1>1. ASSUME NEW s \in Streams
      PROVE  /\ Created(s).method = "created" /\ Deleted(s).method = "deleted"
             /\ Created(s).uri = StreamUri(s) /\ Deleted(s).uri = StreamUri(s)
             /\ StreamUri(s)[1][2] = s
  BY DEF Created, Deleted, Message, StreamUri
<1>2. ASSUME NEW s \in Streams
      PROVE  /\ Created(s) \in DownMessage /\ Deleted(s) \in DownMessage
             /\ Dispatched(Created(s)) = <<"stream", "created">>
             /\ Dispatched(Deleted(s)) = <<"stream", "deleted">>
  BY <1>1, CreatedSays, DeletedSays, StreamIsStream DEF Dispatched
<1>3. /\ Reply(Create, Empty).method = "STATUS" /\ Reply(Create, Empty).uri = Create.uri
      /\ Create.uri = <<<<"connection", self>>>> /\ Read.uri = <<>>
  BY DEF Reply, Create, connections_create, ConnectionUri, Message, Read, sessions_get, SessionUri
<1>4. <<<<"connection", self>>>> # <<>>
  OBVIOUS
<1>5. \A S : /\ IsSnapshot(Reply(Read, [streams |-> S]))
             /\ Reply(Read, [streams |-> S]).content.streams = S
  BY DEF IsSnapshot, Reply, Message
<1>6. \A s, b : Offer(s, b).method = "offer"
  BY DEF Offer, offer, Message
<1>7. QED
  BY <1>1, <1>2, <1>3, <1>4, <1>5, <1>6 DEF IsSnapshot

LEMMA DownCases ==
    ASSUME NEW m \in DownMessage
    PROVE  \/ \E s \in Streams : m = Created(s)
           \/ \E s \in Streams : m = Deleted(s)
           \/ \E s, b : m = Offer(s, b)
           \/ m = Reply(Create, Empty)
           \/ \E S \in SUBSET Streams : m = Reply(Read, [streams |-> S])
  BY DEF DownMessage

\* A message is known by its method, and an answer by its uri.
LEMMA DownByMethod ==
    ASSUME NEW m \in DownMessage
    PROVE  /\ m.method \in {"created", "deleted"} =>
                \E s \in Streams : m = Created(s) \/ m = Deleted(s)
           /\ IsSnapshot(m) => \E S \in SUBSET Streams : m = Reply(Read, [streams |-> S])
           /\ m.method = "STATUS" /\ m.uri = Create.uri => m = Reply(Create, Empty)
<1>1. CASE \E s \in Streams : m = Created(s) \/ m = Deleted(s)
  BY <1>1, DownKinds DEF IsSnapshot
<1>2. CASE \E s, b : m = Offer(s, b)
  BY <1>2, DownKinds DEF IsSnapshot
<1>3. CASE m = Reply(Create, Empty)
  BY <1>3, DownKinds
<1>4. CASE \E S \in SUBSET Streams : m = Reply(Read, [streams |-> S])
  <2>1. PICK S \in SUBSET Streams : m = Reply(Read, [streams |-> S])
    BY <1>4
  <2>2. m.method = "STATUS" /\ m.uri = Read.uri
    BY <2>1, DownKinds DEF IsSnapshot
  <2>3. QED
    BY <2>1, <2>2, DownKinds
<1>5. QED
  BY <1>1, <1>2, <1>3, <1>4, DownCases

\* What the client takes, by the handler that takes it.
LEMMA HeadIs ==
    ASSUME SessionIInv, Takes
    PROVE  /\ down \in Seq(DownMessage) /\ down # <<>> /\ down' = Tail(down)
           /\ Head(down) \in DownMessage
           /\ OnStreamCreated => Stream \in Streams /\ Head(down) = Created(Stream)
           /\ OnStreamDeleted => Stream \in Streams /\ Head(down) = Deleted(Stream)
           /\ OnReadReply => \E S \in SUBSET Streams : Head(down) = Reply(Read, [streams |-> S])
           /\ OnCreateReply => Head(down) = Reply(Create, Empty)
           /\ OnOffer => \A s \in Streams : ~Announces(Head(down), s) /\ ~Ends(Head(down), s)
                            /\ ~IsSnapshot(Head(down))
<1>1. /\ down \in Seq(DownMessage) /\ down # <<>> /\ down' = Tail(down)
      /\ Head(down) \in DownMessage
  BY DEF SessionIInv, WireIInv, Takes
<1>2. CASE OnStreamCreated \/ OnStreamDeleted
  <2>1. PICK method \in {"created", "deleted"} : /\ Dispatched(Head(down)) = <<"stream", method>>
                                                 /\ OnStreamCreated => method = "created"
                                                 /\ OnStreamDeleted => method = "deleted"
    BY <1>2 DEF OnStreamCreated, OnStreamDeleted, TakesEvent
  <2>2. Head(down).method = method
    BY <2>1 DEF Dispatched
  <2>3. \E s \in Streams : Head(down) = Created(s) \/ Head(down) = Deleted(s)
    BY <1>1, <2>2, DownByMethod
  <2>4. PICK s \in Streams : Head(down) = Created(s) \/ Head(down) = Deleted(s)
    BY <2>3
  <2>5. Stream = s
    BY <2>4, DownKinds DEF Stream
  <2>6. Head(down) = IF method = "created" THEN Created(s) ELSE Deleted(s)
    BY <2>2, <2>4, DownKinds
  <2>7. ~OnReadReply /\ ~OnCreateReply /\ ~OnOffer
    BY <2>1, <2>2 DEF OnReadReply, OnCreateReply, TakesReply, OnOffer, TakesEvent, Dispatched
  <2>8. QED
    BY <1>1, <2>1, <2>5, <2>6, <2>7
<1>3. CASE ~(OnStreamCreated \/ OnStreamDeleted)
  <2>1. OnReadReply => IsSnapshot(Head(down))
    BY DEF OnReadReply, TakesReply, IsSnapshot
  <2>2. OnCreateReply => Head(down).method = "STATUS" /\ Head(down).uri = Create.uri
    BY DEF OnCreateReply, TakesReply
  <2>3. OnOffer => Head(down).method = "offer"
    BY DEF OnOffer, TakesEvent, Dispatched
  <2>4. OnReadReply => \E S \in SUBSET Streams : Head(down) = Reply(Read, [streams |-> S])
    BY <1>1, <2>1, DownByMethod
  <2>5. OnCreateReply => Head(down) = Reply(Create, Empty)
    BY <1>1, <2>2, DownByMethod
  <2>6. OnOffer => /\ ~IsSnapshot(Head(down))
                   /\ \A s \in Streams : ~Announces(Head(down), s) /\ ~Ends(Head(down), s)
    BY <2>3 DEF IsSnapshot, Announces, Ends, Dispatched
  <2>7. QED
    BY <1>1, <1>3, <2>4, <2>5, <2>6
<1>4. QED
  BY <1>2, <1>3

-----------------------------------------------------------------------------
\* One message is sent, or lost with the socket.
LEMMA Sending ==
    ASSUME up \in Seq(UpMessage), NEW m \in UpMessage, up' = Sent(<<m>>)
    PROVE  up' = up \/ (readyState = "OPEN" /\ up' = Append(up, m))
<1>1. up \o <<m>> = Append(up, m)
  OBVIOUS
<1>2. QED
  BY <1>1 DEF Sent

\* The subscribers of the streams of q are made, and send their requests.
LEMMA Announcing ==
    ASSUME up \in Seq(UpMessage), subs \in Seq(Streams), NEW q \in Seq(Streams), Subscribe(q)
    PROVE  /\ up' \in Seq(UpMessage)
           /\ \A i \in 1..Len(up) : i \in 1..Len(up') /\ up'[i] = up[i]
           /\ \A i \in 1..Len(up') :
                 \/ i \in 1..Len(up)
                 \/ \E s \in Streams, b \in Nat : up'[i] = subscribers_create(s, b)
           /\ subs' \in Seq(Streams) /\ DOMAIN subs = 1..Len(subs) /\ DOMAIN subs' = 1..Len(subs')
           /\ Len(subs) \in Nat /\ Len(q) \in Nat /\ Len(subs') = Len(subs) + Len(q)
           /\ \A b \in 1..Len(subs) : b \in 1..Len(subs') /\ subs'[b] = subs[b]
           /\ \A i \in 1..Len(q) : /\ Len(subs) + i \in 1..Len(subs') /\ subs'[Len(subs) + i] = q[i]
                                   /\ readyState = "OPEN" =>
                                        Has(up', subscribers_create(q[i], Len(subs) + i))
           /\ \A b \in 1..Len(subs') : b \in 1..Len(subs) \/ \E i \in 1..Len(q) : b = Len(subs) + i
<1>1. subs' = subs \o q /\ up' = Sent(Creates(q))
  BY DEF Subscribe
<1>2. Len(q) \in Nat /\ Len(subs) \in Nat /\ \A i \in 1..Len(q) : q[i] \in Streams /\ Len(subs) + i \in Nat
  OBVIOUS
<1>3. /\ Creates(q) \in Seq(UpMessage) /\ Len(Creates(q)) = Len(q)
      /\ \A i \in 1..Len(q) : Creates(q)[i] = subscribers_create(q[i], Len(subs) + i)
  <2>1. \A i \in 1..Len(q) : subscribers_create(q[i], Len(subs) + i) \in UpMessage
    BY <1>2, UpMethods
  <2>2. Creates(q) \in [1..Len(q) -> UpMessage]
    BY <2>1 DEF Creates
  <2>3. Creates(q) \in Seq(UpMessage) /\ Len(Creates(q)) = Len(q)
    BY <1>2, <2>2, Listed
  <2>4. \A i \in 1..Len(q) : Creates(q)[i] = subscribers_create(q[i], Len(subs) + i)
    BY DEF Creates
  <2>5. QED
    BY <2>3, <2>4
<1>4. /\ subs' \in Seq(Streams) /\ DOMAIN subs = 1..Len(subs) /\ DOMAIN subs' = 1..Len(subs')
      /\ Len(subs') = Len(subs) + Len(q)
  BY <1>1
<1>5. /\ \A b \in 1..Len(subs) : b \in 1..Len(subs') /\ subs'[b] = subs[b]
      /\ \A i \in 1..Len(q) : Len(subs) + i \in 1..Len(subs') /\ subs'[Len(subs) + i] = q[i]
  BY <1>1, Joined
<1>6. \A b \in 1..Len(subs') : b \in 1..Len(subs) \/ \E i \in 1..Len(q) : b = Len(subs) + i
  <2>1. ASSUME NEW b \in 1..Len(subs'), b \notin 1..Len(subs) PROVE \E i \in 1..Len(q) : b = Len(subs) + i
    <3>1. b - Len(subs) \in 1..Len(q) /\ b = Len(subs) + (b - Len(subs))
      BY <1>2, <1>4, <2>1
    <3>2. QED
      BY <3>1
  <2>2. QED
    BY <2>1
<1>7. CASE readyState = "OPEN"
  <2>1. up' = up \o Creates(q)
    BY <1>1, <1>7 DEF Sent
  <2>2. /\ up' \in Seq(UpMessage)
        /\ \A i \in 1..Len(up) : i \in 1..Len(up') /\ up'[i] = up[i]
        /\ \A i \in 1..Len(Creates(q)) : up'[Len(up) + i] = Creates(q)[i] /\ Len(up) + i \in 1..Len(up')
        /\ \A i \in 1..Len(up') : \/ i \in 1..Len(up)
                                  \/ /\ i - Len(up) \in 1..Len(Creates(q))
                                     /\ up'[i] = Creates(q)[i - Len(up)] /\ i > Len(up)
    BY <1>3, <2>1, Joined
  <2>3. \A i \in 1..Len(q) : Has(up', subscribers_create(q[i], Len(subs) + i))
    BY <1>3, <2>2 DEF Has
  <2>4. ASSUME NEW i \in 1..Len(up'), i \notin 1..Len(up)
        PROVE  \E s \in Streams, b \in Nat : up'[i] = subscribers_create(s, b)
    <3>1. i - Len(up) \in 1..Len(q) /\ up'[i] = Creates(q)[i - Len(up)]
      BY <1>3, <2>2, <2>4
    <3>2. up'[i] = subscribers_create(q[i - Len(up)], Len(subs) + (i - Len(up)))
      BY <1>3, <3>1
    <3>3. q[i - Len(up)] \in Streams /\ Len(subs) + (i - Len(up)) \in Nat
      BY <1>2, <3>1
    <3>4. QED
      BY <3>2, <3>3
  <2>5. QED
    BY <1>2, <1>4, <1>5, <1>6, <2>2, <2>3, <2>4
<1>8. CASE readyState # "OPEN"
  <2>1. up' = up
    BY <1>1, <1>8 DEF Sent
  <2>2. QED
    BY <1>2, <1>4, <1>5, <1>6, <1>8, <2>1
<1>9. QED
  BY <1>7, <1>8

\* The streams of the message that is taken are announced, or nothing is.
LEMMA Announced ==
    ASSUME SessionIInv, OnStreamCreated \/ AnnounceSnapshot
    PROVE  \/ OnStreamCreated /\ UNCHANGED <<view, subscriptions, up>> /\ Stream \in Own
           \/ \E q \in Seq(Streams) :
                 /\ Announce(q)
                 /\ OnStreamCreated => q = <<Stream>> /\ Stream \notin Own
                 /\ AnnounceSnapshot => q \in Lists(snapshot)
<1>1. CASE OnStreamCreated
  <2>1. Takes /\ read' = read
    BY <1>1 DEF OnStreamCreated, TakesEvent
  <2>2. Stream \in Streams
    BY <1>1, <2>1, HeadIs
  <2>3. ~AnnounceSnapshot
    BY <2>1 DEF AnnounceSnapshot
  <2>4. IF Stream \notin Own THEN Announce(<<Stream>>) ELSE UNCHANGED <<view, subscriptions, up>>
    BY <1>1 DEF OnStreamCreated, Foreign
  <2>5. <<Stream>> \in Seq(Streams)
    BY <2>2
  <2>6. QED
    BY <1>1, <2>3, <2>4, <2>5
<1>2. CASE AnnounceSnapshot
  <2>1. read = "replied" /\ read' = "answered" /\ \E q \in Lists(snapshot) : Announce(q)
    BY <1>2 DEF AnnounceSnapshot
  <2>2. ~OnStreamCreated
    BY <2>1 DEF OnStreamCreated
  <2>3. snapshot \in SUBSET Streams
    BY DEF SessionIInv, TypeOK
  <2>4. \A q \in Lists(snapshot) : q \in Seq(Streams)
    BY <2>3, ListsAreSequences
  <2>5. QED
    BY <2>1, <2>2, <2>4
<1>3. QED
  BY <1>1, <1>2

LEMMA Answering ==
    ASSUME SessionIInv, JoinIInv, NEW b \in DOMAIN subs, answer(b)
    PROVE  /\ b \in Nat /\ b <= Len(subs) /\ Len(subs) \in DOMAIN subs
           /\ streamId \in Streams /\ streamId = subs[Len(subs)]
           /\ up' = up \/ (readyState = "OPEN" /\ up' = Append(up, subscribers_answer(streamId, b, "answer")))
           /\ subscribers_answer(streamId, b, "answer") \in UpMessage
<1>1. subs \in Seq(Streams) /\ subs # <<>>
  BY DEF SessionIInv, TypeOK, SubscriptionsTypeOK
<1>2. b \in Nat /\ b <= Len(subs) /\ Len(subs) \in DOMAIN subs /\ subs[Len(subs)] \in Streams
  BY <1>1
<1>3. streamId = subs[Len(subs)]
  BY <1>1 DEF JoinIInv, Named
<1>4. subscribers_answer(streamId, b, "answer") \in UpMessage
  BY <1>2, <1>3, UpMethods
<1>5. up' = Sent(<<subscribers_answer(streamId, b, "answer")>>) /\ up \in Seq(UpMessage)
  BY DEF answer, Answer, JoinIInv
<1>6. QED
  BY <1>2, <1>3, <1>4, <1>5, Sending

LEMMA Publishing ==
    ASSUME SessionIInv, JoinIInv, NEW o \in Own, publish(o)
    PROVE  \E x \in Streams : up' = Append(up, streams_create(x)) /\ streams_create(x) \in UpMessage
<1> DEFINE x == IF streamId = NoStream THEN o ELSE streamId
<1>1. x \in Streams
  BY DEF SessionIInv, TypeOK, SubscriptionsTypeOK, Streams
<1>2. up' = Sent(<<streams_create(x)>>) /\ readyState = "OPEN"
  BY DEF publish, Publish
<1> HIDE DEF x
<1>3. up \o <<streams_create(x)>> = Append(up, streams_create(x))
  BY <1>1, UpMethods DEF JoinIInv
<1>4. QED
  BY <1>1, <1>2, <1>3, UpMethods DEF Sent

\* What the client may put on its wire.
LEMMA UpStaysTyped ==
    ASSUME SessionIInv, JoinIInv, [Next]_vars
    PROVE  up' \in Seq(UpMessage)
<1>0. up \in Seq(UpMessage) /\ subs \in Seq(Streams)
  BY DEF JoinIInv, SessionIInv, TypeOK, SubscriptionsTypeOK
<1>1. CASE up' = up \/ up' = <<>>
  BY <1>0, <1>1, NoneLeft
<1>2. CASE Open
  <2>1. Opening \in Seq(UpMessage) /\ up' = up \o Opening
    BY <1>2, UpMethods DEF Open, Opening
  <2>2. QED
    BY <1>0, <2>1
<1>3. CASE ReadSession
  <2>1. up' = Sent(<<Read>>) /\ Read \in UpMessage
    BY <1>3, UpMethods DEF ReadSession
  <2>2. up' = up \/ up' = Append(up, Read)
    BY <1>0, <2>1, Sending
  <2>3. QED
    BY <1>0, <1>1, <2>1, <2>2, Longer
<1>4. CASE OnStreamCreated \/ AnnounceSnapshot
  BY <1>0, <1>1, <1>4, Announced, Announcing DEF Announce
<1>5. ASSUME NEW b \in DOMAIN subs, answer(b) PROVE up' \in Seq(UpMessage)
  BY <1>0, <1>5, Answering, Longer
<1>6. ASSUME NEW o \in Own, publish(o) PROVE up' \in Seq(UpMessage)
  BY <1>0, <1>6, Publishing, Longer
<1>7. CASE ServerTakes
  BY <1>0, <1>7 DEF ServerTakes
<1>8. CASE connect \/ disconnect \/ AnvilAnswers \/ CreateTimeout \/ ReadTimeout \/ OnStreamDeleted
           \/ OnOffer \/ OnCreateReply \/ OnReadReply
  BY <1>1, <1>8 DEF connect, disconnect, AnvilAnswers, CreateTimeout, ReadTimeout, OnStreamDeleted, OnOffer,
                    OnCreateReply, OnReadReply
<1>9. CASE Closed \/ SocketError
  BY <1>1, <1>9 DEF Closed, SocketError
<1>10. ASSUME NEW s \in Streams, RemotePublishes(s) \/ StreamEnds(s) PROVE up' \in Seq(UpMessage)
  BY <1>1, <1>10 DEF RemotePublishes, StreamEnds
<1>11. CASE UNCHANGED vars
  BY <1>1, <1>11 DEF vars
<1>12. QED
  BY <1>2, <1>3, <1>4, <1>5, <1>6, <1>7, <1>8, <1>9, <1>10, <1>11 DEF Next, OnMessage, Continuation, OtherEvent, Streams

-----------------------------------------------------------------------------
\* The handlers of what is taken.
LEMMA Handlers ==
    ASSUME OnMessage
    PROVE  /\ Takes /\ UNCHANGED <<alive, promise, readyState, server>>
           /\ down # <<>> /\ down' = Tail(down)
           /\ OnCreateReply => read' = read /\ (create' = create \/ (create = "pending" /\ create' = "replied"))
           /\ OnReadReply => read' = read \/ (read = "pending" /\ read' = "replied")
           /\ ~OnCreateReply => create' = create
           /\ ~OnReadReply => read' = read
           /\ OnCreateReply \/ OnReadReply => UNCHANGED <<view, gone, subscriptions, up>>
           /\ OnStreamDeleted \/ OnOffer => UNCHANGED <<up, subs>>
  BY DEF OnMessage, OnCreateReply, OnStreamCreated, OnStreamDeleted, OnReadReply, OnOffer, TakesReply,
         TakesEvent, Takes, PrepareAnswer, subscriptions, Ignored

LEMMA OrderedStays ==
    ASSUME SessionIInv, JoinIInv, [Next]_vars
    PROVE  Ordered'
<1>0. /\ Unsubscribed /\ Unopened /\ Unwired /\ Registered
      /\ up \in Seq(UpMessage) /\ down \in Seq(DownMessage)
  BY DEF JoinIInv, Ordered, SessionIInv, WireIInv
<1>1. CASE connect \/ disconnect \/ AnvilAnswers \/ CreateTimeout \/ ReadTimeout
  <2>1. UNCHANGED <<alive, view, subscriptions, up, down, server>>
    BY <1>1 DEF connect, disconnect, AnvilAnswers, CreateTimeout, ReadTimeout, joining
  <2>2. Unsubscribed'
    BY <1>0, <1>1, <2>1
       DEF connect, disconnect, AnvilAnswers, CreateTimeout, ReadTimeout, joining, Unsubscribed,
           subscriptions, server
  <2>3. Unopened'
    BY <1>0, <1>1, <2>1
       DEF connect, disconnect, AnvilAnswers, CreateTimeout, ReadTimeout, joining, Unopened, server
  <2>4. Unwired'
    BY <1>0, <1>1, <2>1
       DEF connect, disconnect, AnvilAnswers, CreateTimeout, ReadTimeout, joining, Unwired, Connected
  <2>5. Registered'
    BY <1>0, <1>1 DEF connect, disconnect, AnvilAnswers, CreateTimeout, ReadTimeout, joining, Registered
  <2>6. QED
    BY <2>2, <2>3, <2>4, <2>5 DEF Ordered
<1>2. CASE Open
  <2>1. /\ readyState = "CONNECTING" /\ readyState' = "OPEN" /\ up' = up \o Opening /\ alive
        /\ create' = "pending"
        /\ UNCHANGED <<alive, promise, read, view, gone, subscriptions, down, server>>
    BY <1>2 DEF Open
  <2>2. up = <<>> /\ ~subscribed /\ create = "none"
    BY <1>0, <2>1 DEF Unopened
  <2>3. <<>> \o Opening = Opening
    BY DEF Opening
  <2>4. QED
    BY <1>0, <2>1, <2>2, <2>3
       DEF Ordered, Unsubscribed, Unopened, Unwired, Connected, Registered, subscriptions, server
<1>3. CASE Closed \/ SocketError
  <2>1. /\ up' = <<>> /\ down' = <<>> /\ UNCHANGED <<create, read, view, subscriptions, server>>
        /\ promise' = promise \/ promise' = "rejected"
        /\ readyState' \in {"none", "CONNECTING"} => readyState \in {"none", "CONNECTING"}
    BY <1>3 DEF Closed, SocketError, AfterClose
  <2>2. QED
    BY <1>0, <2>1 DEF Ordered, Unsubscribed, Unopened, Unwired, Registered, subscriptions, server
<1>4. CASE OnMessage
  <2>1. Takes /\ UNCHANGED <<alive, promise, readyState, server>> /\ down # <<>> /\ down' = Tail(down)
    BY <1>4, Handlers
  <2>2. subscribed /\ Connected /\ readyState \notin {"none", "CONNECTING"}
    BY <1>0, <2>1 DEF Unsubscribed, Unopened, Unwired
  <2>3. Unsubscribed' /\ Unopened' /\ Unwired'
    BY <2>1, <2>2 DEF Unsubscribed, Unopened, Unwired, Connected, server
  <2>4. /\ create' = create \/ (create = "pending" /\ create' = "replied")
        /\ read' = read \/ (read = "pending" /\ read' = "replied")
    BY <1>4, Handlers
  <2>5. Registered'
    BY <1>0, <2>1, <2>4 DEF Registered
  <2>6. QED
    BY <2>3, <2>5 DEF Ordered
<1>5. CASE Continuation
  <2>1. /\ create = "replied" \/ read = "replied"
        /\ UNCHANGED <<alive, readyState, down, server>>
        /\ \/ read' # "none" /\ create' = "answered"
           \/ UNCHANGED <<create, promise>> /\ read = "replied" /\ read' = "answered"
    BY <1>5 DEF Continuation, ReadSession, AnnounceSnapshot
  <2>2. alive
    BY <1>5 DEF Continuation, ReadSession, AnnounceSnapshot
  <2>3. subscribed
    BY <1>0, <2>1 DEF Unsubscribed
  <2>4. readyState \notin {"none", "CONNECTING"}
    BY <1>0, <2>3 DEF Unopened
  <2>5. Registered'
    BY <1>0, <2>1 DEF Registered
  <2>6. up' = up \/ readyState = "OPEN"
    BY <1>5 DEF Continuation, ReadSession, AnnounceSnapshot, Sent, Announce, Subscribe
  <2>7. QED
    BY <1>0, <2>1, <2>2, <2>3, <2>4, <2>5, <2>6 DEF Ordered, Unsubscribed, Unopened, Unwired, Connected, server
<1>6. CASE (\E b \in DOMAIN subs : answer(b)) \/ \E o \in Own : publish(o)
  <2>1. /\ UNCHANGED <<joining, readyState, down, server>>
        /\ preparing # {} \/ promise = "resolved"
    BY <1>6 DEF answer, Answer, publish
  <2>2. subscribed
    BY <1>0, <2>1 DEF Unsubscribed, Registered
  <2>3. up' = up \/ readyState = "OPEN"
    BY <1>6, Answering DEF publish
  <2>4. alive
    BY <1>6 DEF answer, publish
  <2>5. QED
    BY <1>0, <2>1, <2>2, <2>3, <2>4
       DEF Ordered, Unsubscribed, Unopened, Unwired, Connected, Registered, joining, server
<1>7. CASE ServerTakes
  <2>1. up # <<>> /\ up' = Tail(up) /\ UNCHANGED <<joining, readyState, subscriptions>> /\ alive
    BY <1>7 DEF ServerTakes
  <2>2. Connected /\ Connected' /\ readyState \notin {"none", "CONNECTING"}
    BY <1>0, <2>1 DEF Unwired, Connected, Unopened, joining
  <2>3. Registered'
    BY <1>0, <2>1 DEF Registered, joining
  <2>4. subscribed'
    <3>1. CASE subscribed
      BY <1>7, <3>1 DEF ServerTakes, server, Appears
    <3>2. CASE ~subscribed
      <4>1. up = Opening
        BY <1>0, <2>1, <3>2 DEF Unsubscribed
      <4>2. Head(up) = SubscribeSession
        BY <4>1 DEF Opening
      <4>3. /\ Head(up) # Create /\ Head(up) # Read /\ \A s : Head(up) # streams_create(s)
            /\ \A s, b : /\ Head(up) # subscribers_create(s, b)
                         /\ Head(up) # subscribers_answer(s, b, "answer")
        BY <4>2, UpMethods
      <4>4. QED
        BY <1>7, <4>3 DEF ServerTakes
    <3>3. QED
      BY <3>1, <3>2
  <2>5. QED
    BY <2>1, <2>2, <2>3, <2>4 DEF Ordered, Unsubscribed, Unopened, Unwired
<1>8. ASSUME NEW s \in Streams, RemotePublishes(s) \/ StreamEnds(s) PROVE Ordered'
  <2>1. UNCHANGED <<joining, readyState, subscriptions, up, subscribed>> /\ alive
    BY <1>8 DEF RemotePublishes, StreamEnds, Seen
  <2>2. down' = down \/ (subscribed /\ Connected)
    BY <1>8, <2>1 DEF RemotePublishes, StreamEnds, Appears, Notify, Connected
  <2>3. QED
    BY <1>0, <2>1, <2>2
       DEF Ordered, Unsubscribed, Unopened, Unwired, Connected, Registered, joining, subscriptions
<1>9. CASE UNCHANGED vars
  BY <1>0, <1>9
     DEF vars, Ordered, Unsubscribed, Unopened, Unwired, Connected, Registered, joining, subscriptions, server
<1>10. QED
  BY <1>1, <1>2, <1>3, <1>4, <1>5, <1>6, <1>7, <1>8, <1>9 DEF Next, OnMessage, Continuation, OtherEvent, Streams

-----------------------------------------------------------------------------
\* What a step may do to the wire to the server.
LEMMA UpSteps ==
    ASSUME SessionIInv, JoinIInv, [Next]_vars
    PROVE  \/ up' = up
           \/ up' = <<>>
           \/ Open /\ up = <<>> /\ up' = Opening
           \/ ReadSession /\ readyState = "OPEN" /\ up' = Append(up, Read)
           \/ (OnStreamCreated \/ AnnounceSnapshot) /\ \E q \in Seq(Streams) : Announce(q)
           \/ \E b \in DOMAIN subs :
                 answer(b) /\ up' = Append(up, subscribers_answer(streamId, b, "answer"))
           \/ \E o \in Own, x \in Streams : publish(o) /\ up' = Append(up, streams_create(x))
           \/ ServerTakes /\ up # <<>> /\ up' = Tail(up)
<1>0. up \in Seq(UpMessage)
  BY DEF JoinIInv
<1>1. CASE Open
  <2>1. up' = up \o Opening /\ up = <<>>
    BY <1>1 DEF Open, JoinIInv, Ordered, Unopened
  <2>2. <<>> \o Opening = Opening
    BY DEF Opening
  <2>3. QED
    BY <1>1, <2>1, <2>2
<1>2. CASE ReadSession
  <2>1. up' = Sent(<<Read>>) /\ Read \in UpMessage
    BY <1>2, UpMethods DEF ReadSession
  <2>2. QED
    BY <1>0, <1>2, <2>1, Sending
<1>3. CASE OnStreamCreated \/ AnnounceSnapshot
  BY <1>3, Announced
<1>4. ASSUME NEW b \in DOMAIN subs, answer(b)
      PROVE  up' = up \/ (answer(b) /\ up' = Append(up, subscribers_answer(streamId, b, "answer")))
  BY <1>4, Answering
<1>5. ASSUME NEW o \in Own, publish(o)
      PROVE  \E x \in Streams : publish(o) /\ up' = Append(up, streams_create(x))
  BY <1>5, Publishing
<1>6. CASE ServerTakes
  BY <1>6 DEF ServerTakes
<1>7. CASE connect \/ disconnect \/ AnvilAnswers \/ CreateTimeout \/ ReadTimeout \/ OnStreamDeleted
           \/ OnOffer \/ OnCreateReply \/ OnReadReply \/ Closed \/ SocketError \/ UNCHANGED vars
  BY <1>7 DEF connect, disconnect, AnvilAnswers, CreateTimeout, ReadTimeout, OnStreamDeleted, OnOffer,
              OnCreateReply, OnReadReply, Closed, SocketError, vars
<1>8. ASSUME NEW s \in Streams, RemotePublishes(s) \/ StreamEnds(s) PROVE up' = up
  BY <1>8 DEF RemotePublishes, StreamEnds
<1>9. QED
  BY <1>1, <1>2, <1>3, <1>4, <1>5, <1>6, <1>7, <1>8 DEF Next, OnMessage, Continuation, OtherEvent, Streams

\* What a step may do to the wire from the server, and to the session.
LEMMA DownSteps ==
    ASSUME SessionIInv, JoinIInv, [Next]_vars
    PROVE  \/ down' = down /\ UNCHANGED <<streams, past>>
           \/ (Closed \/ SocketError) /\ down' = <<>> /\ UNCHANGED <<streams, past>>
           \/ OnMessage /\ Takes /\ UNCHANGED server
           \/ \E s \in Streams : s \notin past /\ Appears(s) /\ (down' = down \/ down' = Append(down, Created(s)))
           \/ \E s \in Streams : StreamEnds(s) /\ (down' = down \/ down' = Append(down, Deleted(s)))
           \/ ServerTakes /\ UNCHANGED server /\ Head(up) = Create /\ down' = Append(down, Reply(Create, Empty))
           \/ /\ ServerTakes /\ UNCHANGED server /\ Head(up) = Read
              /\ down' = Append(down, Reply(Read, [streams |-> streams]))
           \/ \E s \in Streams, b \in DOMAIN subs :
                 /\ ServerTakes /\ Head(up) = subscribers_create(s, b) /\ UNCHANGED <<streams, past>>
                 /\ down' = Append(down, Offer(s, b))
<1>1. CASE OnMessage
  BY <1>1, Handlers
<1>2. CASE ServerTakes
  <2>1. ASSUME NEW s \in Streams, s \notin past, Appears(s)
        PROVE  down' = down \/ down' = Append(down, Created(s))
    BY <2>1 DEF Appears, Notify
  <2>2. QED
    BY <1>2, <2>1 DEF ServerTakes, server
<1>3. ASSUME NEW s \in Remote, RemotePublishes(s)
      PROVE  s \notin past /\ Appears(s) /\ (down' = down \/ down' = Append(down, Created(s)))
  BY <1>3 DEF RemotePublishes, Appears, Notify
<1>4. ASSUME NEW s \in Streams, StreamEnds(s)
      PROVE  down' = down \/ down' = Append(down, Deleted(s))
  BY <1>4 DEF StreamEnds, Notify
<1>5. CASE \/ connect \/ disconnect \/ AnvilAnswers \/ CreateTimeout \/ ReadTimeout \/ Open \/ Continuation
           \/ (\E b \in DOMAIN subs : answer(b)) \/ (\E o \in Own : publish(o)) \/ UNCHANGED vars
  BY <1>5 DEF connect, disconnect, AnvilAnswers, CreateTimeout, ReadTimeout, Open, answer, publish, vars,
              server, Continuation, ReadSession, AnnounceSnapshot
<1>6. CASE Closed \/ SocketError
  BY <1>6 DEF Closed, SocketError, server
<1>7. QED
  BY <1>1, <1>2, <1>3, <1>4, <1>5, <1>6 DEF Next, OtherEvent, Streams

\* No read of the session is added to those that were there.
LEMMA ReadsOnTheWayUp ==
    ASSUME SessionIInv, JoinIInv, [Next]_vars, ~ReadSession
    PROVE  /\ \A i, j \in 1..Len(up') : up'[i] = Read /\ up'[j] = Read => i = j
           /\ Has(up', Read) => Has(up, Read)
           /\ ServerTakes /\ Head(up) = Read => ~Has(up', Read)
<1>0. /\ up \in Seq(UpMessage) /\ subs \in Seq(Streams)
      /\ \A i, j \in 1..Len(up) : up[i] = Read /\ up[j] = Read => i = j
  BY DEF JoinIInv, OneRead, SessionIInv, TypeOK, SubscriptionsTypeOK
<1>1. CASE ServerTakes
  <2>0. up # <<>> /\ up' = Tail(up)
    BY <1>1 DEF ServerTakes
  <2>1. /\ Head(up) = up[1] /\ 1 \in 1..Len(up)
        /\ \A i \in 1..Len(up') : up'[i] = up[i + 1] /\ i + 1 \in 1..Len(up) /\ 1 < i + 1
        /\ \A x : Has(up, x) <=> Has(up', x) \/ Head(up) = x
    BY <1>0, <1>1, UpShrinks
  <2>2. \A i, j \in 1..Len(up') : up'[i] = Read /\ up'[j] = Read => i + 1 = j + 1
    BY <1>0, <2>1
  <2>3. Head(up) = Read => ~Has(up', Read)
    <3>1. SUFFICES ASSUME up[1] = Read, NEW i \in 1..Len(up'), up'[i] = Read PROVE FALSE
      BY <2>1 DEF Has
    <3>2. i + 1 = 1 /\ 1 < i + 1
      BY <1>0, <2>1, <3>1
    <3>3. QED
      BY <3>2
  <2>4. \A i, j \in 1..Len(up') : i + 1 = j + 1 => i = j
    OBVIOUS
  <2>5. QED
    BY <2>1, <2>2, <2>3, <2>4
<1> SUFFICES ASSUME ~ServerTakes
             PROVE  \A i \in 1..Len(up') : up'[i] = Read => i \in 1..Len(up) /\ up[i] = Read
  BY <1>0, <1>1 DEF Has
<1>3. ASSUME NEW m \in UpMessage, m # Read, up' = Append(up, m)
      PROVE  \A i \in 1..Len(up') : up'[i] = Read => i \in 1..Len(up) /\ up[i] = Read
  BY <1>0, <1>3, Longer
<1>4. ASSUME NEW q \in Seq(Streams), Announce(q)
      PROVE  \A i \in 1..Len(up') : up'[i] = Read => i \in 1..Len(up) /\ up[i] = Read
  <2>1. \A s, b : subscribers_create(s, b) # Read
    BY UpMethods
  <2>2. QED
    BY <1>0, <1>4, <2>1, Announcing DEF Announce
<1>5. CASE up' = Opening
  <2>1. Len(Opening) = 2 /\ Opening[1] = SubscribeSession /\ Opening[2] = Create
    BY DEF Opening
  <2>2. \A i \in 1..Len(up') : up'[i] # Read
    BY <1>5, <2>1, UpMethods
  <2>3. QED
    BY <2>2
<1>6. ASSUME NEW b \in DOMAIN subs, answer(b), up' = Append(up, subscribers_answer(streamId, b, "answer"))
      PROVE  \A i \in 1..Len(up') : up'[i] = Read => i \in 1..Len(up) /\ up[i] = Read
  <2>1. subscribers_answer(streamId, b, "answer") \in UpMessage
    BY <1>6, Answering
  <2>2. subscribers_answer(streamId, b, "answer") # Read
    BY UpMethods
  <2>3. QED
    BY <1>3, <1>6, <2>1, <2>2
<1>7. ASSUME NEW x \in Streams, up' = Append(up, streams_create(x))
      PROVE  \A i \in 1..Len(up') : up'[i] = Read => i \in 1..Len(up) /\ up[i] = Read
  BY <1>3, <1>7, UpMethods
<1>8. CASE up' = up
  BY <1>8
<1>9. CASE up' = <<>>
  BY <1>9, NoneLeft
<1>10. QED
  BY <1>4, <1>5, <1>6, <1>7, <1>8, <1>9, UpSteps

\* A snapshot comes because a read was served, and it is the only one.
LEMMA SnapshotsOnTheWayDown ==
    ASSUME SessionIInv, JoinIInv, [Next]_vars
    PROVE  /\ \A i, j \in 1..Len(down') : IsSnapshot(down'[i]) /\ IsSnapshot(down'[j]) => i = j
           /\ SnapshotComes' => SnapshotComes \/ (ServerTakes /\ Head(up) = Read)
           /\ Takes /\ IsSnapshot(Head(down)) => ~SnapshotComes'
<1>0. /\ up \in Seq(UpMessage) /\ subs \in Seq(Streams) /\ down \in Seq(DownMessage) /\ streams \subseteq Streams
      /\ \A i, j \in 1..Len(down) : IsSnapshot(down[i]) /\ IsSnapshot(down[j]) => i = j
      /\ Has(up, Read) => ~SnapshotComes
  BY DEF JoinIInv, OneRead, SessionIInv, TypeOK, SubscriptionsTypeOK, WireIInv
<1>1. CASE Takes
  <2>1. /\ Head(down) = down[1] /\ 1 \in 1..Len(down)
        /\ \A i \in 1..Len(down') : down'[i] = down[i + 1] /\ i + 1 \in 1..Len(down) /\ 1 < i + 1
    BY <1>0, <1>1, DownShrinks
  <2>2. \A i, j \in 1..Len(down') : IsSnapshot(down'[i]) /\ IsSnapshot(down'[j]) => i + 1 = j + 1
    BY <1>0, <2>1
  <2>3. \A i, j \in 1..Len(down') : i + 1 = j + 1 => i = j
    OBVIOUS
  <2>4. \A i \in 1..Len(down') : IsSnapshot(down'[i]) => i + 1 \in 1..Len(down) /\ IsSnapshot(down[i + 1])
    BY <2>1
  <2>5. SnapshotComes' => SnapshotComes
    BY <2>4 DEF SnapshotComes
  <2>6. ASSUME IsSnapshot(Head(down)), NEW i \in 1..Len(down'), IsSnapshot(down'[i]) PROVE FALSE
    <3>1. i + 1 = 1 /\ 1 < i + 1
      BY <1>0, <2>1, <2>4, <2>6
    <3>2. QED
      BY <3>1
  <2>7. QED
    BY <2>2, <2>3, <2>5, <2>6 DEF SnapshotComes
<1> SUFFICES ASSUME ~Takes
             PROVE  /\ \A i, j \in 1..Len(down') : IsSnapshot(down'[i]) /\ IsSnapshot(down'[j]) => i = j
                    /\ SnapshotComes' => SnapshotComes \/ (ServerTakes /\ Head(up) = Read)
  BY <1>1
<1>2. ASSUME NEW m \in DownMessage, ~IsSnapshot(m), down' = Append(down, m)
      PROVE  /\ \A i, j \in 1..Len(down') : IsSnapshot(down'[i]) /\ IsSnapshot(down'[j]) => i = j
             /\ SnapshotComes' => SnapshotComes
  <2>1. \A i \in 1..Len(down') : IsSnapshot(down'[i]) => i \in 1..Len(down) /\ IsSnapshot(down[i])
    BY <1>0, <1>2, Longer
  <2>2. QED
    BY <1>0, <2>1 DEF SnapshotComes
<1>3. ASSUME NEW S \in SUBSET Streams, ServerTakes, Head(up) = Read,
             down' = Append(down, Reply(Read, [streams |-> S]))
      PROVE  \A i, j \in 1..Len(down') : IsSnapshot(down'[i]) /\ IsSnapshot(down'[j]) => i = j
  <2>1. Has(up, Read)
    BY <1>0, <1>3, UpShrinks
  <2>2. \A i \in 1..Len(down) : ~IsSnapshot(down[i])
    BY <1>0, <2>1 DEF SnapshotComes
  <2>3. Reply(Read, [streams |-> S]) \in DownMessage
    BY ReadReplySays
  <2>4. \A i \in 1..Len(down') : IsSnapshot(down'[i]) => i = Len(down) + 1
    BY <1>0, <1>3, <2>2, <2>3, Longer
  <2>5. QED
    BY <2>4
<1>4. CASE down' = down
  BY <1>0, <1>4 DEF SnapshotComes
<1>5. CASE down' = <<>>
  BY <1>5, NoneLeft DEF SnapshotComes
<1>6. \A s \in Streams : /\ Created(s) \in DownMessage /\ ~IsSnapshot(Created(s))
                         /\ Deleted(s) \in DownMessage /\ ~IsSnapshot(Deleted(s))
  BY DownKinds DEF IsSnapshot
<1>7. Reply(Create, Empty) \in DownMessage /\ ~IsSnapshot(Reply(Create, Empty))
  BY DownKinds, CreateReplySays
<1>8. \A s \in Streams, b \in DOMAIN subs : Offer(s, b) \in DownMessage /\ ~IsSnapshot(Offer(s, b))
  BY <1>0, DownKinds, OfferSays DEF IsSnapshot
<1>9. QED
  BY <1>0, <1>2, <1>3, <1>4, <1>5, <1>6, <1>7, <1>8, DownSteps

\* What a step may do to the read.
LEMMA ReadSteps ==
    ASSUME SessionIInv, JoinIInv, [Next]_vars
    PROVE  \/ read' = read
           \/ ReadSession /\ read = "none" /\ read' \in {"pending", "lost"}
           \/ OnReadReply /\ Takes /\ read = "pending" /\ read' = "replied" /\ IsSnapshot(Head(down))
           \/ AnnounceSnapshot /\ read = "replied" /\ read' = "answered"
           \/ ReadTimeout /\ read = "pending" /\ read' = "lost"
<1>1. CASE ReadSession
  BY <1>1 DEF ReadSession, JoinIInv, Ordered, Registered
<1>2. CASE OnReadReply
  BY <1>2 DEF OnReadReply, TakesReply, IsSnapshot, Ignored
<1>3. CASE ReadTimeout
  BY <1>3 DEF ReadTimeout
<1>4. CASE AnnounceSnapshot
  BY <1>4 DEF AnnounceSnapshot
<1>5. CASE OnCreateReply \/ OnStreamCreated \/ OnStreamDeleted \/ OnOffer
  BY <1>5 DEF OnCreateReply, OnStreamCreated, OnStreamDeleted, OnOffer, Ignored
<1>6. CASE connect \/ disconnect \/ AnvilAnswers \/ Open \/ Closed \/ SocketError \/ CreateTimeout
           \/ UNCHANGED vars
  BY <1>6 DEF connect, disconnect, AnvilAnswers, Open, Closed, SocketError, CreateTimeout, vars, joining
<1>7. CASE ServerTakes \/ (\E b \in DOMAIN subs : answer(b)) \/ (\E s \in Remote : RemotePublishes(s))
           \/ (\E o \in Own : publish(o)) \/ (\E s \in Streams : StreamEnds(s))
  BY <1>7 DEF ServerTakes, answer, RemotePublishes, publish, StreamEnds, joining
<1>8. QED
  BY <1>1, <1>2, <1>3, <1>4, <1>5, <1>6, <1>7 DEF Next, OnMessage, Continuation, OtherEvent

LEMMA OneReadStays ==
    ASSUME SessionIInv, JoinIInv, [Next]_vars
    PROVE  OneRead'
<1>0. /\ up \in Seq(UpMessage)
      /\ Has(up, Read) => ~SnapshotComes
      /\ read \in {"none", "replied", "answered"} => ~Has(up, Read) /\ ~SnapshotComes
      /\ read = "none" <=> create # "answered"
  BY DEF JoinIInv, OneRead, Ordered, Registered
<1>1. /\ \A i, j \in 1..Len(down') : IsSnapshot(down'[i]) /\ IsSnapshot(down'[j]) => i = j
      /\ SnapshotComes' => SnapshotComes \/ (ServerTakes /\ Head(up) = Read)
      /\ Takes /\ IsSnapshot(Head(down)) => ~SnapshotComes'
  BY SnapshotsOnTheWayDown
<1>2. ServerTakes /\ Head(up) = Read => Has(up, Read)
  BY <1>0, UpShrinks
<1>3. CASE ReadSession
  <2>1. read = "none" /\ ~Has(up, Read) /\ ~SnapshotComes
    BY <1>0, <1>3 DEF ReadSession
  <2>2. ~SnapshotComes'
    BY <1>1, <1>2, <2>1
  <2>3. read' \in {"pending", "lost"} /\ (up' = up \/ up' = Append(up, Read))
    <3>1. up' = Sent(<<Read>>) /\ read' \in {"pending", "lost"}
      BY <1>3 DEF ReadSession
    <3>2. QED
      BY <1>0, <3>1, Sending, UpMethods
  <2>4. \A i, j \in 1..Len(up') : up'[i] = Read /\ up'[j] = Read => i = j
    <3>1. CASE up' = up
      BY <2>1, <3>1 DEF Has
    <3>2. CASE up' = Append(up, Read)
      <4>1. \A i \in 1..Len(up') : up'[i] = Read => i = Len(up) + 1
        BY <1>0, <2>1, <3>2, Longer, UpMethods DEF Has
      <4>2. QED
        BY <4>1
    <3>3. QED
      BY <2>3, <3>1, <3>2
  <2>5. QED
    BY <1>1, <2>2, <2>3, <2>4 DEF OneRead
<1>4. CASE ~ReadSession
  <2>1. /\ \A i, j \in 1..Len(up') : up'[i] = Read /\ up'[j] = Read => i = j
        /\ Has(up', Read) => Has(up, Read)
        /\ ServerTakes /\ Head(up) = Read => ~Has(up', Read)
    BY <1>4, ReadsOnTheWayUp
  <2>2. Has(up', Read) => ~SnapshotComes'
    BY <1>0, <1>1, <2>1
  <2>3. read' \in {"none", "replied", "answered"} => ~Has(up', Read) /\ ~SnapshotComes'
    <3>1. CASE read' = read
      BY <1>0, <1>1, <1>2, <2>1, <3>1
    <3>2. CASE Takes /\ read' = "replied" /\ IsSnapshot(Head(down))
      <4>1. SnapshotComes
        <5>1. Head(down) = down[1] /\ 1 \in 1..Len(down)
          BY <3>2, DownShrinks DEF SessionIInv, WireIInv
        <5>2. QED
          BY <3>2, <5>1 DEF SnapshotComes
      <4>2. QED
        BY <1>0, <1>1, <2>1, <3>2, <4>1
    <3>3. CASE read' \in {"pending", "lost"}
      BY <3>3
    <3>4. CASE read = "replied"
      BY <1>0, <1>1, <1>2, <2>1, <3>4
    <3>5. QED
      BY <1>4, <3>1, <3>2, <3>3, <3>4, ReadSteps
  <2>4. QED
    BY <1>1, <2>1, <2>2, <2>3 DEF OneRead
<1>5. QED
  BY <1>3, <1>4

-----------------------------------------------------------------------------
\* What a message announces.
LEMMA AnnouncedByName ==
    /\ \A s \in Streams : \A r : Announces(Created(s), r) <=> r = s
    /\ \A S \in SUBSET Streams : \A r : Announces(Reply(Read, [streams |-> S]), r) <=> r \in S
    /\ \A s \in Streams : Ends(Deleted(s), s)
<1>1. ASSUME NEW s \in Streams PROVE Announces(Created(s), s) /\ Ends(Deleted(s), s)
  BY DownKinds DEF Announces, Ends
<1>2. ASSUME NEW S \in SUBSET Streams, NEW r \in S PROVE Announces(Reply(Read, [streams |-> S]), r)
  <2>1. /\ IsSnapshot(Reply(Read, [streams |-> S]))
        /\ Reply(Read, [streams |-> S]).content.streams = S
    BY DownKinds
  <2>2. QED
    BY <2>1 DEF Announces, IsSnapshot
<1>3. QED
  BY <1>1, <1>2, CreatedSays, ReadReplySays

\* The streams that are subscribed to are those that the event or the snapshot announces.
LEMMA Told ==
    ASSUME SessionIInv, JoinIInv, OnStreamCreated \/ AnnounceSnapshot
    PROVE  \/ OnStreamCreated /\ UNCHANGED <<view, subscriptions, up>> /\ Stream \in Own
           \/ \E q \in Seq(Streams) :
                 /\ Announce(q)
                 /\ \A i \in 1..Len(q) : /\ q[i] \in Streams \ Own
                                         /\ OnStreamCreated => q[i] = Stream
                                         /\ AnnounceSnapshot => q[i] \in snapshot
                 /\ OnStreamCreated => \E i \in 1..Len(q) : q[i] = Stream
                 /\ AnnounceSnapshot => \A s \in snapshot : \E i \in 1..Len(q) : q[i] = s
<1>1. CASE OnStreamCreated
  <2>1. ~AnnounceSnapshot
    BY <1>1 DEF OnStreamCreated, AnnounceSnapshot
  <2>2. Stream \in Streams
    BY <1>1, HeadIs DEF OnStreamCreated, TakesEvent
  <2>3. ASSUME NEW q, q = <<Stream>> PROVE /\ \A i \in 1..Len(q) : q[i] = Stream
                                         /\ \E i \in 1..Len(q) : q[i] = Stream
    <3>1. Len(q) = 1 /\ q[1] = Stream /\ 1 \in 1..Len(q) /\ \A i \in 1..Len(q) : i = 1
      BY <2>3
    <3>2. QED
      BY <3>1
  <2>4. QED
    BY <1>1, <2>1, <2>2, <2>3, Announced
<1>2. CASE AnnounceSnapshot
  <2>1. ~OnStreamCreated
    BY <1>2 DEF OnStreamCreated, AnnounceSnapshot
  <2>2. PICK q \in Seq(Streams) : Announce(q) /\ q \in Lists(snapshot)
    BY <1>2, <2>1, Announced
  <2>3. {q[i] : i \in DOMAIN q} = snapshot /\ DOMAIN q = 1..Len(q)
    BY <2>2 DEF Lists
  <2>4. snapshot \cap Own = {} /\ snapshot \subseteq Streams
    BY DEF JoinIInv, OwnLater, SessionIInv, TypeOK
  <2>5. QED
    BY <2>1, <2>2, <2>3, <2>4
<1>3. QED
  BY <1>1, <1>2

\* The picture changes when an event is taken, and when the snapshot is announced.
LEMMA ViewSteps ==
    ASSUME SessionIInv, JoinIInv, [Next]_vars
    PROVE  \/ UNCHANGED <<view, subs>>
           \/ /\ OnStreamDeleted /\ Takes /\ Stream \in Streams /\ Head(down) = Deleted(Stream)
              /\ view' = view \ {Stream} /\ subs' = subs
           \/ (OnStreamCreated \/ AnnounceSnapshot) /\ \E q \in Seq(Streams) : Announce(q)
<1>1. CASE OnStreamDeleted
  <2>1. Takes /\ view' = view \ {Stream} /\ subs' = subs
    BY <1>1 DEF OnStreamDeleted, TakesEvent, Kept, subscriptions
  <2>2. QED
    BY <1>1, <2>1, HeadIs
<1>2. CASE OnStreamCreated \/ AnnounceSnapshot
  BY <1>2, Told DEF subscriptions
<1>3. CASE connect \/ disconnect \/ AnvilAnswers \/ Open \/ Closed \/ SocketError \/ OnCreateReply
           \/ OnReadReply \/ OnOffer \/ CreateTimeout \/ ReadTimeout \/ ServerTakes \/ ReadSession
           \/ UNCHANGED vars
  BY <1>3 DEF connect, disconnect, AnvilAnswers, Open, Closed, SocketError, OnCreateReply, OnOffer, OnReadReply,
              PrepareAnswer, CreateTimeout, ReadTimeout, ServerTakes, ReadSession, vars, joining, subscriptions
<1>4. CASE (\E b \in DOMAIN subs : answer(b)) \/ (\E s \in Remote : RemotePublishes(s))
           \/ (\E o \in Own : publish(o)) \/ (\E s \in Streams : StreamEnds(s))
  BY <1>4 DEF answer, Answer, RemotePublishes, publish, Publish, StreamEnds, joining, subscriptions
<1>5. QED
  BY <1>1, <1>2, <1>3, <1>4 DEF Next, OnMessage, Continuation, OtherEvent

\* A stream appears because another client publishes it, or because this one did.
LEMMA PastSteps ==
    ASSUME SessionIInv, JoinIInv, [Next]_vars
    PROVE  \/ past' = past
           \/ \E s \in Streams : /\ past' = past \cup {s}
                                 /\ s \in Remote \/ (ServerTakes /\ Head(up) = streams_create(s))
<1>1. CASE ServerTakes
  BY <1>1 DEF ServerTakes, server, Appears
<1>2. ASSUME NEW s \in Remote, RemotePublishes(s)
      PROVE  s \in Streams /\ past' = past \cup {s}
  BY <1>2 DEF RemotePublishes, Appears, Streams
<1>3. CASE connect \/ disconnect \/ AnvilAnswers \/ Open \/ Closed \/ SocketError \/ OnCreateReply
           \/ OnStreamCreated \/ OnStreamDeleted \/ OnReadReply \/ OnOffer \/ CreateTimeout \/ ReadTimeout
           \/ ReadSession \/ AnnounceSnapshot \/ UNCHANGED vars
  BY <1>3 DEF connect, disconnect, AnvilAnswers, Open, Closed, SocketError, OnCreateReply, OnStreamCreated,
              OnStreamDeleted, OnReadReply, OnOffer, CreateTimeout, ReadTimeout, ReadSession, AnnounceSnapshot,
              vars, server
<1>4. CASE (\E b \in DOMAIN subs : answer(b)) \/ (\E o \in Own : publish(o))
           \/ (\E s \in Streams : StreamEnds(s))
  BY <1>4 DEF answer, publish, StreamEnds, server
<1>5. QED
  BY <1>1, <1>2, <1>3, <1>4 DEF Next, OnMessage, Continuation, OtherEvent

LEMMA NoCreations ==
    /\ Read \notin Creations /\ Create \notin Creations /\ SubscribeSession \notin Creations
    /\ \A s, b : subscribers_create(s, b) \notin Creations
    /\ \A s, b : subscribers_answer(s, b, "answer") \notin Creations
    /\ \A m \in Creations : m # Read
<1>1. \A m \in Creations : \E s \in Streams : m = streams_create(s)
  BY DEF Creations
<1>2. \A m \in Creations : m.method = "create"
  BY <1>1, UpMethods
<1>3. QED
  BY <1>1, <1>2, UpMethods

\* A stream of this client is created after the read has been sent.
LEMMA CreationsStayLater ==
    ASSUME SessionIInv, JoinIInv, [Next]_vars
    PROVE  \A i \in 1..Len(up') : up'[i] \in Creations =>
               read' # "none" /\ \A j \in 1..Len(up') : up'[j] = Read => j < i
<1>0. /\ up \in Seq(UpMessage) /\ subs \in Seq(Streams)
      /\ \A i \in 1..Len(up) : up[i] \in Creations =>
             read # "none" /\ \A j \in 1..Len(up) : up[j] = Read => j < i
      /\ read = "none" <=> create # "answered"
      /\ promise = "resolved" => create = "answered"
  BY DEF JoinIInv, OwnLater, Ordered, Registered, SessionIInv, TypeOK, SubscriptionsTypeOK
<1>1. read # "none" => read' # "none"
  BY ReadSteps
<1>2. ASSUME \A i \in 1..Len(up') : up'[i] \in Creations \/ up'[i] = Read =>
                 i \in 1..Len(up) /\ up[i] = up'[i]
      PROVE  \A i \in 1..Len(up') : up'[i] \in Creations =>
                 read' # "none" /\ \A j \in 1..Len(up') : up'[j] = Read => j < i
  BY <1>0, <1>1, <1>2
<1>3. ASSUME NEW m \in UpMessage, m # Read, m \notin Creations, up' = Append(up, m)
      PROVE  \A i \in 1..Len(up') : up'[i] \in Creations \/ up'[i] = Read =>
                 i \in 1..Len(up) /\ up[i] = up'[i]
  BY <1>0, <1>3, Longer
<1>4. CASE ServerTakes
  <2>1. \A i \in 1..Len(up') : up'[i] = up[i + 1] /\ i + 1 \in 1..Len(up)
    BY <1>0, <1>4, UpShrinks
  <2>2. \A i \in 1..Len(up') : up'[i] \in Creations =>
            read # "none" /\ \A j \in 1..Len(up') : up'[j] = Read => j + 1 < i + 1
    BY <1>0, <2>1
  <2>3. \A i, j \in 1..Len(up') : j + 1 < i + 1 => j < i
    OBVIOUS
  <2>4. QED
    BY <1>1, <2>2, <2>3
<1>5. CASE ReadSession /\ up' = Append(up, Read)
  <2>1. \A i \in 1..Len(up) : up[i] \notin Creations
    BY <1>0, <1>5 DEF ReadSession
  <2>2. \A i \in 1..Len(up') : up'[i] \notin Creations
    BY <1>0, <1>5, <2>1, Longer, UpMethods, NoCreations
  <2>3. QED
    BY <2>2
<1>6. ASSUME NEW o \in Own, NEW x \in Streams, publish(o), up' = Append(up, streams_create(x))
      PROVE  \A i \in 1..Len(up') : up'[i] \in Creations =>
                 read' # "none" /\ \A j \in 1..Len(up') : up'[j] = Read => j < i
  <2>1. read # "none"
    BY <1>0, <1>6 DEF publish
  <2>2. /\ Len(up) \in Nat
        /\ \A i \in 1..Len(up) : up'[i] = up[i] /\ i < Len(up) + 1
        /\ \A i \in 1..Len(up') : i \in 1..Len(up) \/ i = Len(up) + 1
        /\ up'[Len(up) + 1] = streams_create(x)
    BY <1>0, <1>6, Longer, UpMethods
  <2>3. streams_create(x) # Read
    BY UpMethods, NoCreations
  <2>4. ASSUME NEW i \in 1..Len(up'), up'[i] \in Creations, NEW j \in 1..Len(up'), up'[j] = Read
        PROVE  j < i
    <3>1. j \in 1..Len(up) /\ up[j] = Read /\ j < Len(up) + 1
      BY <2>2, <2>3, <2>4
    <3>2. CASE i \in 1..Len(up)
      <4>1. up[i] \in Creations
        BY <2>2, <2>4, <3>2
      <4>2. QED
        BY <1>0, <3>1, <3>2, <4>1
    <3>3. QED
      BY <2>2, <3>1, <3>2
  <2>5. QED
    BY <1>1, <2>1, <2>4
<1>7. ASSUME NEW q \in Seq(Streams), Announce(q)
      PROVE  \A i \in 1..Len(up') : up'[i] \in Creations \/ up'[i] = Read =>
                 i \in 1..Len(up) /\ up[i] = up'[i]
  <2>1. \A s, b : subscribers_create(s, b) # Read /\ subscribers_create(s, b) \notin Creations
    BY UpMethods, NoCreations
  <2>2. /\ \A i \in 1..Len(up) : up'[i] = up[i]
        /\ \A i \in 1..Len(up') :
              i \in 1..Len(up) \/ \E s \in Streams, b \in Nat : up'[i] = subscribers_create(s, b)
    BY <1>0, <1>7, Announcing DEF Announce
  <2>3. QED
    BY <2>1, <2>2
<1>8. CASE up' = Opening
  <2>1. Len(Opening) = 2 /\ Opening[1] = SubscribeSession /\ Opening[2] = Create
    BY DEF Opening
  <2>2. \A i \in 1..Len(up') : up'[i] \notin Creations
    BY <1>8, <2>1, NoCreations
  <2>3. QED
    BY <2>2
<1>9. ASSUME NEW b \in DOMAIN subs, answer(b), up' = Append(up, subscribers_answer(streamId, b, "answer"))
      PROVE  \A i \in 1..Len(up') : up'[i] \in Creations \/ up'[i] = Read =>
                 i \in 1..Len(up) /\ up[i] = up'[i]
  <2>1. subscribers_answer(streamId, b, "answer") \in UpMessage
    BY <1>9, Answering
  <2>2. subscribers_answer(streamId, b, "answer") # Read /\ subscribers_answer(streamId, b, "answer") \notin Creations
    BY UpMethods, NoCreations
  <2>3. QED
    BY <1>3, <1>9, <2>1, <2>2
<1>10. CASE up' = up
  BY <1>2, <1>10
<1>11. CASE up' = <<>>
  BY <1>11, NoneLeft
<1>12. QED
  BY <1>2, <1>4, <1>5, <1>6, <1>7, <1>8, <1>9, <1>10, <1>11, UpSteps

\* A read is on its way because it was, or because nothing of this client is there yet.
LEMMA ReadOnTheWay ==
    ASSUME SessionIInv, JoinIInv, [Next]_vars, read' = "none" \/ Has(up', Read)
    PROVE  read = "none" \/ Has(up, Read)
<1>1. CASE ReadSession
  BY <1>1 DEF ReadSession, JoinIInv, Ordered, Registered
<1>2. CASE ~ReadSession
  BY <1>2, ReadsOnTheWayUp, ReadSteps
<1>3. QED
  BY <1>1, <1>2

\* A snapshot waits from its message to its announcement.
LEMMA SnapshotSteps ==
    ASSUME [Next]_vars
    PROVE  \/ UNCHANGED <<snapshot, read>>
           \/ snapshot' = snapshot /\ (ReadSession \/ ReadTimeout)
           \/ /\ OnReadReply /\ Takes /\ read = "pending" /\ read' = "replied"
              /\ IsSnapshot(Head(down)) /\ snapshot' = Head(down).content.streams
           \/ AnnounceSnapshot /\ snapshot' = {}
<1>1. CASE OnReadReply
  BY <1>1 DEF OnReadReply, TakesReply, IsSnapshot, Ignored
<1>2. CASE ReadSession \/ ReadTimeout
  BY <1>2 DEF ReadSession, ReadTimeout, loop
<1>3. CASE AnnounceSnapshot
  BY <1>3 DEF AnnounceSnapshot
<1>4. CASE OnCreateReply \/ OnStreamCreated \/ OnStreamDeleted \/ OnOffer
  BY <1>4 DEF OnCreateReply, OnStreamCreated, OnStreamDeleted, OnOffer, Ignored
<1>5. CASE connect \/ disconnect \/ AnvilAnswers \/ Open \/ Closed \/ SocketError \/ CreateTimeout
           \/ UNCHANGED vars
  BY <1>5 DEF connect, disconnect, AnvilAnswers, Open, Closed, SocketError, CreateTimeout, vars, joining, loop
<1>6. CASE ServerTakes \/ (\E b \in DOMAIN subs : answer(b)) \/ (\E s \in Remote : RemotePublishes(s))
           \/ (\E o \in Own : publish(o)) \/ (\E s \in Streams : StreamEnds(s))
  BY <1>6 DEF ServerTakes, answer, RemotePublishes, publish, StreamEnds, joining, loop
<1>7. QED
  BY <1>1, <1>2, <1>3, <1>4, <1>5, <1>6 DEF Next, OnMessage, Continuation, OtherEvent

LEMMA OwnStaysLater ==
    ASSUME SessionIInv, JoinIInv, [Next]_vars
    PROVE  OwnLater'
<1>0. /\ up \in Seq(UpMessage) /\ subs \in Seq(Streams) /\ down \in Seq(DownMessage)
      /\ streams \subseteq past /\ past \subseteq Streams
      /\ view \cap Own = {} /\ snapshot \cap Own = {} /\ \A b \in DOMAIN subs : subs[b] \notin Own
      /\ \A i \in 1..Len(down) : IsSnapshot(down[i]) => down[i].content.streams \cap Own = {}
      /\ read = "none" \/ Has(up, Read) => past \cap Own = {}
      /\ \A i \in 1..Len(up) : up[i] \in Creations =>
             read # "none" /\ \A j \in 1..Len(up) : up[j] = Read => j < i
  BY DEF JoinIInv, OwnLater, SessionIInv, TypeOK, SubscriptionsTypeOK, WireIInv
<1>1. view' \cap Own = {} /\ \A b \in DOMAIN subs' : subs'[b] \notin Own
  <2>1. ASSUME OnStreamCreated \/ AnnounceSnapshot
        PROVE  view' \cap Own = {} /\ \A b \in DOMAIN subs' : subs'[b] \notin Own
    <3>1. CASE UNCHANGED <<view, subscriptions>>
      BY <1>0, <3>1 DEF subscriptions
    <3>2. ASSUME NEW q \in Seq(Streams), Announce(q), \A i \in 1..Len(q) : q[i] \notin Own
          PROVE  view' \cap Own = {} /\ \A b \in DOMAIN subs' : subs'[b] \notin Own
      <4>1. /\ DOMAIN subs = 1..Len(subs) /\ DOMAIN subs' = 1..Len(subs')
            /\ \A b \in 1..Len(subs) : subs'[b] = subs[b]
            /\ \A i \in 1..Len(q) : subs'[Len(subs) + i] = q[i]
            /\ \A b \in 1..Len(subs') : b \in 1..Len(subs) \/ \E i \in 1..Len(q) : b = Len(subs) + i
        BY <1>0, <3>2, Announcing DEF Announce
      <4>2. \A b \in DOMAIN subs' : subs'[b] \notin Own
        <5>1. \A b \in 1..Len(subs) : subs'[b] \notin Own
          BY <1>0, <4>1
        <5>2. \A i \in 1..Len(q) : subs'[Len(subs) + i] \notin Own
          BY <3>2, <4>1
        <5>3. QED
          BY <4>1, <5>1, <5>2
      <4>3. view' \cap Own = {}
        <5>1. DOMAIN q = 1..Len(q) /\ view' = view \cup {q[i] : i \in DOMAIN q}
          BY <3>2 DEF Announce
        <5>2. QED
          BY <1>0, <3>2, <5>1
      <4>4. QED
        BY <4>2, <4>3
    <3>3. QED
      BY <2>1, <3>1, <3>2, Told
  <2>2. QED
    BY <1>0, <2>1, ViewSteps
<1>2. \A i \in 1..Len(down') : IsSnapshot(down'[i]) => down'[i].content.streams \cap Own = {}
  <2>1. ASSUME NEW m \in DownMessage, IsSnapshot(m) => m.content.streams \cap Own = {}, down' = Append(down, m)
        PROVE  \A i \in 1..Len(down') : IsSnapshot(down'[i]) => down'[i].content.streams \cap Own = {}
    <3>1. /\ \A i \in 1..Len(down) : down'[i] = down[i]
          /\ \A i \in 1..Len(down') : i \in 1..Len(down) \/ down'[i] = m
      BY <1>0, <2>1, Longer
    <3>2. QED
      BY <1>0, <2>1, <3>1
  <2>2. CASE ServerTakes /\ Head(up) = Read /\ down' = Append(down, Reply(Read, [streams |-> streams]))
    <3>1. Has(up, Read)
      BY <1>0, <2>2, UpShrinks
    <3>2. streams \cap Own = {} /\ streams \in SUBSET Streams
      BY <1>0, <3>1
    <3>3. /\ Reply(Read, [streams |-> streams]) \in DownMessage
          /\ Reply(Read, [streams |-> streams]).content.streams = streams
      BY <3>2, ReadReplySays, DownKinds
    <3>4. QED
      BY <2>1, <2>2, <3>2, <3>3
  <2>3. CASE Takes
    BY <1>0, <2>3, DownShrinks
  <2>4. CASE down' = down
    BY <1>0, <2>4
  <2>5. CASE down' = <<>>
    BY <2>5, NoneLeft
  <2>6. \A s \in Streams : /\ Created(s) \in DownMessage /\ ~IsSnapshot(Created(s))
                           /\ Deleted(s) \in DownMessage /\ ~IsSnapshot(Deleted(s))
    BY DownKinds DEF IsSnapshot
  <2>7. Reply(Create, Empty) \in DownMessage /\ ~IsSnapshot(Reply(Create, Empty))
    BY DownKinds, CreateReplySays
  <2>8. \A s \in Streams, b \in DOMAIN subs : Offer(s, b) \in DownMessage /\ ~IsSnapshot(Offer(s, b))
    BY <1>0, DownKinds, OfferSays DEF IsSnapshot
  <2>9. QED
    BY <2>1, <2>2, <2>3, <2>4, <2>5, <2>6, <2>7, <2>8, DownSteps
<1>3. read' = "none" \/ Has(up', Read) => past' \cap Own = {}
  <2>1. SUFFICES ASSUME read' = "none" \/ Has(up', Read) PROVE past' \cap Own = {}
    OBVIOUS
  <2>2. read = "none" \/ Has(up, Read)
    BY <2>1, ReadOnTheWay
  <2>3. past \cap Own = {}
    BY <1>0, <2>2
  <2>4. ASSUME NEW s \in Streams, ServerTakes, Head(up) = streams_create(s) PROVE FALSE
    <3>1. Head(up) = up[1] /\ 1 \in 1..Len(up) /\ up[1] \in Creations /\ Len(up) \in Nat
      BY <1>0, <2>4, UpShrinks, UpMethods
    <3>2. read # "none" /\ \A j \in 1..Len(up) : up[j] = Read => j < 1
      BY <1>0, <3>1
    <3>3. PICK j \in 1..Len(up) : up[j] = Read
      BY <2>2, <3>2 DEF Has
    <3>4. j < 1
      BY <3>2, <3>3
    <3>5. QED
      BY <3>1, <3>4
  <2>5. QED
    BY <2>3, <2>4, PastSteps, StreamAssumption
<1>4. snapshot' \cap Own = {}
  <2>1. ASSUME OnReadReply, Takes, IsSnapshot(Head(down)), snapshot' = Head(down).content.streams
        PROVE  snapshot' \cap Own = {}
    <3>1. Head(down) = down[1] /\ 1 \in 1..Len(down)
      BY <1>0, <2>1, DownShrinks
    <3>2. QED
      BY <1>0, <2>1, <3>1
  <2>2. QED
    BY <1>0, <2>1, SnapshotSteps
<1>5. QED
  BY <1>1, <1>2, <1>3, <1>4, CreationsStayLater DEF OwnLater

LEMMA FromThePastStays ==
    ASSUME SessionIInv, JoinIInv, [Next]_vars
    PROVE  FromThePast'
<1>0. /\ up \in Seq(UpMessage) /\ subs \in Seq(Streams) /\ down \in Seq(DownMessage)
      /\ streams \subseteq past /\ past \subseteq Streams /\ past \subseteq past'
      /\ snapshot \subseteq past /\ \A b \in DOMAIN subs : subs[b] \in past
      /\ \A s \in Streams : \A i \in 1..Len(down) : Announces(down[i], s) => s \in past
  BY PastSteps DEF JoinIInv, FromThePast, SessionIInv, TypeOK, SubscriptionsTypeOK, WireIInv
<1>1. \A b \in DOMAIN subs' : subs'[b] \in past'
  <2>1. ASSUME OnStreamCreated \/ AnnounceSnapshot
        PROVE  \A b \in DOMAIN subs' : subs'[b] \in past'
    <3>1. CASE UNCHANGED <<view, subscriptions>>
      BY <1>0, <3>1 DEF subscriptions
    <3>2. ASSUME NEW q \in Seq(Streams), Announce(q), \A i \in 1..Len(q) : q[i] \in past
          PROVE  \A b \in DOMAIN subs' : subs'[b] \in past'
      <4>1. /\ DOMAIN subs = 1..Len(subs) /\ DOMAIN subs' = 1..Len(subs')
            /\ \A b \in 1..Len(subs) : subs'[b] = subs[b]
            /\ \A i \in 1..Len(q) : subs'[Len(subs) + i] = q[i]
            /\ \A b \in 1..Len(subs') : b \in 1..Len(subs) \/ \E i \in 1..Len(q) : b = Len(subs) + i
        BY <1>0, <3>2, Announcing DEF Announce
      <4>2. \A b \in 1..Len(subs) : subs'[b] \in past'
        BY <1>0, <4>1
      <4>3. \A i \in 1..Len(q) : subs'[Len(subs) + i] \in past'
        BY <1>0, <3>2, <4>1
      <4>4. QED
        BY <4>1, <4>2, <4>3
    <3>3. OnStreamCreated => Stream \in past
      <4>1. SUFFICES ASSUME OnStreamCreated PROVE Stream \in past
        OBVIOUS
      <4>2. Takes
        BY <4>1 DEF OnStreamCreated, TakesEvent
      <4>3. Stream \in Streams /\ Announces(Head(down), Stream) /\ Head(down) = down[1] /\ 1 \in 1..Len(down)
        BY <1>0, <4>1, <4>2, HeadIs, AnnouncedByName, DownShrinks
      <4>4. QED
        BY <1>0, <4>3
    <3>4. QED
      BY <1>0, <2>1, <3>1, <3>2, <3>3, Told
  <2>2. QED
    BY <1>0, <2>1, ViewSteps
<1>2. \A s \in Streams : \A i \in 1..Len(down') : Announces(down'[i], s) => s \in past'
  <2>1. ASSUME NEW m \in DownMessage, \A s \in Streams : Announces(m, s) => s \in past', down' = Append(down, m)
        PROVE  \A s \in Streams : \A i \in 1..Len(down') : Announces(down'[i], s) => s \in past'
    <3>1. /\ \A i \in 1..Len(down) : down'[i] = down[i]
          /\ \A i \in 1..Len(down') : i \in 1..Len(down) \/ down'[i] = m
      BY <1>0, <2>1, Longer
    <3>2. QED
      BY <1>0, <2>1, <3>1
  <2>2. CASE Takes
    BY <1>0, <2>2, DownShrinks
  <2>3. CASE down' = down
    BY <1>0, <2>3
  <2>4. CASE down' = <<>>
    BY <2>4, NoneLeft
  <2>5. ASSUME NEW s \in Streams, Appears(s), down' = Append(down, Created(s))
        PROVE  \A r \in Streams : \A i \in 1..Len(down') : Announces(down'[i], r) => r \in past'
    <3>1. s \in past'
      BY <2>5 DEF Appears
    <3>2. QED
      BY <2>1, <2>5, <3>1, CreatedSays
  <2>6. ASSUME NEW s \in Streams, down' = Append(down, Deleted(s))
        PROVE  \A r \in Streams : \A i \in 1..Len(down') : Announces(down'[i], r) => r \in past'
    BY <2>1, <2>6, DeletedSays
  <2>7. CASE down' = Append(down, Reply(Create, Empty))
    BY <2>1, <2>7, CreateReplySays
  <2>8. CASE down' = Append(down, Reply(Read, [streams |-> streams]))
    <3>1. streams \in SUBSET Streams
      BY <1>0
    <3>2. QED
      BY <1>0, <2>1, <2>8, <3>1, ReadReplySays
  <2>9. ASSUME NEW s \in Streams, NEW b \in DOMAIN subs, down' = Append(down, Offer(s, b))
        PROVE  \A r \in Streams : \A i \in 1..Len(down') : Announces(down'[i], r) => r \in past'
    <3>1. b \in Nat
      BY <1>0
    <3>2. QED
      BY <2>1, <2>9, <3>1, OfferSays
  <2>10. QED
    BY <2>2, <2>3, <2>4, <2>5, <2>6, <2>7, <2>8, <2>9, DownSteps
<1>3. snapshot' \subseteq past'
  <2>1. ASSUME OnReadReply, Takes, snapshot' = Head(down).content.streams
        PROVE  snapshot' \subseteq past'
    <3>1. Head(down) = down[1] /\ 1 \in 1..Len(down)
      BY <1>0, <2>1, DownShrinks
    <3>2. PICK S \in SUBSET Streams : Head(down) = Reply(Read, [streams |-> S])
      BY <2>1, HeadIs
    <3>3. snapshot' = S
      BY <2>1, <3>2, DownKinds
    <3>4. QED
      BY <1>0, <3>1, <3>2, <3>3, AnnouncedByName
  <2>2. QED
    BY <1>0, <2>1, SnapshotSteps
<1>4. QED
  BY <1>1, <1>2, <1>3 DEF FromThePast

-----------------------------------------------------------------------------
\* The server tells this client of what happens whenever there is something to keep right.
LEMMA Notified ==
    ASSUME SessionIInv, JoinIInv, Connected, known # {} \/ view # {} \/ down # <<>> \/ read # "none"
    PROVE  subscribed /\ \A m : Notify(m) = Append(down, m)
<1>1. read = "none" => snapshot = {}
  BY DEF SessionIInv, WireIInv, Overtaking
<1>2. subscribed
  BY <1>1 DEF JoinIInv, Ordered, Unsubscribed, known
<1>3. QED
  BY <1>2 DEF Notify, Connected

\* The socket is not opened twice.
LEMMA WiredBefore ==
    ASSUME SessionIInv, JoinIInv, [Next]_vars, Connected'
    PROVE  Connected \/ (Open /\ known = {} /\ down = <<>> /\ read = "none")
<1>1. CASE Open
  <2>1. readyState = "CONNECTING"
    BY <1>1 DEF Open
  <2>2. view = {} /\ down = <<>> /\ read = "none"
    BY <2>1 DEF JoinIInv, Ordered, Unopened, Unsubscribed
  <2>3. snapshot = {}
    BY <2>2 DEF SessionIInv, WireIInv, Overtaking
  <2>4. QED
    BY <1>1, <2>2, <2>3 DEF known
<1>2. CASE connect \/ disconnect \/ AnvilAnswers \/ Closed \/ SocketError \/ OnCreateReply
           \/ OnStreamCreated \/ OnStreamDeleted \/ OnReadReply \/ OnOffer \/ CreateTimeout \/ ReadTimeout
           \/ ReadSession \/ AnnounceSnapshot \/ UNCHANGED vars
  BY <1>2 DEF connect, disconnect, AnvilAnswers, Closed, SocketError, OnCreateReply,
              OnStreamCreated, OnStreamDeleted, OnReadReply, OnOffer, CreateTimeout, ReadTimeout,
              ReadSession, AnnounceSnapshot, vars, joining, Connected
<1>3. CASE ServerTakes \/ (\E b \in DOMAIN subs : answer(b)) \/ (\E s \in Remote : RemotePublishes(s))
           \/ (\E o \in Own : publish(o)) \/ (\E s \in Streams : StreamEnds(s))
  BY <1>3 DEF ServerTakes, answer, RemotePublishes, publish, StreamEnds, joining, Connected
<1>4. QED
  BY <1>1, <1>2, <1>3 DEF Next, OnMessage, Continuation, OtherEvent

\* What is known and the wire move together: a message is taken, or the socket is lost, or
\* the wire only grows.
LEMMA Moves ==
    ASSUME SessionIInv, JoinIInv, [Next]_vars
    PROVE  \/ OnMessage /\ Takes /\ UNCHANGED <<server, alive, readyState>>
           \/ ~Connected' /\ down' = <<>> /\ UNCHANGED <<known, subs, streams, past>>
           \/ /\ UNCHANGED <<known, down, streams, past>>
              /\ UNCHANGED subs \/ AnnounceSnapshot
           \/ /\ UNCHANGED <<known, subs>>
              /\ \E m \in DownMessage :
                    /\ down' = Append(down, m)
                    /\ \/ \E s \in Streams : s \notin past /\ Appears(s) /\ m = Created(s)
                       \/ \E s \in Streams : StreamEnds(s) /\ m = Deleted(s)
                       \/ m = Reply(Create, Empty) /\ UNCHANGED <<streams, past>>
                       \/ /\ ServerTakes /\ Head(up) = Read /\ UNCHANGED <<streams, past>>
                          /\ m = Reply(Read, [streams |-> streams])
                       \/ \E s \in Streams, b \in DOMAIN subs : m = Offer(s, b) /\ UNCHANGED <<streams, past>>
           \/ /\ UNCHANGED <<known, subs>> /\ down' = down
              /\ \/ \E s \in Streams : s \notin past /\ Appears(s)
                 \/ \E s \in Streams : StreamEnds(s)
<1>0. /\ subs \in Seq(Streams) /\ down \in Seq(DownMessage) /\ streams \in SUBSET Streams
  BY DEF SessionIInv, TypeOK, SubscriptionsTypeOK, WireIInv
<1>1. CASE Closed \/ SocketError
  BY <1>1 DEF Closed, SocketError, subscriptions, server, Connected, loop, known
<1>2. CASE OnMessage
  BY <1>2, Handlers DEF OnMessage
<1>3. CASE AnnounceSnapshot
  <2>1. UNCHANGED <<down, streams, past>>
    BY <1>3 DEF AnnounceSnapshot, server
  <2>2. ~OnStreamCreated /\ ~OnStreamDeleted /\ ~OnReadReply
    BY <1>3 DEF AnnounceSnapshot, OnStreamCreated, OnStreamDeleted, OnReadReply, Ignored
  <2>3. UNCHANGED known
    BY <2>2, KnownSteps DEF SessionIInv
  <2>4. QED
    BY <1>3, <2>1, <2>3
<1> SUFFICES ASSUME ~(Closed \/ SocketError), ~OnMessage, ~AnnounceSnapshot
             PROVE  \/ UNCHANGED <<known, subs, down, streams, past>>
                    \/ /\ UNCHANGED <<known, subs>>
                       /\ \E m \in DownMessage :
                             /\ down' = Append(down, m)
                             /\ \/ \E s \in Streams : s \notin past /\ Appears(s) /\ m = Created(s)
                                \/ \E s \in Streams : StreamEnds(s) /\ m = Deleted(s)
                                \/ m = Reply(Create, Empty) /\ UNCHANGED <<streams, past>>
                                \/ /\ ServerTakes /\ Head(up) = Read /\ UNCHANGED <<streams, past>>
                                   /\ m = Reply(Read, [streams |-> streams])
                                \/ \E s \in Streams, b \in DOMAIN subs :
                                      m = Offer(s, b) /\ UNCHANGED <<streams, past>>
                    \/ /\ UNCHANGED <<known, subs>> /\ down' = down
                       /\ \/ \E s \in Streams : s \notin past /\ Appears(s)
                          \/ \E s \in Streams : StreamEnds(s)
  BY <1>1, <1>2, <1>3
<1>13. UNCHANGED <<known, subs>>
  BY ViewSteps, KnownSteps DEF OnMessage, SessionIInv
<1>4. \A s \in Streams : Created(s) \in DownMessage /\ Deleted(s) \in DownMessage
  BY DownKinds
<1>5. Reply(Create, Empty) \in DownMessage /\ Reply(Read, [streams |-> streams]) \in DownMessage
  BY <1>0, CreateReplySays, ReadReplySays
<1>6. \A s \in Streams, b \in DOMAIN subs : Offer(s, b) \in DownMessage
  BY <1>0, OfferSays
<1>7. CASE ServerTakes /\ UNCHANGED server /\ down' = Append(down, Reply(Create, Empty))
  BY <1>13, <1>5, <1>7 DEF server
<1>8. CASE ServerTakes /\ UNCHANGED server /\ Head(up) = Read /\ down' = Append(down, Reply(Read, [streams |-> streams]))
  BY <1>13, <1>5, <1>8 DEF server
<1>9. ASSUME NEW s \in Streams, NEW b \in DOMAIN subs, UNCHANGED <<streams, past>>, down' = Append(down, Offer(s, b))
      PROVE  \E m \in DownMessage :
                /\ down' = Append(down, m)
                /\ \E r \in Streams, c \in DOMAIN subs : m = Offer(r, c) /\ UNCHANGED <<streams, past>>
  BY <1>6, <1>9
<1>10. ASSUME NEW s \in Streams, s \notin past, Appears(s), down' = Append(down, Created(s))
       PROVE  \E m \in DownMessage :
                 /\ down' = Append(down, m)
                 /\ \E r \in Streams : r \notin past /\ Appears(r) /\ m = Created(r)
  BY <1>4, <1>10
<1>11. ASSUME NEW s \in Streams, StreamEnds(s), down' = Append(down, Deleted(s))
       PROVE  \E m \in DownMessage :
                 /\ down' = Append(down, m)
                 /\ \E r \in Streams : StreamEnds(r) /\ m = Deleted(r)
  BY <1>4, <1>11
<1>12. QED
  BY <1>13, <1>7, <1>8, <1>9, <1>10, <1>11, DownSteps DEF OnMessage

\* What the message taken does to what is known.
LEMMA TakenChanges ==
    ASSUME SessionIInv, JoinIInv, OnMessage
    PROVE  /\ Takes
           /\ \A s \in Streams : s \in known' => /\ s \in known \/ Announces(Head(down), s)
                                                 /\ ~Ends(Head(down), s)
<1>0. Takes /\ [Next]_vars /\ WireIInv
  BY Handlers DEF OnMessage, Next, SessionIInv
<1>1. CASE OnStreamDeleted
  <2>1. Stream \in Streams /\ Head(down) = Deleted(Stream) /\ known' = known \ {Stream}
    BY <1>0, <1>1, HeadIs, KnownSteps
  <2>2. QED
    BY <1>0, <2>1, DeletedSays
<1>2. CASE OnStreamCreated
  <2>1. Stream \in Streams /\ Head(down) = Created(Stream) /\ known' = known \cup ({Stream} \ Own)
    BY <1>0, <1>2, HeadIs, KnownSteps
  <2>2. QED
    BY <1>0, <2>1, CreatedSays, AnnouncedByName
<1>3. CASE OnReadReply /\ read = "pending"
  <2>1. known' = known \cup Head(down).content.streams
    BY <1>0, <1>3, KnownSteps
  <2>2. PICK S \in SUBSET Streams : Head(down) = Reply(Read, [streams |-> S])
    BY <1>0, <1>3, HeadIs
  <2>3. Head(down).content.streams = S
    BY <2>2, DownKinds
  <2>4. QED
    BY <1>0, <2>1, <2>2, <2>3, ReadReplySays, AnnouncedByName
<1>4. CASE OnCreateReply \/ OnOffer \/ (OnReadReply /\ read # "pending")
  <2>1. known' = known
    BY <1>4 DEF OnCreateReply, OnOffer, OnReadReply, Ignored, known
  <2>2. \A s \in Streams : ~Ends(Head(down), s)
    BY <1>0, <1>4, HeadIs, CreateReplySays, ReadReplySays
  <2>3. QED
    BY <1>0, <2>1, <2>2
<1>5. QED
  BY <1>1, <1>2, <1>3, <1>4 DEF OnMessage

\* The wire is not the same with a message more.
LEMMA AppendGrows ==
    ASSUME NEW S, NEW w \in Seq(S), NEW m \in S
    PROVE  Append(w, m) # w /\ Len(Append(w, m)) = Len(w) + 1
OBVIOUS

LEMMA NothingLeftStays ==
    ASSUME SessionIInv, JoinIInv, [Next]_vars
    PROVE  NothingLeft'
<1>0. down \in Seq(DownMessage) /\ streams \in SUBSET Streams
  BY DEF SessionIInv, WireIInv, TypeOK
<1> SUFFICES ASSUME Connected', NEW s \in Streams
             PROVE  /\ s \in known' => s \in streams' \/ \E j \in 1..Len(down') : Ends(down'[j], s)
                    /\ \A i \in 1..Len(down') : Announces(down'[i], s) =>
                           s \in streams' \/ \E j \in 1..Len(down') : i < j /\ Ends(down'[j], s)
  BY DEF NothingLeft
<1>1. CASE known = {} /\ UNCHANGED <<known, down>> /\ down = <<>>
  BY <1>1, NoneLeft
<1> SUFFICES ASSUME Connected
             PROVE  /\ s \in known' => s \in streams' \/ \E j \in 1..Len(down') : Ends(down'[j], s)
                    /\ \A i \in 1..Len(down') : Announces(down'[i], s) =>
                           s \in streams' \/ \E j \in 1..Len(down') : i < j /\ Ends(down'[j], s)
  BY <1>1, WiredBefore DEF Open, loop, known
<1>2. /\ s \in known => s \in streams \/ \E j \in 1..Len(down) : Ends(down[j], s)
      /\ \A i \in 1..Len(down) : Announces(down[i], s) =>
             s \in streams \/ \E j \in 1..Len(down) : i < j /\ Ends(down[j], s)
  BY DEF JoinIInv, NothingLeft
<1>3. CASE OnMessage /\ Takes /\ UNCHANGED server
  <2>1. /\ Head(down) = down[1] /\ 1 \in 1..Len(down)
        /\ \A i \in 1..Len(down') : down'[i] = down[i + 1] /\ i + 1 \in 1..Len(down)
        /\ \A j \in 1..Len(down) : j = 1 \/ (j - 1 \in 1..Len(down') /\ down'[j - 1] = down[j])
    BY <1>0, <1>3, DownShrinks
  <2>2. \A i \in 1..Len(down') : \A j \in 1..Len(down) : i + 1 < j => j # 1 /\ i < j - 1
    OBVIOUS
  <2>3. streams' = streams
    BY <1>3 DEF server
  <2>4. ASSUME NEW i \in 1..Len(down'), Announces(down'[i], s), s \notin streams'
        PROVE  \E j \in 1..Len(down') : i < j /\ Ends(down'[j], s)
    <3>1. PICK j \in 1..Len(down) : i + 1 < j /\ Ends(down[j], s)
      BY <1>2, <2>1, <2>3, <2>4
    <3>2. QED
      BY <2>1, <2>2, <3>1
  <2>5. ASSUME s \in known', s \notin streams'
        PROVE  \E j \in 1..Len(down') : Ends(down'[j], s)
    <3>1. (s \in known \/ Announces(Head(down), s)) /\ ~Ends(Head(down), s)
      BY <1>3, <2>5, TakenChanges
    <3>2. PICK j \in 1..Len(down) : Ends(down[j], s)
      BY <1>2, <2>1, <2>3, <2>5, <3>1
    <3>3. j # 1
      BY <2>1, <3>1, <3>2
    <3>4. QED
      BY <2>1, <3>2, <3>3
  <2>6. QED
    BY <2>4, <2>5
<1>4. ASSUME NEW m \in DownMessage, down' = Append(down, m), UNCHANGED known,
             s \in streams /\ s \notin streams' => Ends(m, s),
             Announces(m, s) => s \in streams'
      PROVE  /\ s \in known' => s \in streams' \/ \E j \in 1..Len(down') : Ends(down'[j], s)
             /\ \A i \in 1..Len(down') : Announces(down'[i], s) =>
                    s \in streams' \/ \E j \in 1..Len(down') : i < j /\ Ends(down'[j], s)
  <2>1. /\ down'[Len(down) + 1] = m /\ Len(down) + 1 \in 1..Len(down')
        /\ \A i \in 1..Len(down) : down'[i] = down[i] /\ i \in 1..Len(down') /\ i < Len(down) + 1
        /\ \A i \in 1..Len(down') : i \in 1..Len(down) \/ i = Len(down) + 1
    BY <1>0, <1>4, Longer
  <2>2. QED
    BY <1>2, <1>4, <2>1
<1>5. CASE UNCHANGED known /\ down' = down /\ (s \in streams => s \in streams')
  BY <1>2, <1>5
<1>6. ASSUME NEW r \in Streams, StreamEnds(r), UNCHANGED <<known, down>>
      PROVE  known = {} /\ down = <<>>
  <2>1. down' = Notify(Deleted(r)) /\ Deleted(r) \in DownMessage
    BY <1>6, DownKinds DEF StreamEnds
  <2>2. Append(down, Deleted(r)) # down
    BY <1>0, <2>1, AppendGrows
  <2>3. QED
    BY <1>6, <2>1, <2>2, Notified
<1>7. ASSUME NEW r \in Streams, StreamEnds(r) PROVE (s \in streams /\ s \notin streams') => s = r
  BY <1>7 DEF StreamEnds
<1>8. ASSUME NEW r \in Streams, Appears(r) PROVE r \in streams' /\ (s \in streams => s \in streams')
  BY <1>8 DEF Appears
<1>9. ASSUME NEW r \in Streams, Appears(r), down' = Append(down, Created(r)), UNCHANGED known
      PROVE  /\ s \in known' => s \in streams' \/ \E j \in 1..Len(down') : Ends(down'[j], s)
             /\ \A i \in 1..Len(down') : Announces(down'[i], s) =>
                    s \in streams' \/ \E j \in 1..Len(down') : i < j /\ Ends(down'[j], s)
  <2>1. Announces(Created(r), s) => s \in streams'
    BY <1>8, <1>9, CreatedSays
  <2>2. Created(r) \in DownMessage
    BY CreatedSays
  <2>3. QED
    BY <1>4, <1>8, <1>9, <2>1, <2>2
<1>10. ASSUME NEW r \in Streams, StreamEnds(r), down' = Append(down, Deleted(r)), UNCHANGED known
       PROVE  /\ s \in known' => s \in streams' \/ \E j \in 1..Len(down') : Ends(down'[j], s)
              /\ \A i \in 1..Len(down') : Announces(down'[i], s) =>
                     s \in streams' \/ \E j \in 1..Len(down') : i < j /\ Ends(down'[j], s)
  <2>1. s \in streams /\ s \notin streams' => Ends(Deleted(r), s)
    BY <1>7, <1>10, AnnouncedByName
  <2>2. Deleted(r) \in DownMessage /\ ~Announces(Deleted(r), s)
    BY DeletedSays
  <2>3. QED
    BY <1>4, <1>10, <2>1, <2>2
<1>11. ASSUME NEW m \in DownMessage, down' = Append(down, m), UNCHANGED <<known, streams>>,
              \/ m = Reply(Create, Empty)
              \/ m = Reply(Read, [streams |-> streams])
              \/ \E r \in Streams, b \in DOMAIN subs : m = Offer(r, b)
       PROVE  /\ s \in known' => s \in streams' \/ \E j \in 1..Len(down') : Ends(down'[j], s)
              /\ \A i \in 1..Len(down') : Announces(down'[i], s) =>
                     s \in streams' \/ \E j \in 1..Len(down') : i < j /\ Ends(down'[j], s)
  <2>1. \A b \in DOMAIN subs : b \in Nat
    BY DEF SessionIInv, TypeOK, SubscriptionsTypeOK
  <2>2. Announces(m, s) => s \in streams'
    BY <1>0, <1>11, <2>1, CreateReplySays, ReadReplySays, OfferSays
  <2>3. QED
    BY <1>4, <1>11, <2>2
<1>12. QED
  BY <1>1, <1>3, <1>5, <1>6, <1>8, <1>9, <1>10, <1>11, Moves

\* What the message taken announces is known, if it is still asked for.
LEMMA TakenAnnounced ==
    ASSUME SessionIInv, JoinIInv, OnMessage, read \in {"pending", "replied", "answered"},
           NEW s \in Streams \ Own, Announces(Head(down), s)
    PROVE  s \in known'
<1>0. Takes /\ [Next]_vars /\ WireIInv
  BY Handlers DEF OnMessage, Next, SessionIInv
<1>1. OnStreamCreated \/ OnReadReply
  BY <1>0, HeadIs, DeletedSays, CreateReplySays DEF OnMessage
<1>2. CASE OnStreamCreated
  <2>1. Stream \in Streams /\ Head(down) = Created(Stream) /\ known' = known \cup ({Stream} \ Own)
    BY <1>0, <1>2, HeadIs, KnownSteps
  <2>2. QED
    BY <2>1, CreatedSays
<1>3. CASE OnReadReply
  <2>1. IsSnapshot(Head(down)) /\ Head(down) = down[1] /\ 1 \in 1..Len(down)
    BY <1>0, <1>3, DownShrinks DEF OnReadReply, TakesReply, IsSnapshot, SessionIInv, WireIInv
  <2>2. SnapshotComes
    BY <2>1 DEF SnapshotComes
  <2>3. read = "pending"
    BY <2>2 DEF JoinIInv, OneRead
  <2>4. known' = known \cup Head(down).content.streams
    BY <1>0, <1>3, <2>3, KnownSteps
  <2>5. PICK S \in SUBSET Streams : Head(down) = Reply(Read, [streams |-> S])
    BY <1>0, <1>3, HeadIs
  <2>6. Head(down).content.streams = S
    BY <2>5, DownKinds
  <2>7. QED
    BY <2>4, <2>5, <2>6, ReadReplySays
<1>4. QED
  BY <1>1, <1>2, <1>3

\* A stream that is there stays known.
LEMMA TakenKeeps ==
    ASSUME SessionIInv, JoinIInv, OnMessage, NEW s \in known, s \in streams
    PROVE  s \in known'
<1>0. Takes /\ [Next]_vars /\ WireIInv
  BY Handlers DEF OnMessage, Next, SessionIInv
<1>1. CASE OnStreamDeleted
  <2>1. Stream \in Streams /\ Head(down) = Deleted(Stream) /\ known' = known \ {Stream}
    BY <1>0, <1>1, HeadIs, KnownSteps
  <2>2. Ends(down[1], Stream) /\ 1 \in 1..Len(down)
    BY <1>0, <2>1, AnnouncedByName, DownShrinks DEF SessionIInv, WireIInv
  <2>3. Stream \notin streams
    BY <2>1, <2>2 DEF SessionIInv, WireIInv, WireSafe, EndedAreOver, Over
  <2>4. QED
    BY <2>1, <2>3
<1>2. CASE ~OnStreamDeleted
  BY <1>0, <1>2, KnownSteps
<1>3. QED
  BY <1>1, <1>2

LEMMA NothingMissingStays ==
    ASSUME SessionIInv, JoinIInv, [Next]_vars
    PROVE  NothingMissing'
<1>0. /\ down \in Seq(DownMessage) /\ streams \in SUBSET Streams /\ streams' \in SUBSET Streams
      /\ up \in Seq(UpMessage)
      /\ read = "none" => ~Has(up, Read) /\ ~SnapshotComes
  BY TypesStay DEF SessionIInv, WireIInv, TypeOK, JoinIInv, OneRead
<1> SUFFICES ASSUME Connected', read' \in {"replied", "answered"} \/ (read' = "pending" /\ SnapshotComes'),
                    NEW s \in streams', s \notin Own
             PROVE  s \in known' \/ \E i \in 1..Len(down') : Announces(down'[i], s)
  BY DEF NothingMissing
<1>1. s \in Streams \ Own
  BY <1>0
<1>2. Connected /\ read \in {"pending", "replied", "answered"}
  <2>1. ServerTakes /\ Head(up) = Read => Has(up, Read)
    BY <1>0, UpShrinks
  <2>2. read # "none"
    <3>1. SUFFICES ASSUME read = "none" PROVE FALSE
      OBVIOUS
    <3>2. ~SnapshotComes'
      BY <1>0, <2>1, <3>1, SnapshotsOnTheWayDown
    <3>3. QED
      BY <3>1, <3>2, ReadSteps
  <2>3. Connected
    BY <2>2, WiredBefore
  <2>4. QED
    BY <2>2, <2>3, ReadSteps
<1>3. read \in {"replied", "answered"} \/ (read = "pending" /\ SnapshotComes) =>
          (s \in streams => s \in known \/ \E i \in 1..Len(down) : Announces(down[i], s))
  BY <1>1, <1>2 DEF JoinIInv, NothingMissing
<1>4. CASE OnMessage /\ Takes /\ UNCHANGED server
  <2>1. /\ Head(down) = down[1] /\ 1 \in 1..Len(down)
        /\ \A i \in 1..Len(down') : down'[i] = down[i + 1] /\ i + 1 \in 1..Len(down)
        /\ \A j \in 1..Len(down) : j = 1 \/ (j - 1 \in 1..Len(down') /\ down'[j - 1] = down[j])
    BY <1>0, <1>4, DownShrinks
  <2>2. read \in {"replied", "answered"} \/ (read = "pending" /\ SnapshotComes)
    <3>1. CASE IsSnapshot(Head(down))
      BY <1>2, <2>1, <3>1 DEF SnapshotComes
    <3>2. CASE ~IsSnapshot(Head(down))
      <4>1. read = "pending" => read' = "pending"
        BY <1>2, <3>2, ReadSteps
      <4>2. SnapshotComes' => SnapshotComes
        BY <2>1 DEF SnapshotComes
      <4>3. QED
        BY <1>2, <4>1, <4>2
    <3>3. QED
      BY <3>1, <3>2
  <2>3. s \in streams
    BY <1>4 DEF server
  <2>4. CASE s \in known
    BY <1>4, <2>3, <2>4, TakenKeeps
  <2>5. ASSUME NEW j \in 1..Len(down), Announces(down[j], s)
        PROVE  s \in known' \/ \E i \in 1..Len(down') : Announces(down'[i], s)
    <3>1. CASE j = 1
      BY <1>1, <1>2, <1>4, <2>1, <2>5, <3>1, TakenAnnounced
    <3>2. CASE j # 1
      BY <2>1, <2>5, <3>2
    <3>3. QED
      BY <3>1, <3>2
  <2>6. QED
    BY <1>3, <2>2, <2>3, <2>4, <2>5
<1> SUFFICES ASSUME ~OnMessage
             PROVE  s \in known' \/ \E i \in 1..Len(down') : Announces(down'[i], s)
  BY <1>4, Handlers DEF OnMessage
<1>5. read \in {"replied", "answered"} \/ (read = "pending" /\ read' = "pending")
  BY <1>2, ReadSteps DEF OnMessage
<1>6. CASE UNCHANGED known /\ down' = down /\ s \in streams
  BY <1>3, <1>5, <1>6 DEF SnapshotComes
<1>7. ASSUME NEW m \in DownMessage, down' = Append(down, m), UNCHANGED known,
             s \in streams \/ Announces(m, s), IsSnapshot(m) => Announces(m, s)
      PROVE  s \in known' \/ \E i \in 1..Len(down') : Announces(down'[i], s)
  <2>1. /\ down'[Len(down) + 1] = m /\ Len(down) + 1 \in 1..Len(down')
        /\ \A i \in 1..Len(down) : down'[i] = down[i] /\ i \in 1..Len(down')
        /\ \A i \in 1..Len(down') : i \in 1..Len(down) \/ i = Len(down) + 1
    BY <1>0, <1>7, Longer
  <2>2. CASE Announces(m, s)
    BY <2>1, <2>2
  <2>3. CASE ~Announces(m, s)
    <3>1. SnapshotComes' => SnapshotComes
      BY <1>7, <2>1, <2>3 DEF SnapshotComes
    <3>2. QED
      BY <1>3, <1>5, <1>7, <2>1, <2>3, <3>1
  <2>4. QED
    BY <2>2, <2>3
<1>8. ASSUME NEW r \in Streams, Appears(r), down' = down PROVE FALSE
  <2>1. down' = Notify(Created(r)) /\ Created(r) \in DownMessage
    BY <1>8, DownKinds DEF Appears
  <2>2. Append(down, Created(r)) # down
    BY <1>0, <2>1, AppendGrows
  <2>3. QED
    BY <1>2, <1>8, <2>1, <2>2, Notified
<1>9. ASSUME NEW r \in Streams, StreamEnds(r) PROVE s \in streams
  BY <1>9 DEF StreamEnds
<1>10. ASSUME NEW r \in Streams, Appears(r) PROVE s \in streams \/ s = r
  BY <1>10 DEF Appears
<1>11. ASSUME NEW r \in Streams, Appears(r), down' = Append(down, Created(r)), UNCHANGED known
       PROVE  s \in known' \/ \E i \in 1..Len(down') : Announces(down'[i], s)
  <2>1. Created(r) \in DownMessage /\ ~IsSnapshot(Created(r)) /\ Announces(Created(r), r)
    BY DownKinds, AnnouncedByName DEF IsSnapshot
  <2>2. QED
    BY <1>7, <1>10, <1>11, <2>1
<1>12. ASSUME NEW r \in Streams, StreamEnds(r), down' = Append(down, Deleted(r)), UNCHANGED known
       PROVE  s \in known' \/ \E i \in 1..Len(down') : Announces(down'[i], s)
  <2>1. Deleted(r) \in DownMessage /\ ~IsSnapshot(Deleted(r))
    BY DownKinds DEF IsSnapshot
  <2>2. QED
    BY <1>7, <1>9, <1>12, <2>1
<1>13. ASSUME NEW m \in DownMessage, down' = Append(down, m), UNCHANGED <<known, streams>>,
              \/ m = Reply(Create, Empty)
              \/ m = Reply(Read, [streams |-> streams])
              \/ \E r \in Streams, b \in DOMAIN subs : m = Offer(r, b)
       PROVE  s \in known' \/ \E i \in 1..Len(down') : Announces(down'[i], s)
  <2>1. s \in streams
    BY <1>13
  <2>2. IsSnapshot(m) => m = Reply(Read, [streams |-> streams])
    BY <1>13, DownKinds DEF IsSnapshot
  <2>3. IsSnapshot(m) => Announces(m, s)
    BY <1>0, <2>1, <2>2, AnnouncedByName
  <2>4. QED
    BY <1>7, <1>13, <2>1, <2>3
<1>14. QED
  BY <1>4, <1>6, <1>8, <1>9, <1>11, <1>12, <1>13, Moves

-----------------------------------------------------------------------------
\* Streams do not come back, and only the server's own steps change what it watches.
LEMMA StreamsSteps ==
    ASSUME SessionIInv, JoinIInv, [Next]_vars
    PROVE  \A s \in past : s \in streams' => s \in streams
<1>1. ASSUME NEW r \in Streams, r \notin past, Appears(r) PROVE \A s \in past : s \in streams' => s \in streams
  BY <1>1 DEF Appears
<1>2. ASSUME NEW r \in Streams, StreamEnds(r) PROVE \A s \in past : s \in streams' => s \in streams
  BY <1>2 DEF StreamEnds
<1>3. CASE UNCHANGED streams \/ UNCHANGED server
  BY <1>3 DEF server
<1>4. QED
  BY <1>1, <1>2, <1>3, Moves

LEMMA WatchedSteps ==
    ASSUME [Next]_vars, ~ServerTakes
    PROVE  watched' = watched /\ answered' = answered
<1>1. CASE connect \/ disconnect \/ AnvilAnswers \/ Open \/ Closed \/ SocketError \/ OnCreateReply
           \/ OnStreamCreated \/ OnStreamDeleted \/ OnReadReply \/ OnOffer \/ CreateTimeout \/ ReadTimeout
           \/ ReadSession \/ AnnounceSnapshot \/ UNCHANGED vars
  BY <1>1 DEF connect, disconnect, AnvilAnswers, Open, Closed, SocketError, OnCreateReply, OnStreamCreated,
              OnStreamDeleted, OnReadReply, OnOffer, CreateTimeout, ReadTimeout, ReadSession, AnnounceSnapshot,
              vars, server
<1>2. CASE (\E b \in DOMAIN subs : answer(b)) \/ (\E o \in Own : publish(o))
           \/ (\E s \in Streams : StreamEnds(s)) \/ (\E s \in Remote : RemotePublishes(s))
  BY <1>2 DEF answer, publish, StreamEnds, RemotePublishes, server
<1>3. QED
  BY <1>1, <1>2 DEF Next, OnMessage, Continuation, OtherEvent

\* The socket opens once, and while it is open nothing is lost on the way to the server.
LEMMA OpenBefore ==
    ASSUME SessionIInv, JoinIInv, [Next]_vars, alive' /\ readyState' = "OPEN"
    PROVE  \/ Open
           \/ alive /\ readyState = "OPEN" /\ (~ServerTakes => \A x : Has(up, x) => Has(up', x))
<1>0. up \in Seq(UpMessage) /\ subs \in Seq(Streams)
  BY DEF JoinIInv, SessionIInv, TypeOK, SubscriptionsTypeOK
<1>1. CASE connect \/ disconnect \/ AnvilAnswers \/ Closed \/ SocketError \/ OnCreateReply
           \/ OnStreamCreated \/ OnStreamDeleted \/ OnReadReply \/ OnOffer \/ CreateTimeout \/ ReadTimeout
           \/ ReadSession \/ AnnounceSnapshot \/ UNCHANGED vars
  <2>1. alive /\ readyState = "OPEN" /\ ~Closed /\ ~SocketError
    BY <1>1 DEF connect, disconnect, AnvilAnswers, Closed, SocketError, OnCreateReply,
                OnStreamCreated, OnStreamDeleted, OnReadReply, OnOffer, CreateTimeout, ReadTimeout,
                ReadSession, AnnounceSnapshot, vars, joining
  <2>2. CASE ReadSession /\ up' = Append(up, Read)
    <3>1. Read \in UpMessage
      BY UpMethods
    <3>2. \A x : Has(up, x) => Has(up', x)
      BY <1>0, <2>2, <3>1, Longer
    <3>3. QED
      BY <2>1, <3>2
  <2>3. ASSUME NEW q \in Seq(Streams), Announce(q)
        PROVE  \A x : Has(up, x) => Has(up', x)
    BY <1>0, <2>3, Announcing DEF Announce, Has
  <2>4. CASE up' = up
    BY <2>1, <2>4
  <2>5. CASE connect \/ disconnect \/ AnvilAnswers \/ OnStreamDeleted \/ OnOffer \/ CreateTimeout
             \/ OnCreateReply \/ OnReadReply \/ ReadTimeout \/ UNCHANGED vars
    BY <2>1, <2>4, <2>5 DEF connect, disconnect, AnvilAnswers, OnStreamDeleted, OnOffer, CreateTimeout,
                            OnCreateReply, OnReadReply, ReadTimeout, vars
  <2>6. CASE OnStreamCreated \/ AnnounceSnapshot
    <3>1. \A x : Has(up, x) => Has(up', x)
      BY <2>3, <2>6, Told
    <3>2. QED
      BY <2>1, <3>1
  <2>7. CASE ReadSession
    <3>1. up' = Sent(<<Read>>)
      BY <2>7 DEF ReadSession
    <3>2. QED
      BY <1>0, <2>1, <2>2, <2>4, <2>7, <3>1, Sending, UpMethods
  <2>8. QED
    BY <1>1, <2>1, <2>5, <2>6, <2>7
<1>2. CASE ServerTakes
  BY <1>2 DEF ServerTakes, joining
<1>3. ASSUME NEW b \in DOMAIN subs, answer(b)
      PROVE  alive /\ readyState = "OPEN" /\ \A x : Has(up, x) => Has(up', x)
  <2>1. alive /\ readyState = "OPEN"
    BY <1>3 DEF answer
  <2>2. QED
    BY <1>0, <1>3, <2>1, Answering, Longer
<1>4. ASSUME NEW o \in Own, publish(o)
      PROVE  alive /\ readyState = "OPEN" /\ \A x : Has(up, x) => Has(up', x)
  <2>1. PICK x \in Streams : up' = Append(up, streams_create(x))
    BY <1>4, Publishing
  <2>2. streams_create(x) \in UpMessage
    BY UpMethods
  <2>3. \A m : Has(up, m) => Has(up', m)
    BY <1>0, <2>1, <2>2, Longer
  <2>4. QED
    BY <1>4, <2>3 DEF publish
<1>5. ASSUME NEW s \in Streams, RemotePublishes(s) \/ StreamEnds(s)
      PROVE  alive /\ readyState = "OPEN" /\ up' = up
  BY <1>5 DEF RemotePublishes, StreamEnds, joining
<1>6. QED
  BY <1>1, <1>2, <1>3, <1>4, <1>5 DEF Next, OnMessage, Continuation, OtherEvent, Streams

LEMMA SubscribersStay ==
    ASSUME SessionIInv, JoinIInv, [Next]_vars
    PROVE  /\ subs' \in Seq(Streams) /\ Len(subs) \in Nat
           /\ DOMAIN subs = 1..Len(subs) /\ DOMAIN subs' = 1..Len(subs')
           /\ \A b \in DOMAIN subs : b \in DOMAIN subs' /\ subs'[b] = subs[b]
           /\ \A b \in DOMAIN subs' \ DOMAIN subs :
                 /\ OnStreamCreated \/ AnnounceSnapshot
                 /\ readyState = "OPEN" => Has(up', subscribers_create(subs'[b], b))
           /\ \A s \in view' : s \in view \/ \E b \in DOMAIN subs' : subs'[b] = s
<1>0. up \in Seq(UpMessage) /\ subs \in Seq(Streams)
  BY DEF JoinIInv, SessionIInv, TypeOK, SubscriptionsTypeOK
<1>1. ASSUME NEW q \in Seq(Streams), Announce(q)
      PROVE  /\ subs' \in Seq(Streams) /\ Len(subs) \in Nat
             /\ DOMAIN subs = 1..Len(subs) /\ DOMAIN subs' = 1..Len(subs')
             /\ \A b \in DOMAIN subs : b \in DOMAIN subs' /\ subs'[b] = subs[b]
             /\ \A b \in DOMAIN subs' \ DOMAIN subs :
                    readyState = "OPEN" => Has(up', subscribers_create(subs'[b], b))
             /\ \A s \in view' : s \in view \/ \E b \in DOMAIN subs' : subs'[b] = s
  <2>1. /\ subs' \in Seq(Streams) /\ Len(subs) \in Nat
        /\ DOMAIN subs = 1..Len(subs) /\ DOMAIN subs' = 1..Len(subs')
        /\ \A b \in 1..Len(subs) : b \in 1..Len(subs') /\ subs'[b] = subs[b]
        /\ \A i \in 1..Len(q) : /\ Len(subs) + i \in 1..Len(subs') /\ subs'[Len(subs) + i] = q[i]
                                /\ readyState = "OPEN" =>
                                     Has(up', subscribers_create(q[i], Len(subs) + i))
        /\ \A b \in 1..Len(subs') : b \in 1..Len(subs) \/ \E i \in 1..Len(q) : b = Len(subs) + i
    BY <1>0, <1>1, Announcing DEF Announce
  <2>2. \A b \in DOMAIN subs' \ DOMAIN subs :
            readyState = "OPEN" => Has(up', subscribers_create(subs'[b], b))
    <3>1. ASSUME NEW b \in DOMAIN subs', b \notin DOMAIN subs, readyState = "OPEN"
          PROVE  Has(up', subscribers_create(subs'[b], b))
      <4>1. PICK i \in 1..Len(q) : b = Len(subs) + i
        BY <2>1, <3>1
      <4>2. subs'[b] = q[i] /\ Has(up', subscribers_create(q[i], b))
        BY <2>1, <3>1, <4>1
      <4>3. QED
        BY <4>2
    <3>2. QED
      BY <3>1
  <2>3. \A s \in view' : s \in view \/ \E b \in DOMAIN subs' : subs'[b] = s
    <3>1. DOMAIN q = 1..Len(q) /\ view' = view \cup {q[i] : i \in DOMAIN q}
      BY <1>1 DEF Announce
    <3>2. \A i \in 1..Len(q) : \E b \in DOMAIN subs' : subs'[b] = q[i]
      BY <2>1
    <3>3. QED
      BY <3>1, <3>2
  <2>4. QED
    BY <2>1, <2>2, <2>3
<1>2. CASE subs' = subs /\ view' \subseteq view
  BY <1>0, <1>2
<1>3. CASE OnStreamCreated \/ AnnounceSnapshot
  <2>1. CASE UNCHANGED <<view, subscriptions>>
    BY <1>2, <2>1 DEF subscriptions
  <2>2. QED
    BY <1>1, <1>3, <2>1, Told
<1>4. QED
  BY <1>2, <1>3, ViewSteps

\* The server has made the subscriber it was asked for, if its stream was there.
LEMMA Served ==
    ASSUME SessionIInv, JoinIInv, ServerTakes, NEW b \in DOMAIN subs, subs[b] \in streams,
           Head(up) = subscribers_create(subs[b], b)
    PROVE  <<subs[b], b>> \in watched'
<1>1. /\ Head(up) # Create /\ Head(up).method = "create"
      /\ \A r : Head(up) # streams_create(r)
      /\ \A r, c : /\ Head(up) = subscribers_create(r, c) => r = subs[b] /\ c = b
                   /\ Head(up) # subscribers_answer(r, c, "answer")
      /\ Head(up) # SubscribeSession /\ Head(up) # Read
  BY UpMethods
<1>2. \E s \in Streams, c \in DOMAIN subs :
         /\ Head(up) = subscribers_create(s, c)
         /\ IF s \in streams THEN watched' = watched \cup {<<s, c>>} ELSE UNCHANGED watched
  BY <1>1 DEF ServerTakes
<1>3. QED
  BY <1>1, <1>2

LEMMA WatchedStay ==
    ASSUME ServerTakes PROVE watched \subseteq watched'
BY DEF ServerTakes, server

LEMMA AllSubscribedStays ==
    ASSUME SessionIInv, JoinIInv, [Next]_vars
    PROVE  AllSubscribed'
<1>0. /\ up \in Seq(UpMessage) /\ subs \in Seq(Streams) /\ streams \subseteq Streams
      /\ \A s \in view : \E b \in DOMAIN subs : subs[b] = s
      /\ alive /\ readyState = "OPEN" =>
            \A b \in DOMAIN subs : \/ subs[b] \notin streams \/ <<subs[b], b>> \in watched
                                   \/ Has(up, subscribers_create(subs[b], b))
      /\ \A b \in DOMAIN subs : subs[b] \in past
  BY DEF JoinIInv, AllSubscribed, FromThePast, SessionIInv, TypeOK, SubscriptionsTypeOK
<1>1. \A s \in view' : \E b \in DOMAIN subs' : subs'[b] = s
  BY <1>0, SubscribersStay
<1>2. ASSUME alive', readyState' = "OPEN", NEW b \in DOMAIN subs'
      PROVE  \/ subs'[b] \notin streams' \/ <<subs'[b], b>> \in watched'
             \/ Has(up', subscribers_create(subs'[b], b))
  <2>1. CASE b \notin DOMAIN subs
    <3>1. readyState = "OPEN"
      BY <1>2, <2>1, SubscribersStay DEF OnStreamCreated, AnnounceSnapshot
    <3>2. QED
      BY <2>1, <3>1, SubscribersStay
  <2>2. CASE b \in DOMAIN subs
    <3>1. subs'[b] = subs[b] /\ (subs[b] \in streams' => subs[b] \in streams)
      BY <1>0, <2>2, SubscribersStay, StreamsSteps
    <3>2. CASE Open
      <4>1. subs = <<>>
        BY <3>2 DEF Open, JoinIInv, Ordered, Unopened, Unsubscribed
      <4>2. QED
        BY <2>2, <4>1
    <3>3. CASE alive /\ readyState = "OPEN" /\ ~ServerTakes
      <4>1. \A x : Has(up, x) => Has(up', x)
        BY <1>2, <3>3, OpenBefore DEF Open
      <4>2. watched' = watched
        BY <3>3, WatchedSteps
      <4>3. QED
        BY <1>0, <2>2, <3>1, <3>3, <4>1, <4>2
    <3>4. CASE alive /\ readyState = "OPEN" /\ ServerTakes
      <4>1. CASE Head(up) = subscribers_create(subs[b], b)
        BY <2>2, <3>1, <3>4, <4>1, Served
      <4>2. CASE Head(up) # subscribers_create(subs[b], b)
        <5>1. Has(up, subscribers_create(subs[b], b)) => Has(up', subscribers_create(subs[b], b))
          BY <1>0, <3>4, <4>2, UpShrinks
        <5>2. QED
          BY <1>0, <2>2, <3>1, <3>4, <5>1, WatchedStay
      <4>3. QED
        BY <4>1, <4>2
    <3>5. QED
      BY <1>2, <3>2, <3>3, <3>4, OpenBefore
  <2>3. QED
    BY <2>1, <2>2
<1>3. QED
  BY <1>1, <1>2 DEF AllSubscribed

-----------------------------------------------------------------------------
LEMMA IdSteps ==
    ASSUME SessionIInv, JoinIInv, [Next]_vars
    PROVE  \/ UNCHANGED <<streamId, subs>>
           \/ (OnStreamCreated \/ AnnounceSnapshot) /\ \E q \in Seq(Streams) : Announce(q)
<1>1. CASE OnStreamCreated \/ AnnounceSnapshot
  BY <1>1, Told DEF subscriptions
<1>2. CASE connect \/ disconnect \/ AnvilAnswers \/ Open \/ Closed \/ SocketError \/ OnCreateReply
           \/ OnStreamDeleted \/ OnReadReply \/ OnOffer \/ CreateTimeout \/ ReadTimeout \/ ServerTakes
           \/ ReadSession \/ UNCHANGED vars
  BY <1>2 DEF connect, disconnect, AnvilAnswers, Open, Closed, SocketError, OnCreateReply, OnStreamDeleted,
              OnReadReply, OnOffer, PrepareAnswer, CreateTimeout, ReadTimeout, ServerTakes, ReadSession, vars,
              subscriptions
<1>3. CASE (\E b \in DOMAIN subs : answer(b)) \/ (\E s \in Remote : RemotePublishes(s))
           \/ (\E o \in Own : publish(o)) \/ (\E s \in Streams : StreamEnds(s))
  BY <1>3 DEF answer, Answer, RemotePublishes, publish, Publish, StreamEnds, subscriptions
<1>4. QED
  BY <1>1, <1>2, <1>3 DEF Next, OnMessage, Continuation, OtherEvent

\* The options name the stream that was subscribed to last.
LEMMA IdIsTheLast ==
    ASSUME SessionIInv, JoinIInv, [Next]_vars
    PROVE  subs' # <<>> => streamId' = subs'[Len(subs')]
<1>0. subs \in Seq(Streams) /\ (subs # <<>> => streamId = subs[Len(subs)])
  BY DEF JoinIInv, Named, SessionIInv, TypeOK, SubscriptionsTypeOK
<1>1. ASSUME NEW q \in Seq(Streams), Announce(q)
      PROVE  subs' # <<>> => streamId' = subs'[Len(subs')]
  <2>1. subs' = subs \o q /\ streamId' = Extended(q)
    BY <1>1 DEF Announce, Subscribe
  <2>2. CASE q = <<>>
    <3>1. subs' = subs /\ streamId' = streamId
      BY <1>0, <2>1, <2>2 DEF Extended
    <3>2. QED
      BY <1>0, <3>1
  <2>3. CASE q # <<>>
    <3>1. streamId' = q[Len(q)]
      BY <2>1, <2>3 DEF Extended
    <3>2. Len(q) \in 1..Len(q) /\ Len(subs') = Len(subs) + Len(q) /\ Len(subs) \in Nat
      BY <1>0, <2>1, <2>3
    <3>3. subs'[Len(subs) + Len(q)] = q[Len(q)]
      BY <1>0, <2>1, <3>2, Joined
    <3>4. QED
      BY <3>1, <3>2, <3>3
  <2>4. QED
    BY <2>2, <2>3
<1>2. QED
  BY <1>0, <1>1, IdSteps

LEMMA NamedStays ==
    ASSUME SessionIInv, JoinIInv, [Next]_vars
    PROVE  Named'
<1>0. /\ up \in Seq(UpMessage) /\ subs \in Seq(Streams)
      /\ \A i \in 1..Len(up) : up[i].method = "answer" =>
             \E s \in Streams, b, c \in DOMAIN subs :
                 up[i] = subscribers_answer(s, b, "answer") /\ c >= b /\ subs[c] = s
      /\ \A a \in answered : \E b \in DOMAIN subs : b >= a[2] /\ subs[b] = a[1]
  BY DEF JoinIInv, Named, AnswersAreNamed, SessionIInv, TypeOK, SubscriptionsTypeOK
<1>1. \A b \in DOMAIN subs : b \in DOMAIN subs' /\ subs'[b] = subs[b]
  BY SubscribersStay
<1>2. ASSUME \A i \in 1..Len(up') : up'[i].method = "answer" =>
                 \/ \E j \in 1..Len(up) : up'[i] = up[j]
                 \/ \E s \in Streams, b, c \in DOMAIN subs :
                       up'[i] = subscribers_answer(s, b, "answer") /\ c >= b /\ subs[c] = s
      PROVE  \A i \in 1..Len(up') : up'[i].method = "answer" =>
                 \E s \in Streams, b, c \in DOMAIN subs' :
                     up'[i] = subscribers_answer(s, b, "answer") /\ c >= b /\ subs'[c] = s
  <2>1. ASSUME NEW i \in 1..Len(up'), up'[i].method = "answer"
        PROVE  \E s \in Streams, b, c \in DOMAIN subs' :
                   up'[i] = subscribers_answer(s, b, "answer") /\ c >= b /\ subs'[c] = s
    <3>1. \E s \in Streams, b, c \in DOMAIN subs :
              up'[i] = subscribers_answer(s, b, "answer") /\ c >= b /\ subs[c] = s
      BY <1>0, <1>2, <2>1
    <3>2. QED
      BY <1>1, <3>1
  <2>2. QED
    BY <2>1
<1>3. ASSUME NEW m \in UpMessage, up' = Append(up, m),
             m.method # "answer" \/ \E s \in Streams, b, c \in DOMAIN subs :
                                       m = subscribers_answer(s, b, "answer") /\ c >= b /\ subs[c] = s
      PROVE  \A i \in 1..Len(up') : up'[i].method = "answer" =>
                 \/ \E j \in 1..Len(up) : up'[i] = up[j]
                 \/ \E s \in Streams, b, c \in DOMAIN subs :
                       up'[i] = subscribers_answer(s, b, "answer") /\ c >= b /\ subs[c] = s
  <2>1. /\ \A i \in 1..Len(up) : up'[i] = up[i]
        /\ \A i \in 1..Len(up') : i \in 1..Len(up) \/ up'[i] = m
    BY <1>0, <1>3, Longer
  <2>2. QED
    BY <1>3, <2>1
<1>4. \A i \in 1..Len(up') : up'[i].method = "answer" =>
          \/ \E j \in 1..Len(up) : up'[i] = up[j]
          \/ \E s \in Streams, b, c \in DOMAIN subs :
                up'[i] = subscribers_answer(s, b, "answer") /\ c >= b /\ subs[c] = s
  <2>1. CASE up' = up
    BY <2>1
  <2>2. CASE up' = <<>>
    BY <2>2, NoneLeft
  <2>3. CASE up' = Opening
    <3>1. Len(Opening) = 2 /\ Opening[1] = SubscribeSession /\ Opening[2] = Create
      BY DEF Opening
    <3>2. \A i \in 1..Len(up') : up'[i].method # "answer"
      BY <2>3, <3>1, UpMethods
    <3>3. QED
      BY <3>2
  <2>4. CASE up' = Append(up, Read)
    BY <1>3, <2>4, UpMethods
  <2>5. ASSUME NEW q \in Seq(Streams), Announce(q)
        PROVE  \A i \in 1..Len(up') : up'[i].method = "answer" => \E j \in 1..Len(up) : up'[i] = up[j]
    <3>1. /\ \A i \in 1..Len(up) : up'[i] = up[i]
          /\ \A i \in 1..Len(up') :
                i \in 1..Len(up) \/ \E s \in Streams, b \in Nat : up'[i] = subscribers_create(s, b)
      BY <1>0, <2>5, Announcing DEF Announce
    <3>2. \A s, b : subscribers_create(s, b).method # "answer"
      BY UpMethods
    <3>3. QED
      BY <3>1, <3>2
  <2>6. ASSUME NEW b \in DOMAIN subs, answer(b), up' = Append(up, subscribers_answer(streamId, b, "answer"))
        PROVE  \A i \in 1..Len(up') : up'[i].method = "answer" =>
                   \/ \E j \in 1..Len(up) : up'[i] = up[j]
                   \/ \E s \in Streams, d, c \in DOMAIN subs :
                         up'[i] = subscribers_answer(s, d, "answer") /\ c >= d /\ subs[c] = s
    <3>1. /\ b <= Len(subs) /\ Len(subs) \in DOMAIN subs /\ b \in Nat
          /\ streamId \in Streams /\ streamId = subs[Len(subs)]
          /\ subscribers_answer(streamId, b, "answer") \in UpMessage
      BY <2>6, Answering
    <3>2. Len(subs) >= b
      BY <1>0, <3>1
    <3>3. \E s \in Streams, d, c \in DOMAIN subs :
              subscribers_answer(streamId, b, "answer") = subscribers_answer(s, d, "answer")
              /\ c >= d /\ subs[c] = s
      BY <3>1, <3>2
    <3>4. QED
      BY <1>3, <2>6, <3>1, <3>3
  <2>7. ASSUME NEW x \in Streams, up' = Append(up, streams_create(x))
        PROVE  \A i \in 1..Len(up') : up'[i].method = "answer" =>
                   \/ \E j \in 1..Len(up) : up'[i] = up[j]
                   \/ \E s \in Streams, b, c \in DOMAIN subs :
                         up'[i] = subscribers_answer(s, b, "answer") /\ c >= b /\ subs[c] = s
    <3>1. streams_create(x) \in UpMessage /\ streams_create(x).method # "answer"
      BY UpMethods
    <3>2. QED
      BY <1>3, <2>7, <3>1
  <2>8. CASE ServerTakes
    BY <1>0, <2>8, UpShrinks
  <2>9. QED
    BY <2>1, <2>2, <2>3, <2>4, <2>5, <2>6, <2>7, <2>8, UpSteps
<1>5. AnswersAreNamed'
  <2>1. \A a \in answered' : \E b \in DOMAIN subs : b >= a[2] /\ subs[b] = a[1]
    <3>1. CASE answered' = answered
      BY <1>0, <3>1
    <3>2. ASSUME ServerTakes, NEW s \in Streams, NEW b \in DOMAIN subs,
                 Head(up) = subscribers_answer(s, b, "answer"), answered' = answered \cup {<<s, b>>}
          PROVE  \A a \in answered' : \E c \in DOMAIN subs : c >= a[2] /\ subs[c] = a[1]
      <4>1. Head(up) = up[1] /\ 1 \in 1..Len(up) /\ up[1].method = "answer"
        BY <1>0, <3>2, UpShrinks, UpMethods
      <4>2. PICK r \in Streams, d \in DOMAIN subs, c \in DOMAIN subs :
                up[1] = subscribers_answer(r, d, "answer") /\ c >= d /\ subs[c] = r
        BY <1>0, <4>1
      <4>3. r = s /\ d = b
        <5>1. subscribers_answer(s, b, "answer") = subscribers_answer(r, d, "answer")
          BY <3>2, <4>1, <4>2
        <5>2. \A x, y, z, w : subscribers_answer(x, y, "answer") = subscribers_answer(z, w, "answer")
                                => x = z /\ y = w
          BY AnswersDiffer
        <5>3. QED
          BY <5>1, <5>2
      <4>4. <<s, b>>[1] = s /\ <<s, b>>[2] = b
        OBVIOUS
      <4>5. \A a \in answered' : a \in answered \/ a = <<s, b>>
        BY <3>2
      <4>6. \A a \in answered' : \E e \in DOMAIN subs : e >= a[2] /\ subs[e] = a[1]
        BY <1>0, <4>2, <4>3, <4>4, <4>5
      <4>7. QED
        BY <4>6
    <3>3. CASE ServerTakes
      <4>1. \/ answered' = answered
            \/ \E s \in Streams, b \in DOMAIN subs :
                  Head(up) = subscribers_answer(s, b, "answer") /\ answered' = answered \cup {<<s, b>>}
        BY <3>3 DEF ServerTakes, server
      <4>2. QED
        BY <3>1, <3>2, <3>3, <4>1
    <3>4. QED
      BY <3>1, <3>3, WatchedSteps
  <2>2. QED
    BY <1>1, <2>1 DEF AnswersAreNamed
<1>6. QED
  BY <1>2, <1>4, <1>5, IdIsTheLast DEF Named

-----------------------------------------------------------------------------
\* How often a stream is subscribed to.
LEMMA TimesType ==
    ASSUME NEW w \in Seq(Streams), NEW s
    PROVE  /\ IsFiniteSet({b \in DOMAIN w : w[b] = s})
           /\ TimesIn(w, s) \in Nat
<1>1. DOMAIN w = 1..Len(w) /\ Len(w) \in Int /\ 1 \in Int
  OBVIOUS
<1>2. IsFiniteSet(1..Len(w))
  BY <1>1, FS_Interval
<1>3. {b \in DOMAIN w : w[b] = s} \subseteq 1..Len(w)
  BY <1>1
<1>4. IsFiniteSet({b \in DOMAIN w : w[b] = s})
  BY <1>2, <1>3, FS_Subset
<1>5. QED
  BY <1>4, FS_CardinalityType DEF TimesIn

\* s is in q at most once, or not at all.
Once(q, s) == \A i, j \in 1..Len(q) : q[i] = s /\ q[j] = s => i = j
Never(q, s) == \A i \in 1..Len(q) : q[i] # s

LEMMA TimesGrow ==
    ASSUME NEW w \in Seq(Streams), NEW q \in Seq(Streams), NEW s, Once(q, s)
    PROVE  /\ TimesIn(w \o q, s) \in Nat /\ TimesIn(w, s) \in Nat
           /\ TimesIn(w \o q, s) <= TimesIn(w, s) + 1
           /\ Never(q, s) => TimesIn(w \o q, s) = TimesIn(w, s)
<1> SUFFICES ASSUME NEW v, v = w \o q
             PROVE  /\ TimesIn(v, s) \in Nat /\ TimesIn(w, s) \in Nat
                    /\ TimesIn(v, s) <= TimesIn(w, s) + 1
                    /\ Never(q, s) => TimesIn(v, s) = TimesIn(w, s)
  OBVIOUS
<1> USE DEF Once, Never
<1> DEFINE A == {b \in DOMAIN w : w[b] = s}
           B == {b \in DOMAIN v : v[b] = s}
<1>1. /\ v \in Seq(Streams) /\ DOMAIN w = 1..Len(w) /\ DOMAIN v = 1..Len(v)
      /\ \A i \in 1..Len(w) : v[i] = w[i] /\ i \in 1..Len(v)
      /\ \A i \in 1..Len(q) : v[Len(w) + i] = q[i] /\ Len(w) + i \in 1..Len(v)
      /\ \A i \in 1..Len(v) : \/ i \in 1..Len(w)
                              \/ \E k \in 1..Len(q) : i = Len(w) + k /\ v[i] = q[k]
  <2>1. /\ v \in Seq(Streams) /\ Len(w) \in Nat
        /\ \A i \in 1..Len(w) : v[i] = w[i] /\ i \in 1..Len(v)
        /\ \A i \in 1..Len(q) : v[Len(w) + i] = q[i] /\ Len(w) + i \in 1..Len(v)
        /\ \A i \in 1..Len(v) : \/ i \in 1..Len(w)
                                \/ i - Len(w) \in 1..Len(q) /\ v[i] = q[i - Len(w)] /\ i > Len(w)
    BY Joined
  <2>2. ASSUME NEW i \in 1..Len(v), i \notin 1..Len(w)
        PROVE  \E k \in 1..Len(q) : i = Len(w) + k /\ v[i] = q[k]
    <3>1. i - Len(w) \in 1..Len(q) /\ v[i] = q[i - Len(w)] /\ i = Len(w) + (i - Len(w))
      BY <2>1, <2>2
    <3>2. QED
      BY <3>1
  <2>3. DOMAIN w = 1..Len(w) /\ DOMAIN v = 1..Len(v)
    BY <2>1
  <2>4. QED
    BY <2>1, <2>2, <2>3
<1>2. TimesIn(v, s) \in Nat /\ TimesIn(w, s) \in Nat /\ IsFiniteSet(A)
  <2>1. TimesIn(v, s) \in Nat
    BY <1>1, TimesType
  <2>2. TimesIn(w, s) \in Nat /\ IsFiniteSet(A)
    BY TimesType
  <2>3. QED
    BY <2>1, <2>2
<1>3. TimesIn(v, s) = Cardinality(B) /\ TimesIn(w, s) = Cardinality(A)
  BY DEF TimesIn
<1>4. ASSUME NEW b \in 1..Len(v), v[b] = s
      PROVE  (b \in 1..Len(w) /\ w[b] = s) \/ \E k \in 1..Len(q) : b = Len(w) + k /\ q[k] = s
  BY <1>1, <1>4
<1>5. CASE \A i \in 1..Len(q) : q[i] # s
  <2>1. \A b : b \in A => b \in B
    BY <1>1
  <2>2. \A b : b \in B => b \in A
    BY <1>1, <1>4, <1>5
  <2>3. A = B
    BY <2>1, <2>2
  <2> HIDE DEF A, B
  <2>4. QED
    BY <1>2, <1>3, <1>5, <2>3
<1>6. ASSUME NEW k \in 1..Len(q), q[k] = s
      PROVE  TimesIn(v, s) <= TimesIn(w, s) + 1
  <2>1. B = A \cup {Len(w) + k}
    <3>1. ASSUME NEW b \in B PROVE b \in A \cup {Len(w) + k}
      <4>1. b \in 1..Len(v) /\ v[b] = s
        BY <1>1
      <4>2. CASE b \in 1..Len(w) /\ w[b] = s
        BY <1>1, <4>2
      <4>3. ASSUME NEW h \in 1..Len(q), b = Len(w) + h, q[h] = s PROVE b = Len(w) + k
        BY <1>6, <4>3
      <4>4. QED
        BY <1>4, <4>1, <4>2, <4>3
    <3>2. A \cup {Len(w) + k} \subseteq B
      <4>1. Len(w) + k \in 1..Len(v) /\ v[Len(w) + k] = s
        BY <1>1, <1>6
      <4>2. A \subseteq B
        BY <1>1
      <4>3. QED
        BY <1>1, <4>1, <4>2
    <3>3. QED
      BY <3>1, <3>2
  <2> HIDE DEF A, B
  <2>2. Cardinality(B) = IF Len(w) + k \in A THEN Cardinality(A) ELSE Cardinality(A) + 1
    BY <1>2, <2>1, FS_AddElement
  <2>3. QED
    BY <1>2, <1>3, <2>2
<1>7. (\A i \in 1..Len(q) : q[i] # s) => TimesIn(v, s) <= TimesIn(w, s) + 1
  BY <1>2, <1>5
<1>8. QED
  BY <1>2, <1>5, <1>6, <1>7

LEMMA TimesSame ==
    ASSUME NEW w \in Seq(Streams), NEW q \in Seq(Streams), NEW s, Never(q, s)
    PROVE  TimesIn(w \o q, s) = TimesIn(w, s)
<1>1. Once(q, s)
  BY DEF Once, Never
<1>2. Never(q, s) => TimesIn(w \o q, s) = TimesIn(w, s)
  BY <1>1, TimesGrow
<1>3. QED
  BY <1>2

\* A snapshot lists a stream once.
LEMMA ListsOnce ==
    ASSUME NEW S \in SUBSET Streams, NEW q \in Lists(S)
    PROVE  \A i, j \in 1..Len(q) : q[i] = q[j] => i = j
<1>1. IsFiniteSet(S) /\ Cardinality(S) \in Nat
  BY StreamAssumption, FS_Union, FS_Subset, FS_CardinalityType DEF Streams
<1>2. q \in [1..Cardinality(S) -> S] /\ {q[i] : i \in DOMAIN q} = S
  BY DEF Lists
<1>3. DOMAIN q = 1..Cardinality(S) /\ Len(q) = Cardinality(S)
  BY <1>1, <1>2
<1>4. q \in Surjection(1..Cardinality(S), S)
  BY <1>2, <1>3 DEF Surjection
<1>5. IsFiniteSet(1..Cardinality(S)) /\ Cardinality(1..Cardinality(S)) = Cardinality(S)
  <2>1. Cardinality(S) \in Int /\ 1 \in Int
    BY <1>1
  <2>2. /\ IsFiniteSet(1..Cardinality(S))
        /\ Cardinality(1..Cardinality(S)) = IF 1 > Cardinality(S) THEN 0 ELSE Cardinality(S) - 1 + 1
    BY <2>1, FS_Interval
  <2>3. QED
    BY <1>1, <2>2
<1>6. q \in Injection(1..Cardinality(S), S)
  BY <1>4, <1>5, FS_SurjSameCardinalityImpliesInj
<1>7. QED
  BY <1>3, <1>6 DEF Injection, IsInjective

\* What is still to be taken of the event that a stream was created.
LEMMA ComingTaken ==
    ASSUME down \in Seq(DownMessage), Takes, NEW s \in Streams,
           \A i, j \in 1..Len(down) : down[i] = Created(s) /\ down[j] = Created(s) => i = j
    PROVE  /\ \A i, j \in 1..Len(down') : down'[i] = Created(s) /\ down'[j] = Created(s) => i = j
           /\ Coming(s) \in {0, 1} /\ Coming(s)' \in {0, 1} /\ Coming(s)' <= Coming(s)
           /\ Head(down) = Created(s) => Coming(s) = 1 /\ Coming(s)' = 0
<1>1. /\ Head(down) = down[1] /\ 1 \in 1..Len(down)
      /\ \A i \in 1..Len(down') : down'[i] = down[i + 1] /\ i + 1 \in 1..Len(down) /\ 1 < i + 1
      /\ Has(down, Created(s)) <=> Has(down', Created(s)) \/ Head(down) = Created(s)
  BY DownShrinks
<1>2. \A i, j \in 1..Len(down') : down'[i] = Created(s) /\ down'[j] = Created(s) => i + 1 = j + 1
  BY <1>1
<1>3. \A i, j \in 1..Len(down') : i + 1 = j + 1 => i = j
  OBVIOUS
<1>4. ASSUME Head(down) = Created(s), NEW i \in 1..Len(down'), down'[i] = Created(s) PROVE FALSE
  <2>1. i + 1 = 1 /\ 1 < i + 1
    BY <1>1, <1>4
  <2>2. QED
    BY <2>1
<1>5. Head(down) = Created(s) => ~Has(down', Created(s))
  BY <1>4 DEF Has
<1>6. Coming(s) = (IF Has(down, Created(s)) THEN 1 ELSE 0) /\ Coming(s)' = (IF Has(down', Created(s)) THEN 1 ELSE 0)
  BY DEF Coming
<1>7. QED
  BY <1>1, <1>2, <1>3, <1>5, <1>6

LEMMA TakenCounts ==
    ASSUME SessionIInv, JoinIInv, OnMessage, NEW s \in Remote
    PROVE  /\ Times(s) \in Nat /\ Times(s)' \in Nat
           /\ Coming(s) \in {0, 1} /\ Coming(s)' \in {0, 1}
           /\ Times(s)' + Coming(s)' <= Times(s) + Coming(s)
<1>0. Takes /\ s \in Streams /\ s \notin Own /\ subs \in Seq(Streams) /\ down \in Seq(DownMessage)
  BY Handlers, StreamAssumption
     DEF OnMessage, Streams, SessionIInv, TypeOK, SubscriptionsTypeOK, WireIInv
<1>1. /\ Coming(s) \in {0, 1} /\ Coming(s)' \in {0, 1} /\ Coming(s)' <= Coming(s)
      /\ Head(down) = Created(s) => Coming(s) = 1 /\ Coming(s)' = 0
  BY <1>0, ComingTaken DEF JoinIInv, Counted
<1>2. Times(s) = TimesIn(subs, s) /\ Times(s)' = TimesIn(subs', s) /\ Times(s) \in Nat
  BY <1>0, TimesType DEF Times
<1>3. CASE subs' = subs
  BY <1>1, <1>2, <1>3
<1>4. ASSUME OnStreamCreated, Stream \notin Own, NEW q \in Seq(Streams), q = <<Stream>>, Announce(q)
      PROVE  Times(s)' \in Nat /\ Times(s)' + Coming(s)' <= Times(s) + Coming(s)
  <2>1. Head(down) = Created(Stream) /\ subs' = subs \o q /\ Len(q) = 1 /\ q[1] = Stream
    BY <1>0, <1>4, HeadIs DEF Announce, Subscribe
  <2>2. Once(q, s)
    BY <2>1 DEF Once
  <2>3. /\ TimesIn(subs', s) \in Nat /\ TimesIn(subs', s) <= TimesIn(subs, s) + 1
    BY <1>0, <2>1, <2>2, TimesGrow
  <2>4. CASE Stream = s
    BY <1>1, <1>2, <2>1, <2>3, <2>4
  <2>5. CASE Stream # s
    <3>1. Never(q, s)
      BY <2>1, <2>5 DEF Never
    <3>2. TimesIn(subs', s) = TimesIn(subs, s)
      BY <1>0, <2>1, <3>1, TimesSame
    <3>3. QED
      BY <1>1, <1>2, <2>3, <3>2
  <2>6. QED
    BY <2>4, <2>5
<1>5. CASE OnStreamCreated
  <2>1. ~AnnounceSnapshot
    BY <1>5 DEF OnStreamCreated, AnnounceSnapshot
  <2>2. QED
    BY <1>1, <1>2, <1>3, <1>4, <1>5, <2>1, Announced DEF subscriptions
<1>6. CASE OnCreateReply \/ OnReadReply \/ OnStreamDeleted \/ OnOffer
  <2>1. subs' = subs
    BY <1>6, Handlers DEF OnMessage, subscriptions
  <2>2. QED
    BY <1>1, <1>2, <1>3, <2>1
<1>7. QED
  BY <1>5, <1>6 DEF OnMessage

\* The continuation of the read announces each stream of the snapshot once more, and no
\* other.
LEMMA SnapshotCounts ==
    ASSUME SessionIInv, JoinIInv, AnnounceSnapshot, NEW s \in Remote
    PROVE  /\ Times(s) \in Nat /\ Times(s)' \in Nat
           /\ Times(s)' <= Times(s) + 1
           /\ s \notin snapshot => Times(s)' = Times(s)
<1>0. subs \in Seq(Streams) /\ snapshot \in SUBSET Streams
  BY DEF SessionIInv, TypeOK, SubscriptionsTypeOK
<1>1. Times(s) = TimesIn(subs, s) /\ Times(s)' = TimesIn(subs', s)
  BY DEF Times
<1>2. PICK q \in Lists(snapshot) : Announce(q)
  BY DEF AnnounceSnapshot
<1>3. q \in Seq(Streams) /\ subs' = subs \o q
  BY <1>0, <1>2, ListsAreSequences DEF Announce, Subscribe
<1>4. Once(q, s)
  <2>1. \A i, j \in 1..Len(q) : q[i] = q[j] => i = j
    BY <1>0, <1>2, ListsOnce
  <2>2. QED
    BY <2>1 DEF Once
<1>5. s \notin snapshot => Never(q, s)
  <2>1. {q[i] : i \in DOMAIN q} = snapshot /\ DOMAIN q = 1..Len(q)
    BY <1>2, <1>3 DEF Lists
  <2>2. QED
    BY <2>1 DEF Never
<1>6. /\ TimesIn(subs', s) \in Nat /\ TimesIn(subs, s) \in Nat
      /\ TimesIn(subs', s) <= TimesIn(subs, s) + 1
      /\ Never(q, s) => TimesIn(subs', s) = TimesIn(subs, s)
  BY <1>0, <1>3, <1>4, TimesGrow
<1>7. QED
  BY <1>1, <1>5, <1>6

\* The bound on the subscriptions of a stream does not go down.
LEMMA BoundGrows ==
    ASSUME SessionIInv, JoinIInv, [Next]_vars, NEW s
    PROVE  /\ InWindow(s) \in {0, 1} /\ InWindow(s)' \in {0, 1} /\ InWindow(s) <= InWindow(s)'
           /\ Late(s) \in {0, 1} /\ Late(s)' \in {0, 1} /\ Late(s) <= Late(s)'
           /\ AnnounceSnapshot /\ s \in snapshot => Late(s)' = Late(s) + 1
           /\ past \subseteq past'
<1>1. window \subseteq window'
  <2>1. CASE ServerTakes
    BY <2>1 DEF ServerTakes, server, Appears
  <2>2. CASE connect \/ disconnect \/ AnvilAnswers \/ Open \/ Closed \/ SocketError \/ OnCreateReply
             \/ OnStreamCreated \/ OnStreamDeleted \/ OnReadReply \/ OnOffer \/ CreateTimeout \/ ReadTimeout
             \/ ReadSession \/ AnnounceSnapshot \/ UNCHANGED vars
    BY <2>2 DEF connect, disconnect, AnvilAnswers, Open, Closed, SocketError, OnCreateReply,
                OnStreamCreated, OnStreamDeleted, OnReadReply, OnOffer, CreateTimeout, ReadTimeout,
                ReadSession, AnnounceSnapshot, vars, server
  <2>3. CASE (\E b \in DOMAIN subs : answer(b)) \/ (\E o \in Own : publish(o))
             \/ (\E r \in Streams : StreamEnds(r)) \/ (\E r \in Remote : RemotePublishes(r))
    BY <2>3 DEF answer, publish, StreamEnds, RemotePublishes, Appears, server
  <2>4. QED
    BY <2>1, <2>2, <2>3 DEF Next, OnMessage, Continuation, OtherEvent
<1>2. /\ read \notin {"none", "pending"} => read' \notin {"none", "pending"}
      /\ read \notin {"none", "pending"} /\ read' = "replied" /\ s \in snapshot' => read = "replied" /\ s \in snapshot
  BY ReadSteps, SnapshotSteps
<1>3. past \subseteq past'
  BY PastSteps
<1>4. AnnounceSnapshot => read = "replied" /\ read' = "answered"
  BY DEF AnnounceSnapshot
<1>5. QED
  BY <1>1, <1>2, <1>3, <1>4 DEF InWindow, Late

LEMMA CountedStays ==
    ASSUME SessionIInv, JoinIInv, [Next]_vars
    PROVE  Counted'
<1> SUFFICES ASSUME NEW s \in Remote
             PROVE  /\ \A i, j \in 1..Len(down') : down'[i] = Created(s) /\ down'[j] = Created(s) => i = j
                    /\ s \notin past' => Times(s)' + Coming(s)' = 0
                    /\ Times(s)' + Coming(s)' <= InWindow(s)' + Late(s)'
  BY DEF Counted
<1>0. /\ subs \in Seq(Streams) /\ down \in Seq(DownMessage) /\ s \in Streams
      /\ \A i, j \in 1..Len(down) : down[i] = Created(s) /\ down[j] = Created(s) => i = j
      /\ s \notin past => Times(s) + Coming(s) = 0
      /\ Times(s) + Coming(s) <= InWindow(s) + Late(s)
  BY DEF JoinIInv, Counted, SessionIInv, TypeOK, SubscriptionsTypeOK, WireIInv, Streams
<1>1. /\ InWindow(s) \in {0, 1} /\ InWindow(s)' \in {0, 1} /\ InWindow(s) <= InWindow(s)'
      /\ Late(s) \in {0, 1} /\ Late(s)' \in {0, 1} /\ Late(s) <= Late(s)'
      /\ AnnounceSnapshot /\ s \in snapshot => Late(s)' = Late(s) + 1
      /\ past \subseteq past'
  BY BoundGrows
<1>2. Times(s) \in Nat /\ Times(s) = TimesIn(subs, s) /\ Times(s)' = TimesIn(subs', s)
  BY <1>0, TimesType DEF Times
<1>3. /\ Coming(s) = (IF Has(down, Created(s)) THEN 1 ELSE 0)
      /\ Coming(s)' = (IF Has(down', Created(s)) THEN 1 ELSE 0)
  BY DEF Coming
<1>4. CASE OnMessage
  <2>1. /\ Takes /\ past' = past
        /\ \A i, j \in 1..Len(down') : down'[i] = Created(s) /\ down'[j] = Created(s) => i = j
    BY <1>0, <1>4, Handlers, ComingTaken DEF OnMessage, server
  <2>2. /\ Times(s)' \in Nat /\ Coming(s) \in {0, 1} /\ Coming(s)' \in {0, 1}
        /\ Times(s)' + Coming(s)' <= Times(s) + Coming(s)
    BY <1>4, TakenCounts
  <2>3. s \notin past' => Times(s)' + Coming(s)' = 0
    BY <1>0, <1>2, <2>1, <2>2
  <2>4. Times(s)' + Coming(s)' <= InWindow(s)' + Late(s)'
    BY <1>0, <1>1, <1>2, <2>2
  <2>5. QED
    BY <2>1, <2>3, <2>4
<1>5. CASE subs' = subs /\ down' = <<>>
  <2>1. ~Has(down', Created(s))
    BY <1>5, NoneLeft DEF Has
  <2>2. QED
    BY <1>0, <1>1, <1>2, <1>3, <1>5, <2>1, NoneLeft
<1>6. CASE subs' = subs /\ down' = down
  BY <1>0, <1>1, <1>2, <1>3, <1>6
<1>7. ASSUME subs' = subs, NEW m \in DownMessage, m # Created(s), down' = Append(down, m)
      PROVE  /\ \A i, j \in 1..Len(down') : down'[i] = Created(s) /\ down'[j] = Created(s) => i = j
             /\ s \notin past' => Times(s)' + Coming(s)' = 0
             /\ Times(s)' + Coming(s)' <= InWindow(s)' + Late(s)'
  <2>1. /\ \A i \in 1..Len(down) : down'[i] = down[i]
        /\ \A i \in 1..Len(down') : i \in 1..Len(down) \/ down'[i] = m
        /\ Has(down', Created(s)) <=> Has(down, Created(s))
    <3>1. /\ \A i \in 1..Len(down) : down'[i] = down[i]
          /\ down'[Len(down) + 1] = m
          /\ \A i \in 1..Len(down') : i \in 1..Len(down) \/ i = Len(down) + 1
      BY <1>0, <1>7, Longer
    <3>2. Has(down', Created(s)) <=> Has(down, Created(s)) \/ m = Created(s)
      BY <1>0, <1>7, DownGrows
    <3>3. QED
      BY <1>7, <3>1, <3>2
  <2>2. \A i, j \in 1..Len(down') : down'[i] = Created(s) /\ down'[j] = Created(s) => i = j
    BY <1>0, <1>7, <2>1
  <2>3. QED
    BY <1>0, <1>1, <1>2, <1>3, <1>7, <2>1, <2>2
<1>8. ASSUME subs' = subs, s \notin past, Appears(s), down' = Append(down, Created(s))
      PROVE  /\ \A i, j \in 1..Len(down') : down'[i] = Created(s) /\ down'[j] = Created(s) => i = j
             /\ s \notin past' => Times(s)' + Coming(s)' = 0
             /\ Times(s)' + Coming(s)' <= InWindow(s)' + Late(s)'
  <2>1. Times(s) = 0 /\ ~Has(down, Created(s))
    BY <1>0, <1>2, <1>3, <1>8
  <2>2. Created(s) \in DownMessage
    BY <1>0, DownKinds
  <2>3. \A i \in 1..Len(down') : down'[i] = Created(s) => i = Len(down) + 1
    <3>1. /\ \A i \in 1..Len(down) : down'[i] = down[i]
          /\ \A i \in 1..Len(down') : i \in 1..Len(down) \/ i = Len(down) + 1
      BY <1>0, <1>8, <2>2, Longer
    <3>2. QED
      BY <2>1, <3>1 DEF Has
  <2>4. subscribed
    <3>1. Append(down, Created(s)) # down
      BY <1>0, <2>2, AppendGrows
    <3>2. QED
      BY <1>8, <3>1 DEF Appears, Notify
  <2>5. InWindow(s)' = 1 \/ Late(s)' = 1
    <3>1. CASE read \in {"none", "pending"}
      BY <1>8, <2>4, <3>1 DEF Appears, InWindow
    <3>2. CASE read \notin {"none", "pending"}
      <4>1. s \notin snapshot
        BY <1>8 DEF JoinIInv, FromThePast
      <4>2. Late(s) = 1
        BY <3>2, <4>1 DEF Late
      <4>3. QED
        BY <1>1, <4>2
    <3>3. QED
      BY <3>1, <3>2
  <2>6. s \in past'
    BY <1>8 DEF Appears
  <2>7. Times(s)' = 0 /\ Coming(s)' \in {0, 1}
    BY <1>2, <1>3, <1>8, <2>1
  <2>8. QED
    BY <1>1, <2>3, <2>5, <2>6, <2>7
<1>9. ASSUME NEW r \in Streams PROVE Created(r) = Created(s) => r = s
  BY <1>0, DownKinds
<1>10. /\ \A r \in Streams : Deleted(r) # Created(s)
       /\ Reply(Create, Empty) # Created(s)
       /\ \A S \in SUBSET Streams : Reply(Read, [streams |-> S]) # Created(s)
       /\ \A r, b : Offer(r, b) # Created(s)
  BY <1>0, DownKinds DEF IsSnapshot
<1>11. streams \in SUBSET Streams
  BY DEF SessionIInv, TypeOK
<1>12. ASSUME subs' = subs, NEW m \in DownMessage, down' = Append(down, m),
              NEW r \in Streams, r \notin past, Appears(r), m = Created(r)
       PROVE  /\ \A i, j \in 1..Len(down') : down'[i] = Created(s) /\ down'[j] = Created(s) => i = j
              /\ s \notin past' => Times(s)' + Coming(s)' = 0
              /\ Times(s)' + Coming(s)' <= InWindow(s)' + Late(s)'
  <2>1. CASE r = s
    BY <1>8, <1>12, <2>1
  <2>2. CASE r # s
    BY <1>7, <1>9, <1>12, <2>2
  <2>3. QED
    BY <2>1, <2>2
<1>13. ASSUME subs' = subs, NEW m \in DownMessage, down' = Append(down, m),
              \/ \E r \in Streams : m = Deleted(r)
              \/ m = Reply(Create, Empty)
              \/ m = Reply(Read, [streams |-> streams])
              \/ \E r \in Streams, b \in DOMAIN subs : m = Offer(r, b)
       PROVE  /\ \A i, j \in 1..Len(down') : down'[i] = Created(s) /\ down'[j] = Created(s) => i = j
              /\ s \notin past' => Times(s)' + Coming(s)' = 0
              /\ Times(s)' + Coming(s)' <= InWindow(s)' + Late(s)'
  <2>1. m # Created(s)
    BY <1>10, <1>11, <1>13
  <2>2. QED
    BY <1>7, <1>13, <2>1
<1>14. CASE AnnounceSnapshot /\ down' = down /\ past' = past
  <2>1. /\ Times(s)' \in Nat /\ Times(s)' <= Times(s) + 1
        /\ s \notin snapshot => Times(s)' = Times(s)
    BY <1>14, SnapshotCounts
  <2>2. Coming(s)' = Coming(s) /\ Coming(s) \in {0, 1}
    BY <1>3, <1>14
  <2>3. snapshot \subseteq past
    BY DEF JoinIInv, FromThePast
  <2>4. \A i, j \in 1..Len(down') : down'[i] = Created(s) /\ down'[j] = Created(s) => i = j
    BY <1>0, <1>14
  <2>5. CASE s \in snapshot
    BY <1>1, <1>0, <1>2, <1>14, <2>1, <2>2, <2>3, <2>4, <2>5
  <2>6. CASE s \notin snapshot
    BY <1>1, <1>0, <1>2, <1>14, <2>1, <2>2, <2>4, <2>6
  <2>7. QED
    BY <2>5, <2>6
<1>15. QED
  BY <1>4, <1>5, <1>6, <1>12, <1>13, <1>14, Moves

-----------------------------------------------------------------------------
\* A stream ends once, and so the streams whose end overtook the snapshot are in the
\* picture when it has been announced.
LEMMA OvertakenSteps ==
    ASSUME [Next]_vars
    PROVE  overtaken' = overtaken \/ OnStreamDeleted
<1>1. CASE connect \/ disconnect \/ AnvilAnswers \/ Open \/ Closed \/ SocketError \/ OnCreateReply
           \/ OnStreamCreated \/ OnReadReply \/ OnOffer \/ CreateTimeout \/ ReadTimeout
           \/ ReadSession \/ AnnounceSnapshot \/ UNCHANGED vars
  BY <1>1 DEF connect, disconnect, AnvilAnswers, Open, Closed, SocketError, OnCreateReply, OnStreamCreated,
              OnReadReply, OnOffer, CreateTimeout, ReadTimeout, ReadSession, AnnounceSnapshot, vars, joining, loop
<1>2. CASE ServerTakes \/ (\E b \in DOMAIN subs : answer(b)) \/ (\E s \in Remote : RemotePublishes(s))
           \/ (\E o \in Own : publish(o)) \/ (\E s \in Streams : StreamEnds(s))
  BY <1>2 DEF ServerTakes, answer, RemotePublishes, publish, StreamEnds, joining, loop
<1>3. QED
  BY <1>1, <1>2 DEF Next, OnMessage, Continuation, OtherEvent

LEMMA EndedOnceStays ==
    ASSUME SessionIInv, JoinIInv, [Next]_vars
    PROVE  EndedOnce'
<1>0. /\ down \in Seq(DownMessage) /\ WireIInv /\ Overtaking /\ streams \in SUBSET Streams
      /\ \A s \in Streams : \A i, j \in 1..Len(down) : Ends(down[i], s) /\ Ends(down[j], s) => i = j
      /\ \A s \in Streams \cap gone : \A i \in 1..Len(down) : ~Ends(down[i], s)
      /\ overtaken \subseteq view \cup snapshot
  BY DEF SessionIInv, WireIInv, TypeOK, JoinIInv, EndedOnce
<1>1. overtaken' \subseteq view' \cup snapshot'
  <2>1. CASE OnStreamDeleted
    <3>1. Takes /\ view' = view \ {Stream} /\ snapshot' = snapshot /\ overtaken' = overtaken \cup ({Stream} \cap snapshot)
      BY <2>1 DEF OnStreamDeleted, TakesEvent, Kept
    <3>2. Stream \in Streams /\ Ends(Head(down), Stream) /\ Head(down) = down[1] /\ 1 \in 1..Len(down)
      BY <1>0, <2>1, <3>1, HeadIs, AnnouncedByName, DownShrinks
    <3>3. Stream \notin overtaken
      BY <1>0, <3>2 DEF Overtaking
    <3>4. QED
      BY <1>0, <3>1, <3>3
  <2>2. CASE AnnounceSnapshot
    <3>1. view' = view \cup snapshot /\ overtaken' = overtaken
      BY <2>2, AnnouncesSet DEF AnnounceSnapshot
    <3>2. QED
      BY <1>0, <3>1
  <2>3. CASE ~OnStreamDeleted /\ ~AnnounceSnapshot
    <3>1. view \subseteq view'
      BY <2>3, ViewSteps DEF Announce
    <3>2. snapshot \subseteq snapshot'
      BY <1>0, <2>3, SnapshotSteps DEF Overtaking
    <3>3. QED
      BY <1>0, <2>3, <3>1, <3>2, OvertakenSteps
  <2>4. QED
    BY <2>1, <2>2, <2>3
<1>2. CASE OnMessage /\ Takes
  <2>1. /\ Head(down) = down[1] /\ 1 \in 1..Len(down)
        /\ \A i \in 1..Len(down') : down'[i] = down[i + 1] /\ i + 1 \in 1..Len(down) /\ i + 1 # 1
    BY <1>0, <1>2, DownShrinks
  <2>2. \A s \in Streams : \A i, j \in 1..Len(down') : Ends(down'[i], s) /\ Ends(down'[j], s) => i + 1 = j + 1
    BY <1>0, <2>1
  <2>3. \A i, j \in 1..Len(down') : i + 1 = j + 1 => i = j
    OBVIOUS
  <2>4. \A s \in Streams \cap gone' : s \in gone \/ Ends(down[1], s)
    <3>1. gone' = gone \/ (OnStreamDeleted /\ gone' = gone \cup {Stream} /\ Stream \in Streams)
      BY <1>0, KnownSteps
    <3>2. OnStreamDeleted => Ends(down[1], Stream)
      BY <1>2, <2>1, HeadIs, AnnouncedByName
    <3>3. QED
      BY <3>1, <3>2
  <2>5. \A s \in Streams \cap gone' : \A i \in 1..Len(down') : ~Ends(down'[i], s)
    BY <1>0, <2>1, <2>4
  <2>6. QED
    BY <1>1, <2>2, <2>3, <2>5 DEF EndedOnce
<1>3. CASE down' = <<>>
  BY <1>1, <1>3, NoneLeft DEF EndedOnce
<1> SUFFICES ASSUME ~OnMessage
             PROVE  EndedOnce'
  BY <1>2, Handlers
<1>4. gone' = gone
  BY <1>0, KnownSteps DEF OnMessage
<1>5. CASE down' = down
  BY <1>0, <1>1, <1>4, <1>5 DEF EndedOnce
<1>6. ASSUME NEW m \in DownMessage, down' = Append(down, m),
             \A s \in Streams : Ends(m, s) => s \notin gone /\ \A i \in 1..Len(down) : ~Ends(down[i], s)
      PROVE  EndedOnce'
  <2>1. /\ \A i \in 1..Len(down) : down'[i] = down[i]
        /\ down'[Len(down) + 1] = m
        /\ \A i \in 1..Len(down') : i \in 1..Len(down) \/ i = Len(down) + 1
    BY <1>0, <1>6, Longer
  <2>2. \A s \in Streams : \A i, j \in 1..Len(down') : Ends(down'[i], s) /\ Ends(down'[j], s) => i = j
    BY <1>0, <1>6, <2>1
  <2>3. \A s \in Streams \cap gone' : \A i \in 1..Len(down') : ~Ends(down'[i], s)
    BY <1>0, <1>4, <1>6, <2>1
  <2>4. QED
    BY <1>1, <2>2, <2>3 DEF EndedOnce
<1>7. ASSUME NEW r \in Streams, StreamEnds(r), NEW m, m = Deleted(r), NEW s \in Streams, Ends(m, s)
      PROVE  s \notin gone /\ \A i \in 1..Len(down) : ~Ends(down[i], s)
  <2>1. s = r /\ r \in streams
    BY <1>7, DeletedSays DEF StreamEnds
  <2>2. ~Over(s)
    BY <2>1 DEF Over
  <2>3. QED
    BY <1>0, <2>2 DEF WireIInv, WireSafe, EndedAreOver
<1>8. \A r \in Streams : \A s : ~Ends(Created(r), s)
  BY CreatedSays
<1>9. \A s : ~Ends(Reply(Create, Empty), s) /\ ~Ends(Reply(Read, [streams |-> streams]), s)
  BY <1>0, CreateReplySays, ReadReplySays
<1>10. \A r \in Streams, b \in DOMAIN subs : \A s : ~Ends(Offer(r, b), s)
  <2>1. \A b \in DOMAIN subs : b \in Nat
    BY DEF SessionIInv, TypeOK, SubscriptionsTypeOK
  <2>2. QED
    BY <2>1, OfferSays
<1>11. QED
  BY <1>2, <1>3, <1>5, <1>6, <1>7, <1>8, <1>9, <1>10, Moves

-----------------------------------------------------------------------------
LEMMA InitJoins == Init => JoinIInv
<1> SUFFICES ASSUME Init PROVE JoinIInv
  OBVIOUS
<1>1. /\ up = <<>> /\ down = <<>> /\ subs = <<>> /\ preparing = {} /\ view = {} /\ answered = {}
      /\ past = {} /\ streams = {} /\ ~subscribed /\ readyState = "none" /\ read = "none"
      /\ create = "none" /\ promise = "none" /\ snapshot = {} /\ overtaken = {} /\ Len(<<>>) = 0 /\ 1..0 = {} /\ DOMAIN subs = {}
      /\ <<>> \in Seq(UpMessage) /\ <<>> \in Seq(Streams)
  BY DEF Init, SubscriptionsInit
<1>2. Ordered
  BY <1>1 DEF Ordered, Unsubscribed, Unopened, Unwired, Registered
<1>3. OneRead
  BY <1>1 DEF OneRead, Has, SnapshotComes
<1>4. OwnLater
  BY <1>1 DEF OwnLater
<1>5. FromThePast
  BY <1>1 DEF FromThePast
<1>6. NothingLeft /\ NothingMissing /\ EndedOnce
  BY <1>1 DEF NothingLeft, NothingMissing, EndedOnce, known
<1>7. AllSubscribed /\ Named
  BY <1>1 DEF AllSubscribed, Named, AnswersAreNamed
<1>8. Counted
  <2>1. ASSUME NEW s \in Remote PROVE Times(s) + Coming(s) = 0
    <3>1. {b \in DOMAIN subs : subs[b] = s} = {}
      BY <1>1
    <3>2. Times(s) = 0
      BY <3>1, FS_EmptySet DEF Times, TimesIn
    <3>3. Coming(s) = 0
      BY <1>1 DEF Coming, Has
    <3>4. QED
      BY <3>2, <3>3
  <2>2. \A s : InWindow(s) \in {0, 1} /\ Late(s) \in {0, 1}
    BY DEF InWindow, Late
  <2>3. \A s \in Remote : 0 <= InWindow(s) + Late(s)
    BY <2>2
  <2>4. ASSUME NEW s \in Remote PROVE Times(s) + Coming(s) <= InWindow(s) + Late(s)
    BY <2>1, <2>3
  <2>5. \A s \in Remote : \A i, j \in 1..Len(down) : down[i] = Created(s) /\ down[j] = Created(s) => i = j
    BY <1>1
  <2>6. QED
    BY <2>1, <2>4, <2>5 DEF Counted
<1>9. QED
  BY <1>1, <1>2, <1>3, <1>4, <1>5, <1>6, <1>7, <1>8 DEF JoinIInv

LEMMA JoinStays ==
    ASSUME SessionIInv, JoinIInv, [Next]_vars
    PROVE  SessionIInv' /\ JoinIInv'
<1>1. SessionIInv'
  BY TypesStay, WireStaysSafe DEF SessionIInv
<1>2. QED
  BY <1>1, UpStaysTyped, OrderedStays, OneReadStays, OwnStaysLater, FromThePastStays, NothingLeftStays,
     NothingMissingStays, AllSubscribedStays, NamedStays, CountedStays, EndedOnceStays
     DEF JoinIInv

LEMMA JoiningHolds == Spec => [](SessionIInv /\ JoinIInv)
<1>1. Init => SessionIInv /\ JoinIInv
  BY InitIsSafe, InitJoins
<1>2. SessionIInv /\ JoinIInv /\ [Next]_vars => (SessionIInv /\ JoinIInv)'
  BY JoinStays
<1>3. QED
  BY <1>1, <1>2, PTL DEF Spec

\* When everything has been answered the picture is that of the session.
LEMMA NothingOnTheWay ==
    ASSUME SessionIInv, JoinIInv, Settled
    PROVE  /\ view = (streams \ Own) \cup overtaken
           /\ \A s \in streams \ Own : \E b \in DOMAIN subs : subs[b] = s /\ <<s, b>> \in watched
<1>1. /\ Connected /\ alive /\ readyState = "OPEN" /\ read = "answered" /\ up = <<>> /\ down = <<>>
      /\ Len(<<>>) = 0 /\ 1..0 = {}
  BY DEF Settled, Connected
<1>2. /\ view \subseteq Streams /\ streams \subseteq Streams /\ view \cap Own = {}
      /\ snapshot = {} /\ overtaken \subseteq view /\ known = view \ overtaken
  BY <1>1 DEF SessionIInv, TypeOK, WireIInv, Overtaking, JoinIInv, OwnLater, EndedOnce, known
<1>3. \A s \in known : s \in streams
  BY <1>1, <1>2 DEF JoinIInv, NothingLeft
<1>4. \A s \in streams \ Own : s \in known
  BY <1>1 DEF JoinIInv, NothingMissing
<1>5. ASSUME NEW s \in streams \ Own
      PROVE  \E b \in DOMAIN subs : subs[b] = s /\ <<s, b>> \in watched
  <2>1. PICK b \in DOMAIN subs : subs[b] = s
    BY <1>2, <1>4, <1>5 DEF JoinIInv, AllSubscribed
  <2>2. ~Has(up, subscribers_create(subs[b], b))
    BY <1>1 DEF Has
  <2>3. <<subs[b], b>> \in watched
    BY <1>1, <2>1, <2>2 DEF JoinIInv, AllSubscribed
  <2>4. QED
    BY <2>1, <2>3
<1>6. QED
  BY <1>2, <1>3, <1>4, <1>5

LEMMA CountsBound ==
    ASSUME SessionIInv, JoinIInv
    PROVE  SubscribedOnce
<1>1. ASSUME NEW s \in Own PROVE Cardinality({b \in DOMAIN subs : subs[b] = s}) = 0
  <2>1. {b \in DOMAIN subs : subs[b] = s} = {}
    BY <1>1 DEF JoinIInv, OwnLater
  <2>2. QED
    BY <2>1, FS_EmptySet
<1>2. ASSUME NEW s \in Remote
      PROVE  Cardinality({b \in DOMAIN subs : subs[b] = s}) <= IF s \in window THEN 2 ELSE 1
  <2>1. Times(s) \in Nat /\ Times(s) + Coming(s) <= InWindow(s) + Late(s)
    BY TimesType DEF Times, JoinIInv, Counted, SessionIInv, TypeOK, SubscriptionsTypeOK
  <2>2. Coming(s) \in {0, 1} /\ Late(s) \in {0, 1} /\ InWindow(s) = IF s \in window THEN 1 ELSE 0
    BY DEF Coming, Late, InWindow
  <2>3. Times(s) <= IF s \in window THEN 2 ELSE 1
    BY <2>1, <2>2
  <2>4. QED
    BY <2>3 DEF Times, TimesIn
<1>3. QED
  BY <1>1, <1>2, StreamAssumption DEF SubscribedOnce, Streams

\* Whatever was published or ended while the client was joining: once both wires are
\* empty and the snapshot was announced, the application's picture is the session's streams,
\* without its own, and the streams whose end overtook the snapshot. Otherwise neither the
\* events before the snapshot (opentok.js, the handlers of 'stream#created' and
\* 'stream#deleted') nor those after it are missed or undone.
THEOREM PictureConverges == Spec => []ViewConverges
<1>1. SessionIInv /\ JoinIInv => ViewConverges
  BY NothingOnTheWay DEF ViewConverges
<1>2. QED
  BY <1>1, JoiningHolds, PTL

\* And each of those streams is sent to the application, by a subscriber the server knows.
THEOREM StreamsAreWatched == Spec => []EveryStreamIsWatched
<1>1. SessionIInv /\ JoinIInv => EveryStreamIsWatched
  BY NothingOnTheWay DEF EveryStreamIsWatched
<1>2. QED
  BY <1>1, JoiningHolds, PTL

\* The event and the snapshot may both announce a stream, but nothing else does, and
\* only if it was created between the subscription to the session and the read.
THEOREM SubscribedAtMostTwice == Spec => []SubscribedOnce
<1>1. SessionIInv /\ JoinIInv => SubscribedOnce
  BY CountsBound
<1>2. QED
  BY <1>1, JoiningHolds, PTL

\* The options that an answer reads its stream from name the subscriber's own stream, or
\* that of a later subscriber: never an earlier one's, and never no stream.
THEOREM AnswersNameAStream == Spec => []AnswersAreNamed
<1>1. SessionIInv /\ JoinIInv => AnswersAreNamed
  BY DEF JoinIInv, Named
<1>2. QED
  BY <1>1, JoiningHolds, PTL

-----------------------------------------------------------------------------
\* A message on the wire, at n or behind it.
From(n, m) == \E j \in 1..Len(down) : n <= j /\ down[j] = m

\* The streams there were when the n-th message on the wire was sent.
StreamsAt(n) == {s \in past : ~From(n, Created(s)) /\ (s \in streams \/ From(n, Deleted(s)))}

\* What keeps the picture a replica: a stream's creation and its deletion are on the wire
\* once; the snapshot holds the streams there were when it was sent; and no stream of the
\* picture, or of a snapshot that waits, is still to be created.
ToldOnce ==
    \A s \in Streams : \A i, j \in 1..Len(down) :
        /\ down[i] = Created(s) /\ down[j] = Created(s) => i = j
        /\ down[i] = Deleted(s) /\ down[j] = Deleted(s) => i = j
SnapshotIsTrue ==
    \A i \in 1..Len(down) : IsSnapshot(down[i]) => down[i].content.streams = StreamsAt(i)
KnownBefore == \A s \in known : ~Has(down, Created(s))

ReplicaIInv == ToldOnce /\ SnapshotIsTrue /\ KnownBefore

\* What the replica calls its copy, listening and joined, and the messages that say nothing
\* of a stream that is new.
picture == view \ overtaken
Listening == subscribed /\ Connected
HasJoined == read = "answered" /\ Connected
HasRead == read \in {"replied", "answered"} /\ Connected
Quiet(m) ==
    \/ m = Reply(Create, Empty)
    \/ m = Reply(Read, [streams |-> streams])
    \/ \E s \in Streams, b \in Nat : m = Offer(s, b)

\* What the server puts on the wire, and what it leaves alone.
LEMMA ServerSteps ==
    ASSUME SessionIInv, ServerTakes
    PROVE  /\ UNCHANGED <<picture, read, alive, readyState>>
           /\ \/ UNCHANGED <<down, streams, past>> /\ (subscribed' \/ subscribed' = subscribed)
              \/ /\ \E s \in Streams : s \notin past /\ Appears(s)
                 /\ subscribed' = subscribed
              \/ /\ \E m \in DownMessage : Quiet(m) /\ down' = Append(down, m)
                 /\ UNCHANGED <<subscribed, streams, past>>
<1>0. subs \in Seq(Streams) /\ streams \in SUBSET Streams /\ DOMAIN subs \subseteq Nat
  BY DEF SessionIInv, TypeOK, SubscriptionsTypeOK
<1>1. UNCHANGED <<picture, read, alive, readyState>>
  BY DEF ServerTakes, joining, loop, picture
<1>2. CASE Head(up) = SubscribeSession /\ subscribed' = TRUE /\ UNCHANGED <<streams, past, down>>
  BY <1>1, <1>2
<1>3. CASE UNCHANGED server /\ down' = Append(down, Reply(Create, Empty))
  BY <1>1, <1>3, CreateReplySays DEF server, Quiet
<1>4. CASE UNCHANGED server /\ down' = Append(down, Reply(Read, [streams |-> streams]))
  BY <1>0, <1>1, <1>4, ReadReplySays DEF server, Quiet
<1>5. ASSUME NEW s \in Streams, subscribed' = subscribed,
             IF s \in past THEN UNCHANGED <<streams, past, window, down>> ELSE Appears(s)
      PROVE  \/ UNCHANGED <<down, streams, past>> /\ subscribed' = subscribed
             \/ \E r \in Streams : r \notin past /\ Appears(r) /\ subscribed' = subscribed
  BY <1>5
<1>6. ASSUME NEW s \in Streams, NEW b \in DOMAIN subs, UNCHANGED <<subscribed, streams, past>>,
             IF s \in streams THEN watched' = watched \cup {<<s, b>>} /\ down' = Append(down, Offer(s, b))
             ELSE UNCHANGED <<watched, down>>
      PROVE  \/ UNCHANGED <<down, streams, past>> /\ subscribed' = subscribed
             \/ /\ \E m \in DownMessage : Quiet(m) /\ down' = Append(down, m)
                /\ UNCHANGED <<subscribed, streams, past>>
  <2>1. b \in Nat /\ Offer(s, b) \in DownMessage /\ Quiet(Offer(s, b))
    BY <1>0, OfferSays DEF Quiet
  <2>2. QED
    BY <1>6, <2>1
<1>7. CASE UNCHANGED <<subscribed, streams, past, down>>
  BY <1>1, <1>7
<1>8. QED
  BY <1>1, <1>2, <1>3, <1>4, <1>5, <1>6, <1>7 DEF ServerTakes, server

LEMMA ReplicaSteps ==
    ASSUME SessionIInv, JoinIInv, [Next]_vars
    PROVE  \/ OnMessage
           \/ AnnounceSnapshot
           \/ (Closed /\ ~Waiting) \/ SocketError
           \/ /\ \E s \in Streams : s \notin past /\ Appears(s)
              /\ alive /\ UNCHANGED <<picture, read, alive, readyState, subscribed>>
           \/ \E s \in Streams : StreamEnds(s)
           \/ /\ \E m \in DownMessage : Quiet(m) /\ down' = Append(down, m)
              /\ UNCHANGED <<picture, read, alive, readyState, subscribed, streams, past>>
           \/ /\ UNCHANGED <<picture, down, streams, past>>
              /\ HasJoined' = HasJoined /\ HasRead' = HasRead
              /\ Listening' \/ Listening' = Listening
<1>1. CASE connect \/ AnvilAnswers
  BY <1>1 DEF connect, AnvilAnswers, server, HasJoined, HasRead, Listening, Connected, loop, picture
<1>2. CASE Open
  BY <1>2 DEF Open, server, HasJoined, HasRead, Listening, Connected, JoinIInv, Ordered, Unopened, Registered,
              loop, picture
<1>3. CASE disconnect \/ CreateTimeout \/ ReadTimeout
  BY <1>3 DEF disconnect, CreateTimeout, ReadTimeout, joining, server, HasJoined, HasRead, Listening, Connected,
              loop, picture
<1>4. CASE UNCHANGED vars \/ (\E b \in DOMAIN subs : answer(b)) \/ (\E o \in Own : publish(o))
  BY <1>4 DEF vars, answer, publish, joining, server, HasJoined, HasRead, Listening, Connected, loop, picture
<1>5. CASE ServerTakes
  <2>1. Connected
    BY <1>5 DEF ServerTakes, JoinIInv, Ordered, Unwired
  <2>2. UNCHANGED <<picture, read, alive, readyState>>
            => HasJoined' = HasJoined /\ HasRead' = HasRead /\ Connected' = Connected
    BY DEF HasJoined, HasRead, Connected
  <2>3. (subscribed' \/ subscribed' = subscribed) /\ Connected' = Connected
            => Listening' \/ Listening' = Listening
    BY <2>1 DEF Listening
  <2>4. alive
    BY <2>1 DEF Connected
  <2>5. QED
    BY <1>5, <2>2, <2>3, <2>4, ServerSteps
<1>6. ASSUME NEW s \in Remote, RemotePublishes(s)
      PROVE  /\ \E r \in Streams : r \notin past /\ Appears(r)
             /\ alive /\ UNCHANGED <<picture, read, alive, readyState, subscribed>>
  BY <1>6 DEF RemotePublishes, Seen, joining, Streams, loop, picture
<1>7. CASE ReadSession
  BY <1>7 DEF ReadSession, server, HasJoined, HasRead, Listening, Connected, JoinIInv, Ordered, Registered,
              loop, picture
<1>8. QED
  BY <1>1, <1>2, <1>3, <1>4, <1>5, <1>6, <1>7 DEF Next, OnMessage, Continuation, OtherEvent

\* What a message says of the streams, by name.
LEMMA ChangeIs ==
    ASSUME NEW m \in DownMessage
    PROVE  /\ \A s \in Streams : ChangeOf(m) = <<"created", s>> <=> m = Created(s)
           /\ \A s \in Streams : ChangeOf(m) = <<"deleted", s>> <=> m = Deleted(s)
           /\ ChangeOf(m) = <<"other">> <=> \A s \in Streams : m # Created(s) /\ m # Deleted(s)
           /\ IsSnapshot(m) => ChangeOf(m) = <<"other">>
<1>1. ASSUME NEW s \in Streams
      PROVE  ChangeOf(Created(s)) = <<"created", s>> /\ ChangeOf(Deleted(s)) = <<"deleted", s>>
  BY <1>1, DownKinds DEF ChangeOf
<1>2. ASSUME \A s \in Streams : m # Created(s) /\ m # Deleted(s)
      PROVE  ChangeOf(m) = <<"other">>
  <2>1. Dispatched(m) \notin {<<"stream", "created">>, <<"stream", "deleted">>}
    <3>1. m.method \notin {"created", "deleted"}
      BY <1>2, DownByMethod
    <3>2. QED
      BY <3>1 DEF Dispatched
  <2>2. QED
    BY <2>1 DEF ChangeOf
<1>3. /\ \A s, r : <<"created", s>> # <<"deleted", r>> /\ <<"created", s>> # <<"other">>
                   /\ <<"deleted", s>> # <<"other">>
      /\ \A s, r : <<"created", s>> = <<"created", r>> => s = r
      /\ \A s, r : <<"deleted", s>> = <<"deleted", r>> => s = r
  OBVIOUS
<1>4. IsSnapshot(m) => \A s \in Streams : m # Created(s) /\ m # Deleted(s)
  BY DownKinds DEF IsSnapshot
<1>5. QED
  BY <1>1, <1>2, <1>3, <1>4

LEMMA ToldBy ==
    ASSUME NEW w \in Seq(DownMessage), NEW s \in Streams
    PROVE  /\ <<"created", s>> \in {ChangeOf(w[i]) : i \in 1..Len(w)}
                 <=> \E j \in 1..Len(w) : 1 <= j /\ w[j] = Created(s)
           /\ <<"deleted", s>> \in {ChangeOf(w[i]) : i \in 1..Len(w)}
                 <=> \E j \in 1..Len(w) : 1 <= j /\ w[j] = Deleted(s)
<1>1. /\ Len(w) \in Nat /\ \A i \in 1..Len(w) : w[i] \in DownMessage /\ 1 <= i
  OBVIOUS
<1>2. QED
  BY <1>1, ChangeIs

LEMMA ToldIs ==
    /\ down \in Seq(DownMessage) /\ past \subseteq Streams => ToldStreams = StreamsAt(1)
    /\ down' \in Seq(DownMessage) /\ past' \subseteq Streams => ToldStreams' = StreamsAt(1)'
<1>1. ToldStreams = {s \in past : /\ <<"created", s>> \notin {ChangeOf(down[i]) : i \in 1..Len(down)}
                                  /\ s \in streams \/ <<"deleted", s>> \in {ChangeOf(down[i]) : i \in 1..Len(down)}}
  <2>1. \A i \in 1..Len(down) : Changes[i] = ChangeOf(down[i])
    BY DEF Changes
  <2>2. {Changes[i] : i \in 1..Len(down)} = {ChangeOf(down[i]) : i \in 1..Len(down)}
    BY <2>1
  <2>3. QED
    BY <2>2 DEF ToldStreams
<1>2. ToldStreams' = {s \in past' : /\ <<"created", s>> \notin {ChangeOf(down'[i]) : i \in 1..Len(down')}
                                    /\ s \in streams' \/ <<"deleted", s>> \in {ChangeOf(down'[i]) : i \in 1..Len(down')}}
  <2>1. \A i \in 1..Len(down') : Changes'[i] = ChangeOf(down'[i])
    BY DEF Changes
  <2>2. {Changes'[i] : i \in 1..Len(down')} = {ChangeOf(down'[i]) : i \in 1..Len(down')}
    BY <2>1
  <2>3. QED
    BY <2>2 DEF ToldStreams
<1>3. ASSUME down \in Seq(DownMessage), past \subseteq Streams
      PROVE  ToldStreams = StreamsAt(1)
  <2>0. ASSUME NEW s \in past
        PROVE  /\ <<"created", s>> \in {ChangeOf(down[i]) : i \in 1..Len(down)}
                     <=> \E j \in 1..Len(down) : 1 <= j /\ down[j] = Created(s)
               /\ <<"deleted", s>> \in {ChangeOf(down[i]) : i \in 1..Len(down)}
                     <=> \E j \in 1..Len(down) : 1 <= j /\ down[j] = Deleted(s)
    BY <1>3, ToldBy
  <2>1. StreamsAt(1) = {s \in past : /\ ~\E j \in 1..Len(down) : 1 <= j /\ down[j] = Created(s)
                                     /\ s \in streams \/ \E j \in 1..Len(down) : 1 <= j /\ down[j] = Deleted(s)}
    BY DEF StreamsAt, From
  <2>2. QED
    BY <1>1, <2>0, <2>1
<1>4. ASSUME down' \in Seq(DownMessage), past' \subseteq Streams
      PROVE  ToldStreams' = StreamsAt(1)'
  <2>0. ASSUME NEW s \in past'
        PROVE  /\ <<"created", s>> \in {ChangeOf(down'[i]) : i \in 1..Len(down')}
                     <=> \E j \in 1..Len(down') : 1 <= j /\ down'[j] = Created(s)
               /\ <<"deleted", s>> \in {ChangeOf(down'[i]) : i \in 1..Len(down')}
                     <=> \E j \in 1..Len(down') : 1 <= j /\ down'[j] = Deleted(s)
    BY <1>4, ToldBy
  <2>1. StreamsAt(1)' = {s \in past' : /\ ~\E j \in 1..Len(down') : 1 <= j /\ down'[j] = Created(s)
                                       /\ s \in streams' \/ \E j \in 1..Len(down') : 1 <= j /\ down'[j] = Deleted(s)}
    BY DEF StreamsAt, From
  <2>2. QED
    BY <1>2, <2>0, <2>1
<1>5. QED
  BY <1>3, <1>4

-----------------------------------------------------------------------------
\* The oldest message is taken: those behind it move up.
LEMMA FromTaken ==
    ASSUME down \in Seq(DownMessage), Takes, UNCHANGED <<streams, past>>
    PROVE  /\ \A m : \A n \in 1..Len(down') : From(n, m)' <=> From(n + 1, m)
           /\ \A m : From(1, m)' <=> From(2, m)
           /\ \A m : From(1, m) <=> Head(down) = m \/ From(2, m)
           /\ \A n \in 1..Len(down') : StreamsAt(n)' = StreamsAt(n + 1)
<1>1. /\ Len(down) \in Nat /\ Len(down') \in Nat
      /\ Head(down) = down[1] /\ 1 \in 1..Len(down)
      /\ \A i \in 1..Len(down') : down'[i] = down[i + 1] /\ i + 1 \in 1..Len(down)
      /\ \A i \in 1..Len(down) : i = 1 \/ (i - 1 \in 1..Len(down') /\ down'[i - 1] = down[i])
  BY DownShrinks
<1>2. ASSUME NEW m, NEW n \in Nat, n >= 1 PROVE From(n, m)' <=> From(n + 1, m)
  <2>1. ASSUME NEW j \in 1..Len(down'), n <= j, down'[j] = m PROVE From(n + 1, m)
    <3>1. j + 1 \in 1..Len(down) /\ down[j + 1] = m /\ n + 1 <= j + 1
      BY <1>1, <1>2, <2>1
    <3>2. QED
      BY <3>1 DEF From
  <2>2. ASSUME NEW j \in 1..Len(down), n + 1 <= j, down[j] = m
        PROVE  \E i \in 1..Len(down') : n <= i /\ down'[i] = m
    <3>1. j - 1 \in 1..Len(down') /\ down'[j - 1] = m /\ n <= j - 1
      BY <1>1, <1>2, <2>2
    <3>2. QED
      BY <3>1
  <2>3. QED
    BY <2>1, <2>2 DEF From
<1>3. ASSUME NEW m PROVE From(1, m) <=> Head(down) = m \/ From(2, m)
  BY <1>1 DEF From
<1>4. \A n \in 1..Len(down') : n \in Nat /\ n >= 1
  BY <1>1
<1>5. \A n \in 1..Len(down') : StreamsAt(n)' = StreamsAt(n + 1)
  BY <1>2, <1>4 DEF StreamsAt
<1>6. 1 \in Nat /\ 1 >= 1 /\ 1 + 1 = 2
  OBVIOUS
<1>7. QED
  BY <1>2, <1>3, <1>4, <1>5, <1>6

\* A message is added to the wire.
LEMMA FromAdded ==
    ASSUME down \in Seq(DownMessage), NEW m \in DownMessage, down' = Append(down, m)
    PROVE  /\ \A x : \A n \in 1..Len(down) + 1 : From(n, x)' <=> From(n, x) \/ x = m
           /\ \A x : Has(down, x) <=> From(1, x)
           /\ \A x : ~From(Len(down) + 1, x)
<1>1. /\ Len(down) \in Nat /\ Len(down') = Len(down) + 1 /\ down'[Len(down) + 1] = m
      /\ \A i \in 1..Len(down) : down'[i] = down[i] /\ i \in 1..Len(down')
      /\ \A i \in 1..Len(down') : i \in 1..Len(down) \/ i = Len(down) + 1
  BY Longer
<1>2. \A x : \A n \in 1..Len(down) + 1 : From(n, x)' <=> From(n, x) \/ x = m
  BY <1>1 DEF From
<1>3. QED
  BY <1>1, <1>2 DEF From, Has

\* What is on the wire was said of streams there were: a stream that is created now was
\* not announced before, and one that ends now was not said to have ended.
LEMMA NotYetTold ==
    ASSUME SessionIInv, JoinIInv, NEW s \in Streams
    PROVE  /\ s \notin past => \A n : ~From(n, Created(s)) /\ ~From(n, Deleted(s))
           /\ s \in streams => \A n : ~From(n, Deleted(s))
<1>1. \A n : From(n, Created(s)) => s \in past
  BY AnnouncedByName DEF From, JoinIInv, FromThePast
<1>2. \A n : From(n, Deleted(s)) => Over(s)
  BY AnnouncedByName DEF From, SessionIInv, WireIInv, WireSafe, EndedAreOver
<1>3. QED
  BY <1>1, <1>2 DEF Over

\* What is known is of streams there were, and of those there were when the oldest message
\* was sent.
LEMMA PictureBehind ==
    ASSUME SessionIInv, JoinIInv, ReplicaIInv, Connected
    PROVE  known \subseteq StreamsAt(1)
<1>1. ASSUME NEW s \in known
      PROVE  s \in past /\ ~From(1, Created(s)) /\ (s \in streams \/ From(1, Deleted(s)))
  <2>1. s \in past /\ s \in Streams
    BY DEF known, JoinIInv, AllSubscribed, FromThePast, SessionIInv, TypeOK
  <2>2. ~From(1, Created(s))
    BY DEF ReplicaIInv, KnownBefore, Has, From
  <2>3. s \in streams \/ \E j \in 1..Len(down) : Ends(down[j], s)
    BY <2>1 DEF JoinIInv, NothingLeft
  <2>4. ASSUME NEW j \in 1..Len(down), Ends(down[j], s) PROVE From(1, Deleted(s))
    <3>1. down[j] \in DownMessage /\ 1 <= j
      BY DEF SessionIInv, WireIInv
    <3>2. ChangeOf(down[j]) = <<"deleted", s>>
      <4>1. down[j].method = "deleted" /\ down[j].uri[1][2] = s
        BY <2>4 DEF Ends, Dispatched
      <4>2. QED
        BY <2>4, <4>1 DEF Ends, ChangeOf
    <3>3. down[j] = Deleted(s)
      BY <2>1, <3>1, <3>2, ChangeIs
    <3>4. QED
      BY <3>1, <3>3 DEF From
  <2>5. QED
    BY <2>1, <2>2, <2>3, <2>4
<1>2. QED
  BY <1>1 DEF StreamsAt

-----------------------------------------------------------------------------
\* The oldest message is taken.
LEMMA TakingKeepsReplica ==
    ASSUME SessionIInv, JoinIInv, ReplicaIInv, OnMessage
    PROVE  ReplicaIInv'
<1>1. Takes /\ UNCHANGED <<streams, past>> /\ down \in Seq(DownMessage)
  BY Handlers DEF OnMessage, server, SessionIInv, WireIInv
<1>2. /\ Head(down) = down[1] /\ 1 \in 1..Len(down)
      /\ \A i \in 1..Len(down') : down'[i] = down[i + 1] /\ i + 1 \in 1..Len(down) /\ 1 < i + 1
      /\ \A x : Has(down, x) <=> Has(down', x) \/ Head(down) = x
  BY <1>1, DownShrinks
<1>3. ToldOnce'
  <2>1. ASSUME NEW s \in Streams, NEW i \in 1..Len(down'), NEW j \in 1..Len(down'),
               \/ down'[i] = Created(s) /\ down'[j] = Created(s)
               \/ down'[i] = Deleted(s) /\ down'[j] = Deleted(s)
        PROVE  i = j
    <3>1. i + 1 = j + 1
      BY <1>2, <2>1 DEF ReplicaIInv, ToldOnce
    <3>2. QED
      BY <3>1
  <2>2. QED
    BY <2>1 DEF ToldOnce
<1>4. SnapshotIsTrue'
  BY <1>1, <1>2, FromTaken DEF ReplicaIInv, SnapshotIsTrue
<1>5. KnownBefore'
  <2>1. ASSUME NEW s \in known', Has(down', Created(s)) PROVE FALSE
    <3>1. PICK k \in 1..Len(down') : down'[k] = Created(s)
      BY <2>1 DEF Has
    <3>2. s \notin known
      BY <1>2, <2>1 DEF ReplicaIInv, KnownBefore
    <3>3. WireIInv /\ s \in Streams
      <4>1. WireIInv /\ view' \subseteq Streams /\ snapshot' \subseteq Streams
        BY TypesStay DEF SessionIInv, TypeOK, OnMessage, Next
      <4>2. QED
        BY <2>1, <4>1 DEF known
    <3>4. \/ OnStreamCreated /\ s = Stream
          \/ OnReadReply /\ s \in Head(down).content.streams
      <4>1. known' # known
        BY <2>1, <3>2
      <4>2. OnStreamDeleted => known' \subseteq known
        BY <3>3, KnownSteps DEF Next
      <4>3. QED
        BY <2>1, <3>2, <3>3, <4>1, <4>2, KnownSteps DEF Next
    <3>5. CASE OnStreamCreated /\ s = Stream
      <4>1. down[1] = Created(s)
        BY <1>1, <1>2, <3>5, HeadIs
      <4>2. 1 = k + 1
        BY <1>2, <3>1, <3>3, <4>1 DEF ReplicaIInv, ToldOnce
      <4>3. QED
        BY <1>2, <4>2
    <3>6. CASE OnReadReply /\ s \in Head(down).content.streams
      <4>1. PICK S \in SUBSET Streams : down[1] = Reply(Read, [streams |-> S])
        BY <1>1, <1>2, <3>6, HeadIs
      <4>2. s \in down[1].content.streams /\ IsSnapshot(down[1])
        BY <1>2, <3>6, <4>1, DownKinds
      <4>3. s \in StreamsAt(1)
        BY <1>2, <4>2 DEF ReplicaIInv, SnapshotIsTrue
      <4>4. ~From(1, Created(s))
        BY <4>3 DEF StreamsAt
      <4>5. QED
        BY <1>2, <3>1, <4>4 DEF From
    <3>7. QED
      BY <3>4, <3>5, <3>6
  <2>2. QED
    BY <2>1 DEF KnownBefore
<1>6. QED
  BY <1>3, <1>4, <1>5 DEF ReplicaIInv

\* A message that says nothing of a stream, or only the truth, is added.
LEMMA AddingKeepsReplica ==
    ASSUME SessionIInv, JoinIInv, ReplicaIInv, NEW m \in DownMessage, down' = Append(down, m),
           known' = known,
           \A s \in Streams : /\ m = Created(s) => s \notin past
                              /\ m = Deleted(s) => s \in streams,
           \A n \in 1..Len(down) + 1 : StreamsAt(n)' = StreamsAt(n),
           IsSnapshot(m) => m.content.streams = streams
    PROVE  ReplicaIInv'
<1>1. /\ Len(down) \in Nat /\ Len(down') = Len(down) + 1 /\ down'[Len(down) + 1] = m
      /\ \A i \in 1..Len(down) : down'[i] = down[i] /\ i \in 1..Len(down')
      /\ \A i \in 1..Len(down') : i \in 1..Len(down) \/ i = Len(down) + 1
      /\ \A x : Has(down', x) <=> Has(down, x) \/ m = x
      /\ down \in Seq(DownMessage)
  <2>1. down \in Seq(DownMessage)
    BY DEF SessionIInv, WireIInv
  <2>2. /\ Len(down) \in Nat /\ Len(down') = Len(down) + 1 /\ down'[Len(down) + 1] = m
        /\ \A i \in 1..Len(down) : down'[i] = down[i] /\ i \in 1..Len(down')
        /\ \A i \in 1..Len(down') : i \in 1..Len(down) \/ i = Len(down) + 1
    BY <2>1, Longer
  <2>3. QED
    BY <2>1, <2>2, DownGrows
<1>2. ASSUME NEW s \in Streams, m = Created(s) \/ m = Deleted(s)
      PROVE  \A i \in 1..Len(down) : down[i] # m
  <2>1. ~From(1, m)
    BY <1>2, NotYetTold
  <2>2. QED
    BY <1>1, <2>1 DEF From
<1>3. ToldOnce'
  <2>1. ASSUME NEW s \in Streams, NEW i \in 1..Len(down'), NEW j \in 1..Len(down'),
               \/ down'[i] = Created(s) /\ down'[j] = Created(s)
               \/ down'[i] = Deleted(s) /\ down'[j] = Deleted(s)
        PROVE  i = j
    <3>1. CASE i \in 1..Len(down) /\ j \in 1..Len(down)
      BY <1>1, <2>1, <3>1 DEF ReplicaIInv, ToldOnce
    <3>2. QED
      BY <1>1, <1>2, <2>1, <3>1
  <2>2. QED
    BY <2>1 DEF ToldOnce
<1>4. SnapshotIsTrue'
  <2>1. StreamsAt(Len(down) + 1) = streams
    <3>1. \A x : ~From(Len(down) + 1, x)
      BY <1>1, FromAdded
    <3>2. streams \subseteq past
      BY DEF SessionIInv, WireIInv
    <3>3. QED
      BY <3>1, <3>2 DEF StreamsAt
  <2>2. Len(down) + 1 \in 1..Len(down) + 1 /\ \A i \in 1..Len(down) : i \in 1..Len(down) + 1
    BY <1>1
  <2>3. QED
    BY <1>1, <2>1, <2>2 DEF ReplicaIInv, SnapshotIsTrue
<1>5. KnownBefore'
  <2>1. ASSUME NEW s \in known, m = Created(s) PROVE FALSE
    BY <2>1 DEF known, JoinIInv, AllSubscribed, FromThePast, SessionIInv, TypeOK
  <2>2. QED
    BY <1>1, <2>1 DEF ReplicaIInv, KnownBefore
<1>6. QED
  BY <1>3, <1>4, <1>5 DEF ReplicaIInv

\* A stream is created, or ends: those there were before are the same.
LEMMA AppearingKeepsPast ==
    ASSUME SessionIInv, JoinIInv, NEW s \in Streams, s \notin past, Appears(s)
    PROVE  /\ down' = Append(down, Created(s)) =>
                 \A n \in 1..Len(down) + 1 : StreamsAt(n)' = StreamsAt(n)
           /\ down' = down => \A n : StreamsAt(n)' = StreamsAt(n) \cup {s}
<1>1. /\ streams' = streams \cup {s} /\ past' = past \cup {s}
      /\ \A n : ~From(n, Created(s)) /\ ~From(n, Deleted(s))
      /\ past \subseteq Streams /\ down \in Seq(DownMessage) /\ Created(s) \in DownMessage
  BY NotYetTold, DownKinds DEF Appears, SessionIInv, WireIInv
<1>2. /\ \A r \in Streams : Created(r) = Created(s) => r = s
      /\ \A r \in Streams : Deleted(r) # Created(s)
  BY DownKinds
<1>3. ASSUME down' = Append(down, Created(s)), NEW n \in 1..Len(down) + 1
      PROVE  StreamsAt(n)' = StreamsAt(n)
  <2>1. \A x : From(n, x)' <=> From(n, x) \/ x = Created(s)
    BY <1>1, <1>3, FromAdded
  <2>2. \A r \in past : r # s /\ r \in Streams
    BY <1>1
  <2>3. \A r \in past : /\ From(n, Created(r))' <=> From(n, Created(r))
                        /\ From(n, Deleted(r))' <=> From(n, Deleted(r))
    BY <1>2, <2>1, <2>2
  <2>4. From(n, Created(s))'
    BY <2>1
  <2>5. QED
    BY <1>1, <2>2, <2>3, <2>4 DEF StreamsAt
<1>4. ASSUME down' = down, NEW n PROVE StreamsAt(n)' = StreamsAt(n) \cup {s}
  <2>1. \A x : From(n, x)' <=> From(n, x)
    BY <1>4 DEF From
  <2>2. QED
    BY <1>1, <2>1 DEF StreamsAt
<1>5. QED
  BY <1>3, <1>4

LEMMA EndingKeepsPast ==
    ASSUME SessionIInv, JoinIInv, NEW s \in streams, StreamEnds(s)
    PROVE  /\ down' = Append(down, Deleted(s)) =>
                 \A n \in 1..Len(down) + 1 : StreamsAt(n)' = StreamsAt(n)
           /\ down' = down => \A n : StreamsAt(n)' = StreamsAt(n) \ {s}
<1>0. s \in Streams /\ s \in past
  BY DEF SessionIInv, WireIInv
<1>1. /\ streams' = streams \ {s} /\ past' = past
      /\ \A n : ~From(n, Deleted(s))
      /\ past \subseteq Streams /\ down \in Seq(DownMessage) /\ Deleted(s) \in DownMessage
  BY <1>0, NotYetTold, DownKinds DEF StreamEnds, SessionIInv, WireIInv
<1>2. /\ \A r \in Streams : Deleted(r) = Deleted(s) => r = s
      /\ \A r \in Streams : Created(r) # Deleted(s)
  BY <1>0, DownKinds
<1>3. ASSUME down' = Append(down, Deleted(s)), NEW n \in 1..Len(down) + 1
      PROVE  StreamsAt(n)' = StreamsAt(n)
  <2>1. \A x : From(n, x)' <=> From(n, x) \/ x = Deleted(s)
    BY <1>1, <1>3, FromAdded
  <2>3. \A r \in past : /\ From(n, Created(r))' <=> From(n, Created(r))
                        /\ From(n, Deleted(r))' <=> From(n, Deleted(r)) \/ r = s
    BY <1>1, <1>2, <2>1
  <2>5. QED
    BY <1>0, <1>1, <2>3 DEF StreamsAt
<1>4. ASSUME down' = down, NEW n PROVE StreamsAt(n)' = StreamsAt(n) \ {s}
  <2>1. \A x : From(n, x)' <=> From(n, x)
    BY <1>4 DEF From
  <2>2. QED
    BY <1>0, <1>1, <2>1 DEF StreamsAt
<1>5. QED
  BY <1>3, <1>4

\* Without a connection that is notified there is nothing to keep right.
LEMMA NotNotified ==
    ASSUME SessionIInv, JoinIInv
    PROVE  /\ alive => \A m : Notify(m) = IF Listening THEN Append(down, m) ELSE down
           /\ ~Listening => down = <<>>
<1>1. alive => \A m : Notify(m) = IF Listening THEN Append(down, m) ELSE down
  BY DEF Notify, Listening, Connected
<1>2. QED
  BY <1>1 DEF Listening, JoinIInv, Ordered, Unwired, Unsubscribed

\* An answer or an offer says nothing new of the streams.
LEMMA QuietSaysNothing ==
    ASSUME NEW m, Quiet(m)
    PROVE  /\ \A s \in Streams : m # Created(s) /\ m # Deleted(s)
           /\ IsSnapshot(m) => m.content.streams = streams
<1>1. \A s \in Streams : m # Created(s) /\ m # Deleted(s)
  <2>1. m.method \in {"STATUS", "offer"}
    BY DownKinds DEF Quiet, IsSnapshot
  <2>2. \A s \in Streams : Created(s).method = "created" /\ Deleted(s).method = "deleted"
    BY DownKinds
  <2>3. QED
    BY <2>1, <2>2
<1>2. \A s, b : ~IsSnapshot(Offer(s, b))
  BY DownKinds DEF IsSnapshot
<1>3. QED
  BY <1>1, <1>2, DownKinds DEF Quiet

LEMMA AddingQuietly ==
    ASSUME down \in Seq(DownMessage), past \in SUBSET Streams, NEW m \in DownMessage, Quiet(m),
           down' = Append(down, m), UNCHANGED <<streams, past>>
    PROVE  \A n \in 1..Len(down) + 1 : StreamsAt(n)' = StreamsAt(n)
<1> SUFFICES ASSUME NEW n \in 1..Len(down) + 1 PROVE StreamsAt(n)' = StreamsAt(n)
  OBVIOUS
<1>1. \A x : From(n, x)' <=> From(n, x) \/ x = m
  BY FromAdded
<1>2. \A s \in past : /\ From(n, Created(s))' <=> From(n, Created(s))
                      /\ From(n, Deleted(s))' <=> From(n, Deleted(s))
  BY <1>1, QuietSaysNothing
<1>3. QED
  BY <1>2 DEF StreamsAt

LEMMA ReplicaStays ==
    ASSUME SessionIInv, JoinIInv, ReplicaIInv, [Next]_vars
    PROVE  ReplicaIInv'
<1>0. /\ down \in Seq(DownMessage) /\ Len(down) \in Nat
      /\ streams \in SUBSET Streams /\ streams \subseteq past /\ past \subseteq Streams
  BY DEF SessionIInv, TypeOK, WireIInv
<1>1. CASE OnMessage
  BY <1>1, TakingKeepsReplica
<1> SUFFICES ASSUME ~OnMessage PROVE ReplicaIInv'
  BY <1>1
<1>9. known' = known
  BY KnownSteps DEF SessionIInv, OnMessage
<1>2. CASE down' = <<>>
  BY <1>2, NoneLeft DEF ReplicaIInv, ToldOnce, SnapshotIsTrue, KnownBefore, Has
<1>3. CASE UNCHANGED <<down, streams, past>>
  BY <1>3, <1>9 DEF ReplicaIInv, ToldOnce, SnapshotIsTrue, KnownBefore, StreamsAt, From
<1>4. ASSUME NEW m \in DownMessage, Quiet(m), down' = Append(down, m), UNCHANGED <<streams, past>>
      PROVE  ReplicaIInv'
  <2>1. /\ \A s \in Streams : m # Created(s) /\ m # Deleted(s)
        /\ IsSnapshot(m) => m.content.streams = streams
    BY <1>4, QuietSaysNothing
  <2>2. \A n \in 1..Len(down) + 1 : StreamsAt(n)' = StreamsAt(n)
    BY <1>0, <1>4, AddingQuietly
  <2>3. QED
    BY <1>4, <1>9, <2>1, <2>2, AddingKeepsReplica
<1>5. ASSUME NEW s \in Streams, s \notin past, Appears(s), alive
      PROVE  ReplicaIInv'
  <2>1. CASE ~Listening
    BY <1>2, <1>5, <2>1, NotNotified DEF Appears
  <2>2. CASE Listening
    <3>1. down' = Append(down, Created(s))
      BY <1>5, <2>2, NotNotified DEF Appears
    <3>2. /\ Created(s) \in DownMessage /\ ~IsSnapshot(Created(s))
          /\ \A r \in Streams : /\ Created(s) = Created(r) => r \notin past
                              /\ Created(s) # Deleted(r)
      BY <1>5, DownKinds DEF IsSnapshot
    <3>3. QED
      BY <1>5, <1>9, <3>1, <3>2, AppearingKeepsPast, AddingKeepsReplica
  <2>3. QED
    BY <2>1, <2>2
<1>6. ASSUME NEW s \in Streams, StreamEnds(s)
      PROVE  ReplicaIInv'
  <2>0. s \in streams /\ alive /\ down' = Notify(Deleted(s))
    BY <1>6 DEF StreamEnds, Seen
  <2>1. CASE ~Listening
    BY <1>2, <2>0, <2>1, NotNotified
  <2>2. CASE Listening
    <3>1. down' = Append(down, Deleted(s))
      BY <2>0, <2>2, NotNotified
    <3>2. /\ Deleted(s) \in DownMessage /\ ~IsSnapshot(Deleted(s))
          /\ \A r \in Streams : /\ Deleted(s) = Deleted(r) => r \in streams
                              /\ Deleted(s) # Created(r)
      BY <2>0, DownKinds DEF IsSnapshot
    <3>3. QED
      BY <1>6, <1>9, <2>0, <3>1, <3>2, EndingKeepsPast, AddingKeepsReplica
  <2>3. QED
    BY <2>1, <2>2
<1>7. CASE Closed \/ SocketError
  BY <1>2, <1>7 DEF Closed, SocketError
<1>8. CASE AnnounceSnapshot
  BY <1>3, <1>8 DEF AnnounceSnapshot, server
<1>10. QED
  BY <1>3, <1>4, <1>5, <1>6, <1>7, <1>8, ReplicaSteps

-----------------------------------------------------------------------------
\* One step of the replica, by what happens to the wire.
LEMMA AddingChanges ==
    ASSUME down \in Seq(DownMessage), past \subseteq Streams, NEW m \in DownMessage,
           down' = Append(down, m)
    PROVE  Changes' = Append(Changes, ChangeOf(m))
<1>1. /\ Len(down) \in Nat /\ Len(down') = Len(down) + 1 /\ down'[Len(down) + 1] = m
      /\ \A i \in 1..Len(down) : down'[i] = down[i]
      /\ \A i \in 1..Len(down') : i \in 1..Len(down) \/ i = Len(down) + 1
  BY Longer
<1>2. Changes = [i \in 1..Len(down) |-> ChangeOf(down[i])]
  BY DEF Changes
<1>3. Changes' = [i \in 1..Len(down) + 1 |-> ChangeOf(down'[i])]
  BY <1>1 DEF Changes
<1>4. Append(Changes, ChangeOf(m)) = [i \in 1..Len(down) + 1 |-> ChangeOf(down'[i])]
  BY <1>1, <1>2
<1>5. QED
  BY <1>3, <1>4

LEMMA TakingChanges ==
    ASSUME down \in Seq(DownMessage), past \subseteq Streams, Takes
    PROVE  /\ Changes # <<>> /\ Changes' = Tail(Changes)
           /\ Head(Changes) = ChangeOf(Head(down))
<1>1. /\ Len(down) \in Nat /\ Len(down) > 0 /\ Len(down') = Len(down) - 1
      /\ Head(down) = down[1] /\ 1 \in 1..Len(down)
      /\ \A i \in 1..Len(down') : down'[i] = down[i + 1] /\ i + 1 \in 1..Len(down)
  <2>1. down # <<>> /\ down' = Tail(down)
    BY DEF Takes
  <2>2. QED
    BY <2>1, DownShrinks
<1>2. Changes = [i \in 1..Len(down) |-> ChangeOf(down[i])] /\ Len(Changes) = Len(down)
  BY <1>1 DEF Changes
<1>3. Changes' = [i \in 1..Len(down) - 1 |-> ChangeOf(down[i + 1])]
  <2>1. Changes' = [i \in 1..Len(down') |-> ChangeOf(down'[i])]
    BY DEF Changes
  <2>2. QED
    BY <1>1, <2>1
<1>4. Tail(Changes) = [i \in 1..Len(down) - 1 |-> ChangeOf(down[i + 1])]
  BY <1>1, <1>2
<1>5. QED
  BY <1>1, <1>2, <1>3, <1>4

LEMMA AppliedIs ==
    ASSUME NEW S
    PROVE  /\ \A s : Replica!Applied(S, <<"created", s>>) = S \cup {s}
           /\ \A s : Replica!Applied(S, <<"deleted", s>>) = S \ {s}
           /\ Replica!Applied(S, <<"other">>) = S
           /\ Replica!Other = <<"other">>
           /\ \A s \in Streams : <<"created", s>> \in Replica!Change /\ <<"deleted", s>> \in Replica!Change
  BY DEF Replica!Applied, Replica!Other, Replica!Change

\* The message taken changes what is told of: a stream that was created is there until the
\* wire says that it ended.
LEMMA TakingTells ==
    ASSUME SessionIInv, JoinIInv, ReplicaIInv, Takes, UNCHANGED <<streams, past>>
    PROVE  StreamsAt(1)' = Replica!Applied(StreamsAt(1), ChangeOf(Head(down)))
<1>0. /\ down \in Seq(DownMessage) /\ past \subseteq Streams /\ streams \subseteq past
      /\ Head(down) \in DownMessage /\ Head(down) = down[1] /\ 1 \in 1..Len(down) /\ Len(down) \in Nat
  BY DownShrinks DEF SessionIInv, WireIInv
<1>1. /\ \A m : From(1, m)' <=> From(2, m)
      /\ \A m : From(1, m) <=> Head(down) = m \/ From(2, m)
  BY <1>0, FromTaken
<1>2. StreamsAt(1)' = {s \in past : ~From(2, Created(s)) /\ (s \in streams \/ From(2, Deleted(s)))}
  BY <1>1 DEF StreamsAt
<1>3. ASSUME NEW m, Head(down) = m, \E s \in Streams : m = Created(s) \/ m = Deleted(s)
      PROVE  ~From(2, m)
  BY <1>0, <1>3 DEF From, ReplicaIInv, ToldOnce
<1>4. ASSUME NEW r \in Streams, Head(down) = Created(r)
      PROVE  StreamsAt(1)' = StreamsAt(1) \cup {r}
  <2>1. ~From(2, Created(r))
    BY <1>3, <1>4
  <2>2. r \in past
    BY <1>0, <1>4, AnnouncedByName DEF JoinIInv, FromThePast
  <2>3. r \in streams \/ From(2, Deleted(r))
    <3>1. Connected /\ Announces(down[1], r)
      BY <1>0, <1>4, AnnouncedByName DEF Takes, Connected
    <3>2. CASE r \in streams
      BY <3>2
    <3>3. ASSUME NEW j \in 1..Len(down), 1 < j, Ends(down[j], r) PROVE From(2, Deleted(r))
      <4>1. ChangeOf(down[j]) = <<"deleted", r>> /\ down[j] \in DownMessage
        BY <1>0, <3>3 DEF Ends, ChangeOf, Dispatched
      <4>2. down[j] = Deleted(r) /\ 2 <= j
        BY <3>3, <4>1, ChangeIs
      <4>3. QED
        BY <4>2 DEF From
    <3>4. QED
      BY <1>0, <3>1, <3>2, <3>3 DEF JoinIInv, NothingLeft
  <2>4. \A s \in past : s # r => /\ Created(s) # Created(r) /\ Deleted(s) # Created(r)
    BY <1>0, DownKinds
  <2>5. \A s \in past : s # r => /\ From(1, Created(s)) <=> From(2, Created(s))
                                 /\ From(1, Deleted(s)) <=> From(2, Deleted(s))
    BY <1>1, <1>4, <2>4
  <2>6. QED
    BY <1>2, <2>1, <2>2, <2>3, <2>5 DEF StreamsAt
<1>5. ASSUME NEW r \in Streams, Head(down) = Deleted(r)
      PROVE  StreamsAt(1)' = StreamsAt(1) \ {r}
  <2>1. ~From(2, Deleted(r))
    BY <1>3, <1>5
  <2>2. r \notin streams
    BY <1>0, <1>5, NotYetTold DEF From
  <2>4. \A s \in past : /\ Created(s) # Deleted(r)
                        /\ s # r => Deleted(s) # Deleted(r)
    BY <1>0, DownKinds
  <2>5. \A s \in past : s # r => /\ From(1, Created(s)) <=> From(2, Created(s))
                                 /\ From(1, Deleted(s)) <=> From(2, Deleted(s))
    BY <1>1, <1>5, <2>4
  <2>6. QED
    BY <1>2, <2>1, <2>2, <2>5 DEF StreamsAt
<1>6. ASSUME \A s \in Streams : Head(down) # Created(s) /\ Head(down) # Deleted(s)
      PROVE  StreamsAt(1)' = StreamsAt(1)
  BY <1>0, <1>1, <1>2, <1>6 DEF StreamsAt
<1>7. ASSUME NEW r \in Streams, Head(down) = Created(r)
      PROVE  StreamsAt(1)' = Replica!Applied(StreamsAt(1), ChangeOf(Head(down)))
  <2>1. ChangeOf(Head(down)) = <<"created", r>>
    BY <1>0, <1>7, ChangeIs
  <2>2. StreamsAt(1)' = StreamsAt(1) \cup {r}
    BY <1>4, <1>7
  <2>3. Replica!Applied(StreamsAt(1), <<"created", r>>) = StreamsAt(1) \cup {r}
    BY AppliedIs
  <2>4. QED
    BY <2>1, <2>2, <2>3
<1>8. ASSUME NEW r \in Streams, Head(down) = Deleted(r)
      PROVE  StreamsAt(1)' = Replica!Applied(StreamsAt(1), ChangeOf(Head(down)))
  <2>1. ChangeOf(Head(down)) = <<"deleted", r>>
    BY <1>0, <1>8, ChangeIs
  <2>2. StreamsAt(1)' = StreamsAt(1) \ {r}
    BY <1>5, <1>8
  <2>3. Replica!Applied(StreamsAt(1), <<"deleted", r>>) = StreamsAt(1) \ {r}
    BY AppliedIs
  <2>4. QED
    BY <2>1, <2>2, <2>3
<1>9. CASE \A r \in Streams : Head(down) # Created(r) /\ Head(down) # Deleted(r)
  <2>1. ChangeOf(Head(down)) = <<"other">>
    BY <1>0, <1>9, ChangeIs
  <2>2. QED
    BY <1>6, <1>9, <2>1, AppliedIs
<1>10. QED
  BY <1>7, <1>8, <1>9

\* A snapshot waits only while there is a connection.
Attached == alive /\ read = "replied" => Connected

LEMMA AttachedStays ==
    ASSUME Attached, [Next]_vars
    PROVE  Attached'
<1>1. CASE OnMessage
  BY <1>1, Handlers DEF Attached, Connected, Takes
<1>2. CASE SocketError \/ (~Waiting /\ Closed)
  BY <1>2 DEF SocketError, Closed, Waiting, Attached
<1>3. CASE connect \/ disconnect \/ AnvilAnswers \/ Open \/ CreateTimeout \/ ReadTimeout
           \/ ReadSession \/ AnnounceSnapshot \/ UNCHANGED vars
  BY <1>3 DEF connect, disconnect, AnvilAnswers, Open, CreateTimeout, ReadTimeout, ReadSession,
              AnnounceSnapshot, vars, joining, Attached, Connected
<1>4. CASE ServerTakes \/ (\E b \in DOMAIN subs : answer(b)) \/ (\E s \in Remote : RemotePublishes(s))
           \/ (\E o \in Own : publish(o)) \/ (\E s \in Streams : StreamEnds(s))
  BY <1>4 DEF ServerTakes, answer, RemotePublishes, publish, StreamEnds, joining, Attached, Connected
<1>5. QED
  BY <1>1, <1>2, <1>3, <1>4 DEF Next, Continuation, OtherEvent

\* Once the read was answered, what is known is the session as it was when the oldest
\* message on the wire was sent.
KnownIsBehind == HasRead => known = ToldStreams \ Own

LEMMA KnownStaysBehind ==
    ASSUME SessionIInv, JoinIInv, ReplicaIInv, KnownIsBehind, [Next]_vars, SessionIInv'
    PROVE  KnownIsBehind'
<1>0. /\ down \in Seq(DownMessage) /\ past \in SUBSET Streams /\ streams \subseteq past /\ Len(down) \in Nat
      /\ down' \in Seq(DownMessage) /\ past' \in SUBSET Streams
      /\ ToldStreams = StreamsAt(1) /\ ToldStreams' = StreamsAt(1)' /\ 1 \in 1..Len(down) + 1
      /\ WireIInv /\ known \cap Own = {}
  BY ToldIs DEF SessionIInv, WireIInv, JoinIInv, OwnLater, known
<1>1. CASE OnMessage
  <2>0. /\ Takes /\ UNCHANGED <<streams, past, alive, readyState>> /\ Connected' = Connected /\ Connected
        /\ Head(down) \in DownMessage /\ Head(down) = down[1] /\ 1 \in 1..Len(down)
    BY <1>0, <1>1, Handlers, DownShrinks DEF server, Connected, Takes
  <2>1. ToldStreams' = Replica!Applied(ToldStreams, ChangeOf(Head(down)))
    BY <1>0, <2>0, TakingTells
  <2>2. ASSUME UNCHANGED <<known, read>>, ChangeOf(Head(down)) = <<"other">>
        PROVE  KnownIsBehind'
    BY <2>0, <2>1, <2>2, AppliedIs DEF KnownIsBehind, HasRead
  <2>3. CASE OnStreamCreated
    <3>1. Stream \in Streams /\ ChangeOf(Head(down)) = <<"created", Stream>>
      BY <2>0, <2>3, HeadIs, ChangeIs
    <3>2. ToldStreams' = ToldStreams \cup {Stream}
      BY <2>1, <3>1, AppliedIs
    <3>3. known' = known \cup ({Stream} \ Own) /\ read' = read
      BY <1>0, <2>3, KnownSteps DEF OnStreamCreated
    <3>4. QED
      BY <2>0, <3>2, <3>3 DEF KnownIsBehind, HasRead
  <2>4. CASE OnStreamDeleted
    <3>1. Stream \in Streams /\ ChangeOf(Head(down)) = <<"deleted", Stream>>
      BY <2>0, <2>4, HeadIs, ChangeIs
    <3>2. ToldStreams' = ToldStreams \ {Stream}
      BY <2>1, <3>1, AppliedIs
    <3>3. known' = known \ {Stream} /\ read' = read
      BY <1>0, <2>4, KnownSteps DEF OnStreamDeleted
    <3>4. QED
      BY <2>0, <3>2, <3>3 DEF KnownIsBehind, HasRead
  <2>5. CASE OnOffer \/ OnCreateReply
    <3>1. UNCHANGED <<known, read>>
      BY <2>5 DEF OnOffer, OnCreateReply, Ignored, known
    <3>2. OnOffer => ChangeOf(Head(down)) = <<"other">>
      BY DEF OnOffer, TakesEvent, ChangeOf
    <3>3. OnCreateReply => ChangeOf(Head(down)) = <<"other">>
      BY <2>0, HeadIs, ChangeIs, DownKinds
    <3>4. QED
      BY <2>2, <2>5, <3>1, <3>2, <3>3
  <2>6. CASE OnReadReply
    <3>1. PICK S \in SUBSET Streams : Head(down) = Reply(Read, [streams |-> S])
      BY <2>0, <2>6, HeadIs
    <3>2. IsSnapshot(Head(down)) /\ Head(down).content.streams = S
      BY <3>1, DownKinds
    <3>3. ChangeOf(Head(down)) = <<"other">>
      BY <2>0, <3>2, ChangeIs
    <3>4. CASE read # "pending"
      BY <2>2, <2>6, <3>3, <3>4 DEF OnReadReply, Ignored, known
    <3>5. CASE read = "pending"
      <4>1. S = ToldStreams /\ S \cap Own = {}
        BY <1>0, <2>0, <3>2 DEF ReplicaIInv, SnapshotIsTrue, JoinIInv, OwnLater
      <4>2. known \subseteq ToldStreams
        BY <1>0, <2>0, PictureBehind
      <4>3. known' = known \cup S
        BY <1>0, <2>6, <3>2, <3>5, KnownSteps
      <4>4. ToldStreams' = ToldStreams
        BY <2>1, <3>3, AppliedIs
      <4>5. QED
        BY <4>1, <4>2, <4>3, <4>4 DEF KnownIsBehind
    <3>6. QED
      BY <3>4, <3>5
  <2>7. QED
    BY <1>1, <2>3, <2>4, <2>5, <2>6 DEF OnMessage
<1> SUFFICES ASSUME ~OnMessage, HasRead' PROVE known' = ToldStreams' \ Own
  BY <1>1 DEF KnownIsBehind
<1>2. known' = known
  BY <1>0, KnownSteps DEF OnMessage
<1>3. ASSUME HasRead, ToldStreams' = ToldStreams PROVE known' = ToldStreams' \ Own
  BY <1>2, <1>3 DEF KnownIsBehind
<1>4. HasRead => Listening /\ \A m : Notify(m) = Append(down, m)
  BY Notified DEF HasRead, Listening
<1>5. ASSUME NEW s \in Streams, s \notin past, Appears(s), HasRead
      PROVE  known' = ToldStreams' \ Own
  <2>1. down' = Append(down, Created(s))
    BY <1>4, <1>5 DEF Appears
  <2>2. ToldStreams' = ToldStreams
    BY <1>0, <1>5, <2>1, AppearingKeepsPast
  <2>3. QED
    BY <1>3, <1>5, <2>2
<1>6. ASSUME NEW s \in Streams, StreamEnds(s)
      PROVE  known' = ToldStreams' \ Own
  <2>1. HasRead /\ s \in streams
    BY <1>6 DEF StreamEnds, joining, HasRead, Connected
  <2>2. down' = Append(down, Deleted(s))
    BY <1>4, <1>6, <2>1 DEF StreamEnds
  <2>3. ToldStreams' = ToldStreams
    BY <1>0, <1>6, <2>1, <2>2, EndingKeepsPast
  <2>4. QED
    BY <1>3, <2>1, <2>3
<1>7. ASSUME NEW m \in DownMessage, Quiet(m), down' = Append(down, m), UNCHANGED <<streams, past>>, HasRead
      PROVE  known' = ToldStreams' \ Own
  <2>1. ToldStreams' = ToldStreams
    BY <1>0, <1>7, AddingQuietly
  <2>2. QED
    BY <1>3, <1>7, <2>1
<1>8. ASSUME UNCHANGED <<down, streams, past>>, HasRead
      PROVE  known' = ToldStreams' \ Own
  <2>1. ToldStreams' = ToldStreams
    BY <1>8 DEF ToldStreams, Changes
  <2>2. QED
    BY <1>3, <1>8, <2>1
<1>9. ~Closed /\ ~SocketError
  BY DEF Closed, SocketError, HasRead, Connected
<1>10. CASE AnnounceSnapshot
  BY <1>8, <1>10 DEF AnnounceSnapshot, server, HasRead, Connected
<1>11. UNCHANGED <<read, alive, readyState>> => HasRead
  BY DEF HasRead, Connected
<1>12. QED
  BY <1>5, <1>6, <1>7, <1>8, <1>9, <1>10, <1>11, ReplicaSteps

LEMMA TakingReplicates ==
    ASSUME SessionIInv, JoinIInv, ReplicaIInv, OnMessage, SessionIInv'
    PROVE  Replica!Take
<1>0. /\ down \in Seq(DownMessage) /\ past \subseteq Streams
      /\ down' \in Seq(DownMessage) /\ past' \subseteq Streams
      /\ Head(down) \in DownMessage /\ Head(down) = down[1] /\ 1 \in 1..Len(down)
      /\ Takes /\ UNCHANGED <<streams, past, subscribed, alive, readyState>>
      /\ Overtaking /\ WireSafe
  BY Handlers, DownShrinks DEF OnMessage, SessionIInv, WireIInv, server
<1>1. /\ Changes # <<>> /\ Changes' = Tail(Changes) /\ Head(Changes) = ChangeOf(Head(down))
      /\ ToldStreams = StreamsAt(1) /\ ToldStreams' = StreamsAt(1)'
      /\ ToldStreams' = Replica!Applied(ToldStreams, ChangeOf(Head(down)))
  BY <1>0, TakingChanges, ToldIs, TakingTells
<1>2. Connected /\ Connected' /\ Listening' = Listening /\ picture \cap Own = {}
  BY <1>0 DEF Takes, Connected, Listening, JoinIInv, OwnLater, picture
<1>3. ASSUME HasJoined' = HasJoined, picture' = Replica!Applied(picture, ChangeOf(Head(down))) \ Own
      PROVE  Replica!Take
  BY <1>0, <1>1, <1>2, <1>3 DEF Replica!Take, Listening, HasJoined, picture
<1>4. ASSUME HasJoined' = HasJoined, picture' = picture, ChangeOf(Head(down)) = <<"other">>
      PROVE  Replica!Take
  BY <1>2, <1>3, <1>4, AppliedIs
<1>5. CASE OnCreateReply
  <2>1. Head(down) = Reply(Create, Empty) /\ UNCHANGED <<picture, read>>
    BY <1>0, <1>5, HeadIs DEF OnCreateReply, Ignored, picture
  <2>2. ChangeOf(Head(down)) = <<"other">>
    BY <1>0, <2>1, ChangeIs, DownKinds
  <2>3. HasJoined' = HasJoined
    BY <1>2, <2>1 DEF HasJoined
  <2>4. QED
    BY <1>4, <2>1, <2>2, <2>3
<1>6. CASE OnOffer
  <2>1. picture' = picture /\ HasJoined' = HasJoined
    BY <1>2, <1>6 DEF OnOffer, HasJoined, picture
  <2>2. ChangeOf(Head(down)) = <<"other">>
    BY <1>6 DEF OnOffer, TakesEvent, ChangeOf
  <2>3. QED
    BY <1>4, <2>1, <2>2
<1>7. CASE OnStreamDeleted
  <2>1. Stream \in Streams /\ Head(down) = Deleted(Stream)
    BY <1>0, <1>7, HeadIs
  <2>2. /\ view' = view \ {Stream} /\ overtaken' = overtaken \cup ({Stream} \cap snapshot)
        /\ read' = read
    BY <1>7 DEF OnStreamDeleted, Kept
  <2>3. ChangeOf(Head(down)) = <<"deleted", Stream>>
    BY <1>0, <2>1, ChangeIs
  <2>4. HasJoined' = HasJoined
    BY <1>2, <2>2 DEF HasJoined
  <2>5. Replica!Applied(picture, ChangeOf(Head(down))) = picture \ {Stream}
    BY <2>3, AppliedIs
  <2>6. picture' = picture \ {Stream}
    BY <2>2 DEF picture
  <2>7. QED
    BY <1>2, <1>3, <2>4, <2>5, <2>6
<1>8. CASE OnStreamCreated
  <2>1. Stream \in Streams /\ Head(down) = Created(Stream)
    BY <1>0, <1>8, HeadIs
  <2>2. ChangeOf(Head(down)) = <<"created", Stream>>
    BY <1>0, <2>1, ChangeIs
  <2>3. HasJoined' = HasJoined /\ overtaken' = overtaken
    BY <1>2, <1>8 DEF OnStreamCreated, HasJoined
  <2>4. Replica!Applied(picture, ChangeOf(Head(down))) = picture \cup {Stream}
    BY <2>2, AppliedIs
  <2>5. Stream \notin overtaken
    <3>1. Announces(Head(down), Stream)
      BY <2>1, AnnouncedByName
    <3>2. QED
      BY <1>0, <2>1, <3>1 DEF Overtaking, WireSafe, NothingLate
  <2>6. view' = view \cup ({Stream} \ Own)
    <3>1. CASE Stream \in Own
      BY <1>8, <3>1 DEF OnStreamCreated, Foreign
    <3>2. CASE Stream \notin Own
      <4>1. {<<Stream>>[i] : i \in DOMAIN <<Stream>>} = {Stream}
        <5>1. DOMAIN <<Stream>> = {1} /\ <<Stream>>[1] = Stream
          OBVIOUS
        <5>2. QED
          BY <5>1
      <4>2. QED
        BY <1>8, <3>2, <4>1 DEF OnStreamCreated, Foreign, Announce
    <3>3. QED
      BY <3>1, <3>2
  <2>7. picture' = (picture \cup {Stream}) \ Own
    BY <1>2, <2>3, <2>5, <2>6 DEF picture
  <2>8. QED
    BY <1>3, <2>3, <2>4, <2>7
<1>9. CASE OnReadReply
  <2>1. PICK S \in SUBSET Streams : Head(down) = Reply(Read, [streams |-> S])
    BY <1>0, <1>9, HeadIs
  <2>2. IsSnapshot(Head(down))
    BY <2>1, DownKinds
  <2>3. ChangeOf(Head(down)) = <<"other">>
    BY <1>0, <2>2, ChangeIs
  <2>4. picture' = picture
    BY <1>9 DEF OnReadReply, picture
  <2>5. HasJoined' = HasJoined
    BY <1>2, <1>9, Handlers DEF HasJoined
  <2>6. QED
    BY <1>4, <2>3, <2>4, <2>5
<1>10. QED
  BY <1>5, <1>6, <1>7, <1>8, <1>9 DEF OnMessage

LEMMA StepReplicates ==
    ASSUME SessionIInv, JoinIInv, ReplicaIInv, Attached, KnownIsBehind, [Next]_vars, SessionIInv'
    PROVE  Replica!Next \/ UNCHANGED <<streams, Listening, Changes, ToldStreams, picture, HasJoined>>
<1>0. /\ down \in Seq(DownMessage) /\ past \in SUBSET Streams /\ streams \subseteq past /\ Len(down) \in Nat
      /\ down' \in Seq(DownMessage) /\ past' \in SUBSET Streams /\ streams' \subseteq past'
      /\ ToldStreams = StreamsAt(1) /\ ToldStreams' = StreamsAt(1)' /\ 1 \in 1..Len(down) + 1
  BY ToldIs DEF SessionIInv, WireIInv
<1>1. CASE OnMessage
  BY <1>1, TakingReplicates DEF Replica!Next
<1>2. CASE Closed \/ SocketError
  <2>1. /\ down' = <<>> /\ UNCHANGED <<streams, picture>> /\ ~Connected'
    BY <1>2 DEF Closed, SocketError, Connected, server, loop, picture
  <2>2. Changes' = <<>>
    BY <2>1 DEF Changes
  <2>3. ToldStreams' = streams
    BY <1>0, <2>1 DEF StreamsAt, From
  <2>4. QED
    BY <2>1, <2>2, <2>3 DEF Replica!Next, Replica!Cut, picture
<1>3. ASSUME NEW s \in Streams, s \notin past, Appears(s), alive,
             UNCHANGED <<picture, read, alive, readyState, subscribed>>
      PROVE  Replica!Next
  <2>1. /\ Listening' = Listening /\ HasJoined' = HasJoined /\ picture' = picture
        /\ streams' = Replica!Applied(streams, <<"created", s>>) /\ streams' # streams
        /\ <<"created", s>> \in Replica!Change /\ down' = Notify(Created(s))
    BY <1>0, <1>3, AppliedIs DEF Listening, HasJoined, Connected, Appears
  <2>2. CASE Listening
    <3>1. down' = Append(down, Created(s)) /\ Created(s) \in DownMessage
      BY <1>3, <2>1, <2>2, NotNotified, DownKinds
    <3>2. ToldStreams' = ToldStreams
      BY <1>0, <1>3, <3>1, AppearingKeepsPast
    <3>3. Changes' = Append(Changes, <<"created", s>>)
      BY <1>0, <1>3, <3>1, AddingChanges, ChangeIs
    <3>4. QED
      BY <2>1, <2>2, <3>2, <3>3 DEF Replica!Next, Replica!Happens, Listening, HasJoined, picture
  <2>3. CASE ~Listening
    <3>1. down' = down
      BY <1>3, <2>1, <2>3, NotNotified
    <3>2. ToldStreams' = Replica!Applied(ToldStreams, <<"created", s>>)
      <4>1. StreamsAt(1)' = StreamsAt(1) \cup {s}
        BY <1>3, <3>1, AppearingKeepsPast
      <4>2. Replica!Applied(ToldStreams, <<"created", s>>) = ToldStreams \cup {s}
        BY AppliedIs
      <4>3. QED
        BY <1>0, <4>1, <4>2
    <3>3. Changes' = Changes
      BY <3>1 DEF Changes
    <3>4. QED
      BY <2>1, <2>3, <3>2, <3>3 DEF Replica!Next, Replica!Happens, Listening, HasJoined, picture
  <2>4. QED
    BY <2>2, <2>3
<1>4. ASSUME NEW s \in Streams, StreamEnds(s)
      PROVE  Replica!Next
  <2>1. /\ Listening' = Listening /\ HasJoined' = HasJoined /\ picture' = picture /\ alive /\ s \in streams
        /\ streams' = Replica!Applied(streams, <<"deleted", s>>) /\ streams' # streams
        /\ <<"deleted", s>> \in Replica!Change /\ down' = Notify(Deleted(s))
    BY <1>0, <1>4, AppliedIs DEF Listening, HasJoined, Connected, StreamEnds, Seen, joining, loop, picture
  <2>2. CASE Listening
    <3>1. down' = Append(down, Deleted(s)) /\ Deleted(s) \in DownMessage
      BY <2>1, <2>2, NotNotified, DownKinds
    <3>2. ToldStreams' = ToldStreams
      BY <1>0, <1>4, <2>1, <3>1, EndingKeepsPast
    <3>3. Changes' = Append(Changes, <<"deleted", s>>)
      BY <1>0, <3>1, AddingChanges, ChangeIs
    <3>4. QED
      BY <2>1, <2>2, <3>2, <3>3 DEF Replica!Next, Replica!Happens, Listening, HasJoined, picture
  <2>3. CASE ~Listening
    <3>1. down' = down
      BY <2>1, <2>3, NotNotified
    <3>2. ToldStreams' = Replica!Applied(ToldStreams, <<"deleted", s>>)
      <4>1. StreamsAt(1)' = StreamsAt(1) \ {s}
        BY <1>4, <2>1, <3>1, EndingKeepsPast
      <4>2. Replica!Applied(ToldStreams, <<"deleted", s>>) = ToldStreams \ {s}
        BY AppliedIs
      <4>3. QED
        BY <1>0, <4>1, <4>2
    <3>3. Changes' = Changes
      BY <3>1 DEF Changes
    <3>4. QED
      BY <2>1, <2>3, <3>2, <3>3 DEF Replica!Next, Replica!Happens, Listening, HasJoined, picture
  <2>4. QED
    BY <2>2, <2>3
<1>5. ASSUME NEW m \in DownMessage, Quiet(m), down' = Append(down, m),
             UNCHANGED <<picture, read, alive, readyState, subscribed, streams, past>>
      PROVE  Replica!Next
  <2>1. \A s \in Streams : m # Created(s) /\ m # Deleted(s)
    BY <1>5, QuietSaysNothing
  <2>2. ChangeOf(m) = Replica!Other
    BY <2>1, ChangeIs, AppliedIs
  <2>3. Changes' = Append(Changes, Replica!Other)
    BY <1>0, <1>5, <2>2, AddingChanges
  <2>4. ToldStreams' = ToldStreams
    BY <1>0, <1>5, AddingQuietly
  <2>5. QED
    BY <1>5, <2>3, <2>4 DEF Replica!Next, Replica!Says, Connected, picture
<1>6. CASE /\ UNCHANGED <<picture, down, streams, past>>
           /\ HasJoined' = HasJoined /\ (Listening' \/ Listening' = Listening)
  <2>1. Changes' = Changes
    BY <1>6 DEF Changes
  <2>2. ToldStreams' = ToldStreams
    BY <1>6, <2>1 DEF ToldStreams
  <2>3. Listening \in BOOLEAN /\ Listening' \in BOOLEAN
    BY DEF Listening, Connected, SessionIInv, TypeOK
  <2>4. CASE Listening' = Listening
    BY <1>6, <2>1, <2>2, <2>4
  <2>5. CASE Listening'
    BY <1>6, <2>1, <2>2, <2>3, <2>5 DEF Replica!Next, Replica!Listen, Listening, HasJoined, picture
  <2>6. QED
    BY <1>6, <2>4, <2>5
<1>7. CASE AnnounceSnapshot
  <2>1. /\ alive /\ read = "replied" /\ read' = "answered"
        /\ UNCHANGED <<alive, readyState, overtaken, down, server>>
    BY <1>7 DEF AnnounceSnapshot
  <2>2. Connected /\ Connected' /\ HasRead
    BY <2>1 DEF Attached, Connected, HasRead
  <2>3. Listening
    BY <2>1, <2>2, Notified DEF Listening
  <2>4. picture' = known
    BY <1>7, <2>1, AnnouncesSet DEF AnnounceSnapshot, picture, known
  <2>5. Changes' = Changes /\ UNCHANGED <<streams, past, subscribed>>
    BY <2>1 DEF Changes, server
  <2>6. ToldStreams' = ToldStreams
    BY <2>1, <2>5 DEF ToldStreams
  <2>7. picture' = ToldStreams \ Own
    BY <2>2, <2>4 DEF KnownIsBehind
  <2>8. QED
    BY <2>1, <2>2, <2>3, <2>5, <2>6, <2>7 DEF Replica!Next, Replica!Join, Listening, picture
<1>8. QED
  BY <1>1, <1>2, <1>3, <1>4, <1>5, <1>6, <1>7, ReplicaSteps

ReplicaHolds == SessionIInv /\ JoinIInv /\ ReplicaIInv /\ Attached /\ KnownIsBehind

LEMMA ReplicaInvariant == Spec => []ReplicaHolds
<1>1. Init => ReplicaIInv
  BY NoneLeft DEF Init, ReplicaIInv, ToldOnce, SnapshotIsTrue, KnownBefore, Has
<1>2. Init => SessionIInv /\ JoinIInv /\ Attached /\ KnownIsBehind
  BY InitIsSafe, InitJoins DEF Init, Attached, KnownIsBehind, HasRead
<1>3. ReplicaHolds /\ [Next]_vars => ReplicaHolds'
  BY JoinStays, ReplicaStays, AttachedStays, KnownStaysBehind DEF ReplicaHolds
<1>4. QED
  BY <1>1, <1>2, <1>3, PTL DEF Spec, ReplicaHolds

\* The picture that client.connect (src/opentok/opentok.js) gives the application, without
\* the streams whose end overtook the snapshot, is a replica of the session: the snapshot,
\* with the events that came in one piece with it, is the session as it was when the oldest
\* message behind them was sent, and from then on each event takes the picture to the next
\* state of the session, in order, with none missed or applied twice, however the events,
\* the snapshot and the application's own streams are interleaved.
THEOREM PictureIsReplica == Spec => ImplementsReplica
<1>1. Init => Replica!Init
  <2>1. ASSUME Init PROVE Changes = <<>> /\ ToldStreams = {}
    BY <2>1 DEF Init, Changes, ToldStreams
  <2>2. QED
    BY <2>1 DEF Init, Replica!Init, Connected
<1>2. ReplicaHolds /\ [Next]_vars /\ ReplicaHolds'
          => [Replica!Next]_<<streams, subscribed /\ Connected, Changes, ToldStreams, view \ overtaken,
                              read = "answered" /\ Connected>>
  BY StepReplicates DEF ReplicaHolds, Listening, HasJoined, picture
<1>3. QED
  BY <1>1, <1>2, ReplicaInvariant, PTL DEF Spec, ImplementsReplica, Replica!Spec, Replica!replicaVars

\* From the announcement of the snapshot (client.connect of src/opentok/opentok.js) until
\* the connection ends the picture is, without the application's own streams and those whose
\* end overtook the snapshot, the session as it was when the oldest message on the wire was
\* sent.
THEOREM PictureLagsOnly == Spec => []PictureIsBehind
<1>1. ReplicaHolds => PictureIsBehind
  <2>1. ASSUME ReplicaHolds, HasJoined
        PROVE  Listening /\ picture = ToldStreams \ Own
    <3>1. HasRead /\ read = "answered" /\ Connected
      BY <2>1 DEF HasJoined, HasRead
    <3>2. snapshot = {}
      BY <2>1, <3>1 DEF ReplicaHolds, SessionIInv, WireIInv, Overtaking
    <3>3. picture = known
      BY <3>2 DEF picture, known
    <3>4. Listening
      BY <2>1, <3>1, Notified DEF ReplicaHolds, Listening
    <3>5. QED
      BY <2>1, <3>1, <3>3, <3>4 DEF ReplicaHolds, KnownIsBehind
  <2>2. QED
    BY <2>1 DEF PictureIsBehind, Replica!IsBehind, HasJoined, Listening, picture
<1>2. QED
  BY <1>1, ReplicaInvariant, PTL
=============================================================================
