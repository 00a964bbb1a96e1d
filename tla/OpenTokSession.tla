--------------------------- MODULE OpenTokSession ---------------------------
(******************************************************************************)
(* Joining an OpenTok session (src/opentok/opentok.js, raptor.js, anvil.js):  *)
(* ask Anvil where the session is, open the messaging socket, subscribe to    *)
(* the session's address, register a connection, and then read the state of   *)
(* the session; what the application is told of streams comes from the        *)
(* events that follow the subscription and from that one snapshot. The        *)
(* application is the recording server, which subscribes to every stream it   *)
(* is told of (Subscriptions).                                                *)
(*                                                                            *)
(* Below is the transport of RumorTransport, of which only this is used: the  *)
(* wires are FIFO while the socket is open, and a request ends with an answer *)
(* or, if none came in 30 s, with a timeout. An answer resolves a promise,    *)
(* and what it was awaited for is done in a continuation. That runs when the  *)
(* socket has handed on every message that came in one piece with the answer: *)
(* they overtake what the answer leads to.                                    *)
(*                                                                            *)
(* Anvil and the session's server are outside the repository; the answers     *)
(* that nobody looks at are left out.                                         *)
(******************************************************************************)
EXTENDS Subscriptions

CONSTANT MaxWire     \* bound: messages on a wire before the server holds back

ASSUME SessionAssumption == MaxWire \in Nat

VARIABLES
    alive,       \* the process
    promise,     \* what client.connect returned
    create,      \* the request that registers the connection
    read,        \* the request that reads the session's state
    view,        \* streams announced and not announced as deleted
    gone,        \* streams announced as deleted
    chunk,       \* messages that came in one piece with the answer just taken
    snapshot,    \* the streams it lists, until they are announced
    overtaken,   \* history: streams announced as deleted before the snapshot listing them
    down,        \* the wire from the session's server
    subscribed,  \* the server sends this client the events of the session
    streams,     \* the streams of the session now
    past,        \* every stream there ever was
    window,      \* streams created after the subscription, before the read
    watched,     \* the subscribers the server knows, with their streams
    answered     \* the subscribers and streams it was sent answers for

loop == <<chunk, snapshot, overtaken>>
joining == <<alive, promise, create, read, view, gone, loop>>
server == <<subscribed, streams, past, window, watched, answered>>
vars == <<joining, readyState, subscriptions, up, down, server>>

\* The connection's id, and the requests made while joining.
self == "self"
Create == connections_create(self)
Read == sessions_get
SubscribeSession == Message("SUBSCRIBE", SessionUri, Empty)

\* What the server sends: events, and answers to requests.
Created(s) == Message("created", StreamUri(s), Empty)
Deleted(s) == Message("deleted", StreamUri(s), Empty)
Offer(s, b) == offer(SubscriberUri(s, b), "offer")
Reply(request, content) == Message("STATUS", request.uri, content)

Init ==
    /\ SubscriptionsInit
    /\ alive = TRUE
    /\ promise = "none" /\ readyState = "none" /\ create = "none" /\ read = "none"
    /\ view = {} /\ gone = {}
    /\ chunk = 0 /\ snapshot = {} /\ overtaken = {}
    /\ up = <<>> /\ down = <<>>
    /\ subscribed = FALSE
    /\ streams = {} /\ past = {} /\ window = {}
    /\ watched = {} /\ answered = {}

-----------------------------------------------------------------------------
\* client.connect: ask Anvil for the session.
connect ==
    /\ promise = "none"
    /\ promise' = "pending"
    /\ UNCHANGED <<alive, readyState, create, read, view, gone, loop, subscriptions, up, down, server>>

\* Anvil answers: the transports are made, the handlers installed, and the socket
\* begins to connect. Or it does not, and connect rejects.
AnvilAnswers ==
    /\ promise = "pending" /\ readyState = "none"
    /\ \/ readyState' = "CONNECTING" /\ UNCHANGED promise
       \/ promise' = "rejected" /\ UNCHANGED readyState
    /\ UNCHANGED <<alive, create, read, view, gone, loop, subscriptions, up, down, server>>

\* Mutant: the subscription is left for after the registration.
OpeningLateSubscribe == <<Create>>

\* What the 'connected' handler of RaptorTransport sends.
Opening == <<SubscribeSession, Create>>

\* The socket opens.
Open ==
    /\ alive /\ readyState = "CONNECTING"
    /\ readyState' = "OPEN"
    /\ up' = up \o Opening
    /\ create' = "pending"
    /\ UNCHANGED <<alive, promise, read, view, gone, loop, subscriptions, down, server>>

\* A continuation waits for the socket to have handed on what came with an answer.
Waiting == create = "replied" \/ read = "replied"

\* The oldest message is taken: an answer, or an event of a resource.
Takes ==
    /\ alive /\ readyState \in {"OPEN", "CLOSING"}
    /\ down # <<>> /\ (Waiting => chunk > 0)
    /\ down' = Tail(down)

TakesReply(request) ==
    Takes /\ Head(down).method = "STATUS" /\ Head(down).uri = request.uri

TakesEvent(resource, method) == Takes /\ Dispatched(Head(down)) = <<resource, method>>

\* The message was one of those that came with the answer, if a continuation waits.
ChunkGoesOn == chunk' = IF Waiting THEN chunk - 1 ELSE chunk

\* An answer that nobody waits for.
Ignored == ChunkGoesOn /\ UNCHANGED <<create, read, snapshot>>

\* Any number of the messages behind the answer came with it.
ChunkBegins == chunk' \in 0..Len(down')

\* The server's answer to the registration: whatever its status, it resolves the
\* request.
OnCreateReply ==
    /\ TakesReply(Create)
    /\ IF create # "pending" THEN Ignored
       ELSE create' = "replied" /\ ChunkBegins /\ UNCHANGED <<read, snapshot>>
    /\ UNCHANGED <<alive, promise, readyState, view, gone, overtaken, subscriptions, up, server>>

\* The continuation of the answer: connect() resolves, and reads the session's state.
ReadSession ==
    /\ alive /\ create = "replied" /\ chunk = 0
    /\ create' = "answered"
    /\ promise' = "resolved"
    /\ read' = IF readyState = "OPEN" THEN "pending" ELSE "lost"
    /\ up' = Sent(<<Read>>)
    /\ UNCHANGED <<alive, readyState, view, gone, loop, subscriptions, down, server>>

\* No answer to the registration in 30 s: the transport is closed.
CreateTimeout ==
    /\ alive /\ create = "pending"
    /\ create' = "timeout"
    /\ readyState' = IF readyState = "OPEN" THEN "CLOSING" ELSE readyState
    /\ UNCHANGED <<alive, promise, read, view, gone, loop, subscriptions, up, down, server>>

\* Mutant: the deletions of foreign streams are filtered, as the creations of own
\* ones are.
KeptForeign(s) == IF s \in Own THEN view \ {s} ELSE view

\* 'stream#deleted' is emitted for s, whoever published it.
Kept(s) == view \ {s}

\* Mutant: the filter compares with the wrong id.
ForeignAll(s) == TRUE

\* The event is about a stream of another connection.
Foreign(s) == s \notin Own

\* The streams of q are announced to the application.
Announce(q) ==
    /\ view' = view \cup {q[i] : i \in DOMAIN q}
    /\ Subscribe(q)

\* The stream of the oldest message.
Stream == Head(down).uri[1][2]

OnStreamCreated ==
    /\ TakesEvent("stream", "created")
    /\ IF Foreign(Stream) THEN Announce(<<Stream>>) ELSE UNCHANGED <<view, subscriptions, up>>
    /\ ChunkGoesOn
    /\ UNCHANGED <<alive, promise, readyState, create, read, gone, snapshot, overtaken, server>>

OnStreamDeleted ==
    /\ TakesEvent("stream", "deleted")
    /\ view' = Kept(Stream)
    /\ gone' = gone \cup {Stream}
    /\ overtaken' = overtaken \cup ({Stream} \cap snapshot)
    /\ ChunkGoesOn
    /\ UNCHANGED <<alive, promise, readyState, create, read, snapshot, subscriptions, up, server>>

\* The answer to the read resolves the request.
OnReadReply ==
    /\ TakesReply(Read)
    /\ IF read # "pending" THEN Ignored
       ELSE /\ read' = "replied" /\ snapshot' = Head(down).content.streams
            /\ ChunkBegins /\ UNCHANGED create
    /\ UNCHANGED <<alive, promise, readyState, view, gone, overtaken, subscriptions, up, server>>

\* The sequences that list a set.
Lists(S) == {q \in [1..Cardinality(S) -> S] : {q[i] : i \in DOMAIN q} = S}

\* The continuation of the answer: every stream of the snapshot is announced, also those
\* that an event has announced already, or has announced as deleted; connections are not
\* compared.
AnnounceSnapshot ==
    /\ alive /\ read = "replied" /\ chunk = 0
    /\ \E q \in Lists(snapshot) : Announce(q)
    /\ read' = "answered" /\ snapshot' = {}
    /\ UNCHANGED <<alive, promise, readyState, create, gone, chunk, overtaken, down, server>>

\* No answer to the read in 30 s: nobody handles the rejection.
ReadTimeout ==
    /\ alive /\ read = "pending"
    /\ read' = "lost"
    /\ UNCHANGED <<alive, promise, readyState, create, view, gone, loop, subscriptions, up, down, server>>

\* An offer for one of the subscribers: it listens to its own uri.
OnOffer ==
    /\ TakesEvent("subscriber", "offer")
    /\ \E b \in DOMAIN subs :
          Head(down).uri = SubscriberUri(subs[b], b) /\ PrepareAnswer(b)
    /\ ChunkGoesOn
    /\ UNCHANGED <<alive, promise, create, read, view, gone, snapshot, overtaken, readyState, up, server>>

\* Mutant: nobody listens to the close.
AfterCloseIgnored == promise

\* What a close does to what connect() returned.
AfterClose == IF promise = "pending" THEN "rejected" ELSE promise

\* The socket closes, by either side: connect rejects if it is still pending.
Closed ==
    /\ alive /\ readyState \in {"OPEN", "CLOSING"}
    /\ readyState' = "CLOSED"
    /\ promise' = AfterClose
    /\ up' = <<>> /\ down' = <<>>
    /\ UNCHANGED <<alive, create, read, view, gone, loop, subscriptions, server>>

\* The socket errs: nothing handles it, and what is on the wires is lost.
SocketError ==
    /\ alive /\ readyState \in {"CONNECTING", "OPEN", "CLOSING"}
    /\ alive' = FALSE
    /\ up' = <<>> /\ down' = <<>>
    /\ UNCHANGED <<promise, readyState, create, read, view, gone, loop, subscriptions, server>>

\* The peer connection of a subscriber has made its answer.
answer(b) ==
    /\ alive
    /\ Answer(b)
    /\ UNCHANGED <<joining, readyState, down, server>>

\* The application publishes, once connect() has resolved.
publish(o) ==
    /\ alive /\ promise = "resolved" /\ readyState = "OPEN"
    /\ Publish(o)
    /\ UNCHANGED <<joining, readyState, down, server>>

\* client.disconnect
disconnect ==
    /\ alive /\ readyState = "OPEN"
    /\ readyState' = "CLOSING"
    /\ UNCHANGED <<joining, subscriptions, up, down, server>>

-----------------------------------------------------------------------------
\* What a subscriber is sent: nothing before the subscription.
Notify(m) == IF subscribed /\ readyState \in {"OPEN", "CLOSING"} THEN Append(down, m) ELSE down

\* A stream appears in the session.
Appears(s) ==
    /\ streams' = streams \cup {s}
    /\ past' = past \cup {s}
    /\ window' = IF subscribed /\ read \in {"none", "pending"} THEN window \cup {s} ELSE window
    /\ down' = Notify(Created(s))

\* The server takes the oldest message of the client. A stream whose id was there
\* before is not created; a subscriber of a stream that is there is sent an offer.
ServerTakes ==
    /\ alive
    /\ up # <<>> /\ Len(down) < MaxWire
    /\ up' = Tail(up)
    /\ LET m == Head(up) IN
       \/ /\ m = SubscribeSession
          /\ subscribed' = TRUE
          /\ UNCHANGED <<streams, past, window, watched, answered, down>>
       \/ /\ m = Create
          /\ down' = Append(down, Reply(Create, Empty))
          /\ UNCHANGED server
       \/ /\ m = Read
          /\ down' = Append(down, Reply(Read, [streams |-> streams]))
          /\ UNCHANGED server
       \/ \E s \in Streams :
          /\ m = streams_create(s)
          /\ IF s \in past THEN UNCHANGED <<streams, past, window, down>> ELSE Appears(s)
          /\ UNCHANGED <<subscribed, watched, answered>>
       \/ \E s \in Streams, b \in DOMAIN subs :
          \/ /\ m = subscribers_create(s, b)
             /\ IF s \in streams
                THEN watched' = watched \cup {<<s, b>>} /\ down' = Append(down, Offer(s, b))
                ELSE UNCHANGED <<watched, down>>
             /\ UNCHANGED <<subscribed, streams, past, window, answered>>
          \/ /\ m = subscribers_answer(s, b, "answer")
             /\ answered' = answered \cup {<<s, b>>}
             /\ UNCHANGED <<subscribed, streams, past, window, watched, down>>
    /\ UNCHANGED <<joining, readyState, subscriptions>>

\* The session goes on only as long as the client is there to see it.
Seen == alive /\ readyState # "CLOSED"

\* Someone else publishes.
RemotePublishes(s) ==
    /\ Seen
    /\ s \notin past /\ Len(down) < MaxWire
    /\ Appears(s)
    /\ UNCHANGED <<joining, readyState, subscriptions, up, subscribed, watched, answered>>

\* A stream ends.
StreamEnds(s) ==
    /\ Seen
    /\ s \in streams /\ Len(down) < MaxWire
    /\ streams' = streams \ {s}
    /\ down' = Notify(Deleted(s))
    /\ UNCHANGED <<joining, readyState, subscriptions, up, subscribed, past, window, watched, answered>>

OnMessage == OnCreateReply \/ OnStreamCreated \/ OnStreamDeleted \/ OnReadReply \/ OnOffer
Continuation == ReadSession \/ AnnounceSnapshot

\* What the loop turns to only when nothing is waiting.
OtherEvent ==
    \/ connect \/ disconnect \/ AnvilAnswers \/ Open \/ Closed
    \/ CreateTimeout \/ ReadTimeout
    \/ \E b \in DOMAIN subs : answer(b)
    \/ \E o \in Own : publish(o)

Next ==
    \/ OnMessage \/ Continuation
    \/ ~Waiting /\ OtherEvent
    \/ SocketError
    \/ ServerTakes
    \/ \E s \in Remote : RemotePublishes(s)
    \/ \E s \in Streams : StreamEnds(s)

\* The loop goes on with the messages it has and with the continuations, the 30 s timer
\* of the registration fires, and a socket that is being closed closes, for ws gives the
\* other side 30 s. Nothing is assumed of Anvil, of the network or of the server.
Fairness ==
    /\ WF_vars(Waiting /\ (OnMessage \/ Continuation))
    /\ WF_vars(~Waiting /\ CreateTimeout)
    /\ WF_vars(~Waiting /\ readyState = "CLOSING" /\ Closed)

Spec == Init /\ [][Next]_vars /\ Fairness

-----------------------------------------------------------------------------
TypeOK ==
    /\ SubscriptionsTypeOK
    /\ alive \in BOOLEAN /\ subscribed \in BOOLEAN
    /\ promise \in {"none", "pending", "resolved", "rejected"}
    /\ create \in {"none", "pending", "replied", "answered", "timeout"}
    /\ read \in {"none", "pending", "replied", "answered", "lost"}
    /\ view \subseteq Streams /\ gone \subseteq Streams
    /\ chunk \in Nat /\ snapshot \subseteq Streams /\ overtaken \subseteq Streams
    /\ streams \subseteq past /\ past \subseteq Streams /\ window \subseteq past
    /\ watched \subseteq Streams \X DOMAIN subs /\ answered \subseteq Streams \X DOMAIN subs

\* The client has joined and nothing is under way.
Settled == alive /\ readyState = "OPEN" /\ read = "answered" /\ up = <<>> /\ down = <<>>

\* The application's picture of the session is right whenever the wires are empty
\* and the snapshot was announced: no stream that was published while it was joining is
\* missing, its own are not in it, and none that ended is left, except those whose end
\* overtook the snapshot, and all of these.
ViewConverges == Settled => view = (streams \ Own) \cup overtaken

\* A stream that was announced as deleted comes back in one case only, when its deletion
\* came in one piece with the snapshot that lists it. Otherwise neither an event nor the
\* snapshot is older than the deletion it follows.
NoResurrection == view \cap gone \subseteq overtaken

\* A stream is subscribed to once, or twice if it was published between the
\* subscription to the session and the read: the event and the snapshot both carry
\* it. A stream of the application's own is not subscribed to.
SubscribedOnce ==
    \A s \in Streams : Cardinality({b \in DOMAIN subs : subs[b] = s}) <=
        IF s \in Own THEN 0 ELSE IF s \in window THEN 2 ELSE 1

\* Once the wires are empty every stream of the others is sent to the application:
\* the server knows a subscriber of it, under the stream's own name.
EveryStreamIsWatched ==
    Settled => \A s \in streams \ Own : \E b \in DOMAIN subs :
                    subs[b] = s /\ <<s, b>> \in watched

\* An answer names the stream of its subscriber, or that of one subscribed to later, while
\* the answer was made: never that of an earlier one, nor no stream.
AnswersAreNamed ==
    \A a \in answered : \E b \in DOMAIN subs : b >= a[2] /\ subs[b] = a[1]

\* The client has a socket to the session's server.
Connected == alive /\ readyState \in {"OPEN", "CLOSING"}

\* What a message says of the streams of the session.
ChangeOf(m) == IF Dispatched(m) \in {<<"stream", "created">>, <<"stream", "deleted">>}
               THEN <<m.method, m.uri[1][2]>> ELSE <<"other">>
Changes == [i \in 1..Len(down) |-> ChangeOf(down[i])]

\* The streams there were when the oldest message on the wire was sent.
ToldStreams ==
    LET said == {Changes[i] : i \in 1..Len(down)}
    IN  {s \in past : /\ <<"created", s>> \notin said
                      /\ s \in streams \/ <<"deleted", s>> \in said}

Replica == INSTANCE StreamReplica WITH
              listening <- subscribed /\ Connected, changes <- Changes, told <- ToldStreams,
              copy <- view \ overtaken, joined <- read = "answered" /\ Connected

\* The application's picture, without the streams whose end overtook the snapshot, is a
\* replica of the session: once the snapshot was announced it is the session as it was at
\* some time, and it goes through every state that followed.
ImplementsReplica == Replica!Spec

\* Between the snapshot and the end of the connection, that picture is the session as it
\* was when the oldest message on the wire was sent: whatever is under way.
PictureIsBehind == Replica!IsBehind

\* Once the socket has opened connect() settles, whatever the server does, unless the
\* process dies: the registration is answered, or times out, or the socket closes.
ConnectSettles ==
    promise = "pending" /\ readyState = "OPEN" ~> (promise # "pending" \/ ~alive)
=============================================================================
