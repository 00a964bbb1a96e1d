------------------------------- MODULE GsBridge -------------------------------
(******************************************************************************)
(* gsbridge.js: the streams of an OpenTok session are bridged to Gridspace    *)
(* calls, through the one Sift object. Authentication makes it join the       *)
(* session; each stream that is announced is connected as a call of its own   *)
(* and subscribed to, and the callbacks for Gridspace's answers are pointed   *)
(* at its subscriber (subscriber.js). Subscribers are never removed.          *)
(*                                                                            *)
(* How a stream is announced (opentok.js): by an event, where an exception    *)
(* of the handler ends the process, or by the snapshot read after joining,    *)
(* where it is swallowed by the promise and the rest of the snapshot is lost. *)
(* The snapshot's reply only settles a promise: what else came in the same    *)
(* chunk of the socket is handled before its streams are announced.           *)
(* The session's server is outside the repository: OpenTokSession shows what  *)
(* it and the client make of joining, and only the messages are kept here.    *)
(******************************************************************************)
EXTENDS Sift, FiniteSets

CONSTANTS
    Streams,    \* the streams that are published, each once
    MaxFeed     \* bound: messages of the session that wait

\* authenticate is called once, and a PeerConnection is a subscriber, by number.
ASSUME BridgeAssumption ==
    /\ MaxSockets = 1 /\ Ops = {"connect", "forward"}
    /\ IsFiniteSet(Peers) /\ Peers = 1..Cardinality(Peers)
    /\ MaxFeed \in Nat

VARIABLES
    joining,      \* openTokConnect was called
    feed,         \* what the session sends: announcements and offers
    subscribers,  \* the stream of each subscriber, in order of creation
    read,         \* the snapshot whose announcement waits, or <<>>
    chunk,        \* meanwhile, the messages left of the chunk it came in
    live,         \* the streams published so far
    watched,      \* the session's events are sent to the bridge
    snapped,      \* the snapshot was taken
    heard         \* the offers of the call that Gridspace has not answered

reading == <<read, chunk>>
bridge == <<joining, feed, subscribers, reading>>
session == <<live, watched, snapped>>
bridgeVars == <<vars, bridge, session, heard>>

BridgeInit ==
    /\ Init
    /\ joining = FALSE
    /\ feed = <<>> /\ subscribers = <<>>
    /\ read = <<>> /\ chunk = 0
    /\ live = {} /\ watched = FALSE /\ snapped = FALSE
    /\ heard = {}

-----------------------------------------------------------------------------
\* No continuation is pending: the next event of any socket may be taken.
Idle == read = <<>>

\* The script's own code: it authenticates.
Main == Authenticate(1) /\ UNCHANGED <<bridge, session, heard>>

\* onAuthenticated joins the session.
OnAuthenticated ==
    /\ \E m \in {<<"auth", "OK">>, <<"auth", "failed">>} : OnAuth(1, m)
    /\ joining' = (joining \/ (state = "authenticating" /\ state' = "authenticated"))
    /\ UNCHANGED <<feed, subscribers, reading, session, heard>>

\* The oldest message of the session is taken, if it has arrived by then.
Taken ==
    /\ alive /\ feed # <<>> /\ feed' = Tail(feed)
    /\ IF Idle THEN UNCHANGED reading
       ELSE chunk > 0 /\ chunk' = chunk - 1 /\ UNCHANGED read

\* The 'stream#created' handler has its call: sift.connect does not throw.
MayConnect == state = "authenticated" /\ token /\ CanSend

\* The handler for stream s: connect, subscribe, set the callbacks.
Bridged(s) ==
    /\ MayConnect /\ connect
    /\ Len(subscribers) + 1 \in Peers
    /\ subscribers' = Append(subscribers, s)

\* A stream is announced by an event: what connect throws, nobody catches.
OnStreamCreated ==
    /\ Taken /\ Head(feed)[1] = "created"
    /\ \/ Bridged(Head(feed)[2])
       \/ /\ ~MayConnect
          /\ alive' = FALSE
          /\ UNCHANGED <<state, token, sock, proxied, ws, up, down, peer, subscribers>>
    /\ UNCHANGED <<joining, session, heard>>

\* The snapshot arrives, with some of the messages behind it in the same chunk.
OnSnapshot ==
    /\ alive /\ feed # <<>> /\ Head(feed)[1] = "snapshot"
    /\ feed' = Tail(feed)
    /\ read' = Head(feed)[2]
    /\ chunk' \in IF read' = <<>> THEN {0} ELSE 0..Len(feed')
    /\ UNCHANGED <<vars, joining, subscribers, session, heard>>

\* The snapshot announces its streams one by one. The first takes the call, if it
\* can be had, so the second throws: either way the rest is lost.
AnnounceSnapshot ==
    /\ alive /\ ~Idle /\ chunk = 0
    /\ read' = <<>>
    /\ IF state # "authenticated" THEN UNCHANGED <<vars, subscribers>>
       ELSE IF CanSend THEN Bridged(Head(read))
       ELSE connect /\ UNCHANGED subscribers
    /\ UNCHANGED <<joining, feed, chunk, session, heard>>

\* A subscriber is offered a description, which is forwarded to Gridspace, whatever
\* the state and whosever the call: only the socket is asked, by an exception.
OnOffer ==
    /\ Taken /\ Head(feed)[1] = "offer"
    /\ \/ forwardOffer(Head(feed)[2])
       \/ /\ ~CanSend
          /\ alive' = FALSE
          /\ UNCHANGED <<state, token, sock, proxied, ws, up, down, peer>>
    /\ UNCHANGED <<joining, subscribers, session, heard>>

\* The other events of the socket are Sift's own business.
OnSocket ==
    /\ \/ Open(1) \/ Closed(1) \/ OnRing(1) \/ OnHangup(1) \/ OnReset(1) \/ OnPing(1)
       \/ \E type \in Description \cup {"candidate"} :
             \E m \in Messages(type) : OnProxied(1, m)
    /\ UNCHANGED <<bridge, session, heard>>

\* The session's socket errs: no handler is set, so the process ends.
OnSessionError ==
    /\ joining /\ alive' = FALSE
    /\ UNCHANGED <<state, token, sock, proxied, ws, up, down, peer, bridge, session, heard>>

-----------------------------------------------------------------------------
\* Gridspace takes a message. It keeps the offers of the call it is in.
GridspaceTakes ==
    /\ ServerTakes(1)
    /\ heard' = IF peer'[1] # "in call" \/ peer[1] # "in call" THEN {}
                ELSE IF Head(up[1])[1] = "offer" THEN heard \cup {Head(up[1])[2]} ELSE heard
    /\ UNCHANGED <<bridge, session>>

\* Gridspace sends a message. It answers the offers it has, in any order.
GridspaceSends ==
    /\ \E type \in Sends : \E m \in Messages(type) :
          /\ ServerSends(1, m)
          /\ type = "answer" => m[2] \in heard
          /\ heard' = CASE type = "answer" -> heard \ {m[2]}
                        [] type = "hangup" -> {}
                        [] OTHER -> heard
    /\ UNCHANGED <<bridge, session>>

\* A stream is published: those who watch are told.
Publish(s) ==
    /\ s \notin live /\ Len(feed) < MaxFeed
    /\ live' = live \cup {s}
    /\ feed' = IF watched THEN Append(feed, <<"created", s>>) ELSE feed
    /\ UNCHANGED <<vars, joining, subscribers, reading, watched, snapped, heard>>

\* The session's server takes the subscription to events.
Watch ==
    /\ joining /\ ~watched
    /\ watched' = TRUE
    /\ UNCHANGED <<vars, bridge, live, snapped, heard>>

\* It answers the read of the session, later.
Snap ==
    /\ watched /\ ~snapped /\ Len(feed) < MaxFeed
    /\ snapped' = TRUE
    /\ \E q \in [1..Cardinality(live) -> live] :
          /\ \A i, j \in 1..Cardinality(live) : q[i] = q[j] => i = j
          /\ feed' = Append(feed, <<"snapshot", q>>)
    /\ UNCHANGED <<vars, joining, subscribers, reading, live, watched, heard>>

\* It offers a subscriber a description: when it subscribes, and again whenever the
\* stream is negotiated anew.
Offers(i) ==
    /\ i \in 1..Len(subscribers) /\ Len(feed) < MaxFeed
    /\ feed' = Append(feed, <<"offer", i>>)
    /\ UNCHANGED <<vars, joining, subscribers, reading, session, heard>>

BridgeNext ==
    alive /\
      (\/ Idle /\ (Main \/ OnAuthenticated \/ OnSocket)
       \/ OnStreamCreated \/ OnSnapshot \/ AnnounceSnapshot \/ OnOffer \/ OnSessionError
       \/ GridspaceTakes \/ GridspaceSends \/ Watch \/ Snap
       \/ (\E s \in Streams : Publish(s)) \/ (\E i \in Peers : Offers(i)))

BridgeSpec == BridgeInit /\ [][BridgeNext]_bridgeVars

-----------------------------------------------------------------------------
\* A call of the bridge is one of two ends, while its socket is there: connects, calls of
\* Gridspace and hangups follow one another, and none is left over for the next call.
OnWire(w, m) == \E i \in 1..Len(w) : w[i] = m
Line == ws[1] \notin {"CLOSING", "CLOSED"}

Call == INSTANCE CallOfTwo WITH
          lost <- ~Line,
          caller <- Line /\ state = "connected",
          callee <- Line /\ peer[1] = "in call",
          asked <- Line /\ OnWire(up[1], <<"connect">>),
          ended <- Line /\ OnWire(down[1], <<"hangup">>)

ImplementsCall == Call!Spec

\* What may end the bridge: an error of the session's socket, a stream announced by an
\* event when the machine is in no state for another call or its socket is gone, a
\* subscriber's offer when that socket is gone, an SDP offer of Gridspace (log), or a
\* ping on the socket that a reset has dropped. No snapshot does, and no answer and no
\* candidate: its callbacks are set before Gridspace can know of a call.
Announced(type) == feed # <<>> /\ feed' = Tail(feed) /\ Head(feed)[1] = type
Received(m) == down[1] # <<>> /\ down'[1] = Tail(down[1]) /\ Head(down[1]) = m

DeathsOfTheBridge ==
    [][~alive' => \/ OnSessionError
                  \/ Announced("created") /\ (state # "authenticated" \/ ~CanSend)
                  \/ Announced("offer") /\ ~CanSend
                  \/ \E p \in Peers : Received(<<"offer", p>>)
                  \/ Received(<<"ping">>) /\ sock = null]_bridgeVars

\* "Proxy functions to work on behalf of another PeerConnection" (gsproxy.js, 34): an
\* answer is handed to the subscriber whose offer it answers.
AnswerReachesOfferer ==
    [][\A p \in Peers : OnProxied(1, <<"answer", p>>) => p = Len(subscribers)]_bridgeVars
=============================================================================
