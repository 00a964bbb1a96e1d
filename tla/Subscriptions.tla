---------------------------- MODULE Subscriptions ----------------------------
(****************************************************************************)
(* The subscribers and publishers of an OpenTok client (subscriber.js,      *)
(* publisher.js, client.subscribe and client.publish of opentok.js) as the  *)
(* recording server uses them (server.js): each stream that is announced is *)
(* subscribed to, and the offer that comes of it is answered when the peer  *)
(* connection has made an answer.                                           *)
(*                                                                          *)
(* The options of a client are one object: subscribe and publish write the  *)
(* constraints they are called with into it, and an answer reads the stream *)
(* from it when it is sent. A message that cannot be sent, or that is not   *)
(* answered, closes a subscriber, which does nothing.                       *)
(****************************************************************************)
EXTENDS RaptorMessage, FiniteSets

CONSTANTS
    Remote,     \* streams that others may publish, each once
    Own         \* the ids uuid.v4() makes for streams of the application's own

ASSUME StreamAssumption == Remote \cap Own = {} /\ IsFiniteSet(Remote) /\ IsFiniteSet(Own)

Streams == Remote \cup Own
NoStream == "none"

VARIABLES
    readyState,  \* of the socket; "none" before Anvil has answered
    up,          \* the wire to the session's server
    streamId,    \* options.streamId
    subs,        \* the stream of each subscriber, in the order they were made
    preparing,   \* subscribers whose peer connection is making an answer
    published    \* the ids of Own that are used up

subscriptions == <<streamId, subs, preparing, published>>

SubscriptionsInit ==
    /\ streamId = NoStream
    /\ subs = <<>>
    /\ preparing = {}
    /\ published = {}

\* raptor.send, of several messages: without an open socket they are rejected.
Sent(ms) == IF readyState = "OPEN" THEN up \o ms ELSE up

\* Mutant: what is there already is kept.
ExtendedByDefault(q) == IF q = <<>> \/ streamId # NoStream THEN streamId ELSE q[1]

\* Mutant: constraints that do not name a stream clear it.
ExtendedWithUndefined(q) == IF q = <<>> THEN "undefined" ELSE q[Len(q)]

\* _.extend(options, constraints), for a subscription to each stream of q in turn.
Extended(q) == IF q = <<>> THEN streamId ELSE q[Len(q)]

\* Mutant: the subscribers after the first wait for the first to be answered.
CreatesOfFirst(q) ==
    [i \in 1..(IF q = <<>> THEN 0 ELSE 1) |-> subscribers_create(q[i], Len(subs) + i)]

\* What the subscribers made for the streams of q send.
Creates(q) == [i \in 1..Len(q) |-> subscribers_create(q[i], Len(subs) + i)]

\* The 'stream#created' handler of server.js, for the streams of q in turn.
Subscribe(q) ==
    /\ subs' = subs \o q
    /\ streamId' = Extended(q)
    /\ up' = Sent(Creates(q))
    /\ UNCHANGED <<preparing, published>>

\* The 'offer' handler of subscriber b: setRemoteDescription and createAnswer begin.
PrepareAnswer(b) ==
    /\ preparing' = preparing \cup {b}
    /\ UNCHANGED <<streamId, subs, published>>

\* The peer connection has made the answer of subscriber b: it is sent for the stream
\* that the options name by now.
Answer(b) ==
    /\ b \in preparing
    /\ preparing' = preparing \ {b}
    /\ up' = Sent(<<subscribers_answer(streamId, b, "answer")>>)
    /\ UNCHANGED <<streamId, subs, published>>

\* client.publish: the id is the one in the options, if there is one, or a new one.
Publish(o) ==
    /\ o \notin published
    /\ published' = published \cup {o}
    /\ up' = Sent(<<streams_create(IF streamId = NoStream THEN o ELSE streamId)>>)
    /\ UNCHANGED <<streamId, subs, preparing>>

SubscriptionsTypeOK ==
    /\ readyState \in {"none", "CONNECTING", "OPEN", "CLOSING", "CLOSED"}
    /\ streamId \in Streams \cup {NoStream}
    /\ subs \in Seq(Streams)
    /\ preparing \subseteq DOMAIN subs
    /\ published \subseteq Own
=============================================================================
