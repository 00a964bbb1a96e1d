---------------------------- MODULE RaptorMessage ----------------------------
(*****************************************************************************)
(* The messages of the Raptor protocol (src/opentok/raptor.js): a method, a  *)
(* uri that names a resource of the session, and a content. A uri is the     *)
(* path below /v2/partner/<key>/session/<id>, which is the same for all of a *)
(* client: the kinds of the resources on it and their ids. Of the content    *)
(* only what is read again is kept.                                          *)
(*                                                                           *)
(* signals.create is left out: it calls OT.$.uuid, and there is no OT.       *)
(*****************************************************************************)
EXTENDS Naturals, Sequences

Message(method, uri, content) == [method |-> method, uri |-> uri, content |-> content]

\* The content {}, and contents that nobody here reads.
Empty == [sdp |-> "none"]
Sdp(sdp) == [sdp |-> sdp]

SessionUri        == <<>>
ConnectionUri(c)  == <<<<"connection", c>>>>
StreamUri(s)      == <<<<"stream", s>>>>
SubscriberUri(s, b) == Append(StreamUri(s), <<"subscriber", b>>)
ChannelUri(of, c) == Append(of, <<"channel", c>>)

-----------------------------------------------------------------------------
offer(uri, sdp) == Message("offer", uri, Sdp(sdp))

connections_create(c)  == Message("create", ConnectionUri(c), Empty)
connections_destroy(c) == Message("delete", ConnectionUri(c), Empty)

sessions_get == Message("read", SessionUri, Empty)

streams_get(s)     == Message("read", StreamUri(s), Empty)
streams_create(s)  == Message("create", StreamUri(s), Empty)
streams_destroy(s) == Message("delete", StreamUri(s), Empty)
streams_answer(s, sdp) == Message("answer", StreamUri(s), Sdp(sdp))
streams_candidate(s)   == Message("candidate", StreamUri(s), Empty)

streamChannels_update(s, c) == Message("update", ChannelUri(StreamUri(s), c), Empty)

subscribers_create(s, b)  == Message("create", SubscriberUri(s, b), Empty)
subscribers_destroy(s, b) == Message("delete", SubscriberUri(s, b), Empty)
subscribers_update(s, b)  == Message("update", SubscriberUri(s, b), Empty)
subscribers_candidate(s, b)   == Message("candidate", SubscriberUri(s, b), Empty)
subscribers_answer(s, b, sdp) == Message("answer", SubscriberUri(s, b), Sdp(sdp))

subscriberChannels_update(s, b, c) == Message("update", ChannelUri(SubscriberUri(s, b), c), Empty)

-----------------------------------------------------------------------------
\* The kind of resource a message is dispatched as: each test overrides the ones
\* before it, and a connection is none of them.
Resource(uri) ==
    LET named == {uri[i][1] : i \in DOMAIN uri}
    IN  IF "channel" \in named THEN "channel"
        ELSE IF "subscriber" \in named THEN "subscriber"
        ELSE IF "stream" \in named THEN "stream"
        ELSE "session"

\* The event that is emitted for a message.
Dispatched(m) == <<Resource(m.uri), m.method>>
=============================================================================
