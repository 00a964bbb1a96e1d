# A formal model of dogbone

dogbone takes part in OpenTok video sessions from a Node.js server. It does two
things with the streams it subscribes to. `server.js` terminates their WebRTC peer
connections, and hands the offers and the RTP packets to `pup`, a C program that
depacketizes, decodes and composes them into a recording. `gsbridge.js` bridges them
into Gridspace phone calls. Both stand on a client for OpenTok's messaging that is
written in this repository.

This directory holds TLA+ modules for the parts of dogbone with state worth
arguing about, TLC configurations that check them on small instances, and
TLAPS proofs that hold for every value of the constants. Line numbers are those of
the sources; `PROJECT.json` maps every definition to the lines it models.

Contents: [1. The system](#1-the-system) ·
[2. Modules and code](#2-modules-and-code) ·
[3. What the runs check](#3-what-the-runs-check) ·
[4. Fairness and deadlock](#4-fairness-and-deadlock) ·
[5. What is proved](#5-what-is-proved) ·
[6. What is only model-checked](#6-what-is-only-model-checked) ·
[7. Disagreements](#7-where-the-code-and-its-words-disagree) ·
[8. Other behaviours](#8-behaviours-seen-while-modelling) ·
[9. Not modelled](#9-what-is-not-modelled) ·
[10. Plan](#10-plan)

To run it: `tlc -config X.cfg M` for the module that `PROJECT.json` names beside
`X.cfg`, and `tlapm M.tla` for the modules `*Proofs.tla`.

## 1. The system

    OpenTok session (Anvil, Rumor/Raptor server)          Gridspace
          |  HTTP      |  WebSocket                            |  WebSocket
       anvil.js     websocket.js -> rumor.js -> raptor.js      gsproxy.js (Sift)
             \         |              |            |            |
              +------ opentok.js  (Client) --------+            |
                       |       \                                |
                subscriber.js   publisher.js                    |
                   |        \                                   |
               server.js     +---------- gsbridge.js -----------+
                   |  ZeroMQ push/pull (pup.js)
                   v
      pup:  pup_dogbone.cc --> vp8_depacketizer.c --> network_source.cc --> compositor
               control thread     rtp_packet_buffer.cc       fifos, mutex      (barc)

Everything in JavaScript is one thread: the code of an event runs to its end, then
the continuations of promises, then the next event. Interleaving is between events:
messages, timers, the closing of sockets, calls by the application. pup has
two threads: the control thread that takes messages, and the compositor's.

| component | state | operations | depends on | hard because | correct if |
|---|---|---|---|---|---|
| VP8 descriptor, `vp8_depacketizer.c` 41-312 | none (a pure parser) | `Parse` and its helpers | | unsigned lengths counted down through optional fields | it reads back whatever the layout can write, and refuses what is cut short |
| VP8 depacketizer, `vp8_depacketizer.c` 315-443, `rtp_packet_buffer.cc` | packet buffer, encoded frames, `has_first_keyframe` | push, try_parse, pop | the parser | frames are found by position in the buffer: what a refusal leaves, or a loss takes, moves every later frame | no NULL packet, no overrun, whole frames in order, a keyframe first |
| pup control, `pup_dogbone.cc` | codecs by stream | offer, packet, restart | depacketizer, source | one depacketizer for all streams, no state across restarts | known packets only; a decoder is missing only if it could not be set up |
| network source, `network_source.cc` | two decoders, the first timestamps, two queues | push audio/video, `setup_streams`, two callbacks of the compositor | libavcodec, compositor | every offer replaces the decoders; two threads | frames in order on a clock that goes forward |
| Rumor transport, `transport.js`, `websocket.js`, `rumor.js` | transactions, 30 s timers, keepalive, socket | connect, send, close, five socket events, timers | `ws` | a call is registered after it was sent; replies, timers and closes race | one outcome for each call, and always one |
| Raptor and client, `raptor.js`, `opentok.js`, `anvil.js` | the promise of connect, requests, the session as announced | connect, publish, subscribe, events, snapshot | Rumor | two sources announce streams: events, and a snapshot asked for after them | the picture converges; connect settles |
| subscriber, publisher, `subscriber.js`, `publisher.js`, `resource.js` | their address on the messaging bus | offer in, answer and candidates out | Raptor | options shared by all subscribers | answers go to the stream that offered |
| Gridspace client, `gsproxy.js` | state machine, token, socket, four callbacks | seven methods, eight socket events | `ws` | handlers of a dropped socket work on the one object; methods throw half way | state, token and server mean the same |
| Gridspace bridge, `gsbridge.js` | none but the callbacks it sets | stream and offer handlers | client, Gridspace client | one call and one set of callbacks for any number of streams | answers reach the subscriber that offered |
| browser client, `gridspacevoip.js` | as `gsproxy.js`, and a PeerConnection | as `gsproxy.js` | browser | handlers and promises of old sockets and connections work on the current ones | state, token and server mean the same; no connection and no microphone outlives its call |
| recording server, `server.js`, `pup.js` | peer connections, a table of subscribers | handlers of streams, offers, packets | client, pup | the offer must be in the pipe before its packets | see pup control |

The rest of the repository (`main.c`, Opus files, `watson.js`, `http.js`, `signal.js`,
`gscapability.js`, an empty `vp8_decode.c`) is in [9](#9-what-is-not-modelled).
The hazards each part is exposed to are listed, at their lines, in `PROJECT.json`.

## 2. Modules and code

    Vp8Descriptor    Vp8Depacketizer      FrameStream      RpcCalls       Sift      VoipSession
          \            |    |     \            ^               ^            |
       MCVp8Depacketizer    |      Pup         | implements    | implements |
                         Vp8Feed --------------+         RumorTransport  GsBridge -> CallOfTwo
                                                               |          (implements)
                                                               |
    RaptorMessage <- Subscriptions <- OpenTokSession    RumorMessage (with it in MCRumorTransport)
                                            |
                                            | implements
                                            v
                                      StreamReplica

    OpenTokSession uses of RumorTransport what that one promises: FIFO wires while the
    socket is open, and one outcome for each request.

Each `MCx` extends `x` with the values of its constants. Names of definitions are those
of the source where it has one. Definitions whose comment begins with *Mutant* are
plausible errors; no specification uses them, and each shows that the
property it is paired with in `PROJECT.json` can be broken by the code.

**`Vp8Descriptor`** - `Parse` byte by byte, helper by helper, over sequences of numbers
0..255; running off the end is a refusal, as in the code. `Layout` is the
reference: it writes a descriptor field by field, as drawn in the comment above `Parse`.
`Descriptor` is what the layout can hold, every value of every field (the Y bit needs a TID, as the assertion of `TIDFieldPresent` has it).
The PictureID of two bytes is read by the code as `(b % 128) * 256 + next`, which is what
the layout has.

**`Vp8Depacketizer`** - a packet is what the code reads of it: marker, whether `Parse`
accepts it, keyframe, sizes, timestamp. `Pushed` is
`vp8_depacketizer_push` (append; `try_parse` if the packet has the marker), `try_parse`
is the whole of the C function with its three ways out: refused first packet, frame, and
a packet in the middle that does not parse. `fault` records what the C code would run
into: a NULL packet, or a copy larger than its allocation. `calculate_frame_size` is
`rtp_buffer_walk` with `tally_packet_size`: it stops at the first marker still
buffered, even if that is another frame's. Any packet may come at any time.

**`FrameStream`** and **`Vp8Feed`** - `FrameStream` is the promise to the decoder: whole
frames, in order, from the first keyframe on. `Vp8Feed` sends one stream through
`handle_rtp` over a network that loses up to `MaxLost` packets. It implements `FrameStream` up to the first loss
(`From`, `Payloads`), which is what the code can promise: frames are found by position. The network
of `Vp8Feed` loses packets and does nothing else to them: that UDP may also reorder and duplicate them is not modelled, and nothing is
claimed of a stream it happens to.

**`Pup`** - `server.js`'s handlers, the ZeroMQ pipe, pup's control thread, the one
depacketizer and one source for all streams, the compositor's two callbacks,
and restarts. It extends `Vp8Depacketizer` and uses its `Pushed`. A stream may have several subscribers (`StreamOf`), for `server.js` subscribes
to one that is announced twice a second time: each has its own peer connection, its own offers and its own copy of the packets, and pup cannot tell them
apart, since all come under the stream's id. A packet of the model remembers its subscriber (`from`) for the properties only. A payload type stands for its codec, on
the assumption that the offers of a stream number them alike.
`OnAnswer` is the point from which packets of a codec may come. `setup_streams` makes new decoders at every offer, and each may fail: its context is then not open (codec
not found, or not opened) or missing (no memory). The result is ignored, as in `pup_dogbone.cc` 152. What packets then meet is an error
that nobody heeds, or a fault (`FaultOf`): a NULL context is looked into by libavcodec, and `alloc_audio_context` itself looks into an opus codec that was not found
(`null_codec`). `failed` and `missed` are history for `DecoderIsThere`. A restart
loses pup's memory and any prefix of the pipe (what had reached its end of it). What
libavcodec does with a mutilated frame is unknown (`Decodes` is either); a whole
delta frame is refused by a decoder that has had no keyframe. The mutex of the
queues makes the callbacks atomic.

**`RpcCalls`** and **`RumorTransport`** - `RpcCalls` says what `send` promises its caller. `RumorTransport` has one action for
every event and every continuation: `Send` writes to the wire and queues the
continuation, `Register` runs it (`rumor.js` 271-283), `Message`, `Timeout`, `KeepaliveTick`,
`Open`, `Close`, `Closed`, `SocketError`. `EventLoopFree` is the rule of the
event loop: an event waits for the microtasks. `ws` is laxer than that in one way, for the messages of one chunk are handed on without running the microtasks
between them. Here it makes no difference: what the microtasks of a message queue up is the registration of a call just sent, and
no reply to that can be in the chunk being read. In `OpenTokSession` and `GsBridge` it does, and they model it. A message is its kind and transaction.
An `error` of the WebSocket has no handler and ends the process.

**`RumorMessage`** - the bytes of a message, written and read, with the number of values of a byte as a
constant, so that the lengths at which a second byte is needed are small. `MessagesReadBack` is checked
with the transport, and proved for every message that fits the format (`Fits`: the counts in one byte, the lengths of strings in two, the size in four).
Strings are the bytes of their UTF-8; that the decoder undoes the encoder is the platform's.

**`RaptorMessage`** - the builders of `raptor.js`, and the dispatch of what arrives. An uri is the list of
resources it names; that an id contains the name of a resource (`indexOf` would find it) is left out, for ids
are UUIDs and session ids of the platform.

**`Subscriptions`** - the subscribers and publishers of one client, with the options they share. `_.extend(options,
constraints)` is `Extended`; a subscriber keeps its own uri, but `Answer` reads the stream from the options
at the time it is sent. The application is `server.js`: it subscribes to every stream it is told of and answers
every offer, when the peer connection is ready.

**`OpenTokSession`** - extends `Subscriptions` with `connect`, Anvil's answer, `Open` with the two messages of the `connected`
handler of `raptor.js`, the answers to the registration and to the read, their timeouts, the
events of streams and subscribers, `publish`, `disconnect`, closes and errors. An answer only resolves a promise (`OnCreateReply`, `OnReadReply`); what `opentok.js` does on it is
a continuation of its own (`ReadSession`, `AnnounceSnapshot`), at the end of a chain of promises through `rumor.js` 270-283 and `raptor.js` 277-281. `ws` hands on all messages of
one chunk before it runs: `chunk` is how many of those behind the answer came with it, any number, and while a continuation is due (`Waiting`) only they are
taken. The snapshot is announced in any order the
server lists it. `snapshot` is what waits to be announced; `overtaken` is history, the streams whose end was announced meanwhile.
`gone`, `window`, `watched` and `answered` are history or the server's knowledge, for the properties.

**`StreamReplica`** - what an application that joins a session is owed: a copy of a set that lags behind and is wrong
in no other way. Changes are taken in their order; joining makes the copy what the set was when the
oldest change not yet taken happened. The session joins in the continuation of the snapshot (a message taken before is a `Take` like any other), and its copy is the
picture without the streams whose end overtook the snapshot (`view \ overtaken`): these are wrong for good, and nothing else is. The mapping (`Changes`, `ToldStreams`) reads the session as it was off the wire: a stream on whose
creation there is a message under way was not there yet, one on whose end there is one still was. The snapshot of the
code is taken by the server *later* than the oldest message under way may have been sent, and says so nowhere;
that it is none the less the state at its place on the wire is what `ImplementsReplica` adds to `ViewConverges`.

**`Sift`** - all methods of the Gridspace client and all its socket events, with a socket for
each `authenticate`; a dropped socket delivers until it has closed. A method that throws leaves
what it had done: `connect` leaves `connecting`, `reset` stops at
the `hangUp` that threw, `answer` stops at the `_connect` that does not exist. A throw
in a handler ends the process (`alive`). `peer` is what the server makes of each socket.

**`GsBridge`** - composes `Sift` (restricted to one authentication, as `gsbridge.js`
does) with the handlers of the bridge, the subscribers' offers, and the two ways a stream is announced:
by an event, whose exceptions end the process, and by the snapshot, whose exceptions the
promise swallows, with the rest of the streams. As in `OpenTokSession`, the snapshot's reply only settles a promise: its streams are announced (`AnnounceSnapshot`) behind any `chunk` of messages that
came with it. The session's socket has no `error` handler (`websocket.js` 14-22), so an error of it ends the process (`OnSessionError`). **`CallOfTwo`** says what a call is to its two ends:
asked for when nothing is left of the last one, taken up, ended, and told of, each once, until the line is lost.
`ImplementsCall` maps it to the state of the machine, the server's, and the connects and hangups on the wires.

**`VoipSession`** - `gridspacevoip.js`: one object, and every socket and peer connection there ever was. The k-th call of
`_connect` makes the k-th connection and may ask for the k-th microphone. A negotiation is a chain of promises
(`NegotiationNeeded`, `OfferCreated`, `OfferSet`, or `OfferFails`) whose continuations work on the *current* connection, as
do `MediaGranted` and `OnAddStream`. The browser is external: after `close()` a socket delivers nothing, and a
send on it is dropped without an error - the two differences from `ws`, under which `gsproxy.js` runs, that decide `AuthenticatedIsAccepted`.
`spoilt` names the three things the client does not recover from, for the properties that exclude them.

## 3. What the runs check

| run | question | instance | distinct states |
|---|---|---|---|
| `Vp8Depacketizer` | any packets in any order: no fault, well-shaped frames, never catches up; `Parse` against `Layout` | packets parsed from bytes (keyframe, delta, refused, with extension), 4 buffered, 2 frames | 110 768 |
| `Vp8Feed` | up to the first loss the feed implements `FrameStream` and lags exactly; behind it, order and locality | 640 streams of six frames, up to two packets lost anywhere | 81 776 |
| `Vp8FeedDiscard` | a comment, violated ([7](#7-where-the-code-and-its-words-disagree)) | the same, no loss | |
| `Pup` | known packets, live decoders, order and clock of what is shown | three subscribers, two of them of one stream, three codecs, pipe of 2, one restart, one decoder that cannot be set up | 1 441 928 |
| `RumorTransport` | no reply missed, no call unwatched, every call settles, `RpcCalls`; bytes read back | two calls, wires of 3; bytes of 16 values, strings of 0, 1, 15, 16, 17, up to two addresses and two headers | 46 596 |
| `OpenTokSession` | convergence, no resurrection but of what overtook the snapshot, every stream watched once or twice, answers named, connect settles; the picture implements `StreamReplica` | two remote streams, one own, wires of 2 | 1 154 068 |
| `SiftApi` | state and token, throws half way, what ends the process | two sockets, wires of 2, every method, five kinds of server message | 1 789 392 |
| `SiftStaleAuth` | a comment, violated | two sockets, `reset` only | |
| `GsBridge` | authentication means acceptance, calls implement `CallOfTwo`, what ends the bridge | two streams, two subscribers, one socket, wires and feed of 2 | 1 166 920 |
| `GsBridgeAnswers` | a comment, violated | the same | |
| `VoipSession` | authentication means acceptance, nothing left of a call, muted is silent | two sockets, two calls, wires of 2, every method, every failure | 806 252 |
| `VoipTransfer` | two comments, violated | one socket, two calls | |

Why these bounds:

- *Depacketizer.* An interesting buffer is: something a refusal left, with its marker, then the packet
  that triggers. Three packets show it; four leave room for a frame of two on
  each side. The walk and the copy loop look at the first marker and at the first packet
  that does not parse, so the relative order of those two is what matters.
  Descriptors are all combinations of fields at the ends of their ranges (and 127/128, where the PictureID changes length).
- *Feeds.* A refused frame moves later ones by its packets without marker. Six frames of one or two
  packets with the first keyframe at 1, 2 or 3 give lags 0, 1 and 2 and still frames to
  play behind them; two losses can hit a frame and its neighbour, or two markers. Joining at
  the second packet begins within a frame.
- *Pup.* Two subscribers of one stream are enough for its packets to come twice and for an offer of one connection to meet packets of the other; a
  third, of another stream, for a foreign offer. `u1` has a
  keyframe of two packets and another keyframe, and its second offer may come anywhere between
  them and may name fewer video codecs; `u2` sends a delta frame at timestamp 0, into the same buffer and on the same clock; `u3` sends audio. One restart loses the stream table with
  packets under way; a second starts again from the same memory. One failure leaves either decoder closed or missing, or ends pup, at the first offer
  or at a later one; a second adds only the combination of two.
- *RumorTransport.* Two calls, one of them late: a reply for the other transaction, a timer of a settled
  call, a close between send and registration. A wire of 3 holds CONNECT and both requests.
- *OpenTokSession.* A stream can be created and deleted on each side of
  the subscription and of the read; two let one come while the other goes, and
  a second subscription overwrite the options while the first is being answered. Own streams are a set of their own. The server holds back at two
  messages on the wire; it may take any number before the client does.
- *VoipSession.* Two connections make one old and one current, which is what its stale handlers need; two sockets likewise. The
  properties also hold with two sockets and three calls over wires of one, and with one socket and three calls.
- *RumorMessage.* Nothing in the code depends on the value 256 but the shift by 8 and the width of a typed array, so `Base` stands for both.
- *Sift, GsBridge.* Two sockets make one dropped and one current. A third adds another dropped one. In the bridge one call
  can end and another begin (two streams), which is where callbacks go stale.

State spaces where an unbounded counter could grow (frames decoded, calls) are bounded by
the inputs: every stream is finite, every call has its own id. The bounds `Max...` are constants and
appear as guards of the sender. None is a limit the code has.

## 4. Fairness and deadlock

Only two specifications assume fairness.

- `RumorTransport`: weak fairness of `Register` and `Reject` (a runtime runs its microtasks
  before anything else) and of each `Timeout(c)` (a timer fires). Nothing of the
  network, the server, or the application. From this `EveryCallSettles` follows.
- `OpenTokSession`: weak fairness of what is left of a chunk with the continuation behind it (once read from the socket, nothing but this process
  has a part in it), of the 30 s timer of the registration, and of the end of a socket
  that was told to close, for `ws` 3.3.1 destroys it by itself after 30 s. From this `ConnectSettles`
  follows, which begins when the socket has opened. Before that nothing is promised: neither the
  request to Anvil nor the handshake of the socket has a timeout, and a server that accepts and never answers leaves
  `connect()` pending. Nothing is assumed of the session's server.

Every configuration switches the deadlock check off, because every one of these
systems may stop: a feed has sent its stream, a process is dead, a socket is closed and nothing reopens it,
or the bounds are used up. A state in which somebody waits for ever is what
`EveryCallSettles`, `ConnectSettles` and `PendingIsWatched` are about. `NoNullPacket` and `NoOverrun` look at `fault`, which stops the
process as the C code would.

## 5. What is proved

All constants are arbitrary within the named assumptions: any set of packets whose fields have their types (`PacketAssumption`),
streams whose packets parse and carry their position (`StreamAssumption`,
`VideoAssumption`), frames that are cut into packets that follow one another, with the marker on the last and a
keyframe's beginning only on the first (`FrameAssumption`), timestamps that never go back and go forward after a marker
(`ClockAssumption`; their wrap at 2^32 is left out), bounds that are naturals. No number of streams, calls, offers or losses is fixed.

**`Vp8DepacketizerProofs`** (`Typed`, `NeverNullPacket`, `FramesStayWellShaped`,
`WaitEndsWithKeyframe`, `CatchesUpNever`, `CopiesWithinAllocation`). The invariant `IInv` is the types, `NoNullPacket`, well-shaped frames, and:
no frame is queued while the first keyframe is awaited. The last part is needed because without it a
`Pop` would change `encoded_fifo` before the keyframe. The core is `TryParseSound`: `try_parse` runs only
on a buffer whose last packet has the marker, so the copy loop has an end, and what lies
before its first end has no marker and parsed. `PushedCuts` sums up what a push can do: the packet waits, or the first one is
refused, or the buffer is cut in two at the loop's end. For `CatchesUpNever` the markers of the two parts are counted
(`MarkersCut`): the part taken has one, and the push put one in. `CopiesWithinAllocation` compares two sums, of
the sizes the walk tallied and of those the loop copies. Every packet copied is one that was tallied (`CopiedWereTallied`): the walk stops
at the first marker, and the loop no later. The module's sum is a fold that chooses elements in any order; that a sum over a finite
set exists, splits at any element and grows with the set (`SumsExist`, `SumSplits`, `SumsCompare`) is proved by
taking a least counterexample in the number of elements.

**`Vp8DescriptorProofs`** (`ParserReadsBack`), for any descriptors and payloads of bytes. Two lemmas carry it. Reading back
(`ParsesLayout`): each helper takes the bytes of its field off the front of what is left and sets its field
(`TakesPictureID`, `TakesTl0PicIdx`, `TakesTIDAndKeyIdx`), or is not called because its flag is not set; `ReadsExtension` puts the three one after the other.
Refusing truncations needs no look at where a packet is cut: whatever the parser accepts, it accepts with anything behind it, and
then the payload has that behind it (`ParseGrows`, from a lemma for each helper). A truncation that was accepted would,
completed, have a longer payload than the one written.

**`Vp8FeedProofs`** (`LagStaysExact`, `FramesPlayedInOrder`, `LossesStayLocal`, `FeedImplementsFrameStream`), for any stream and any losses; `LagStaysExact` speaks of the time before the first of them. A `Piece` of the stream is all that arrived of it between two positions. `FeedIInv`
says that the buffer is a piece that reaches to the newest packet; that while a keyframe is awaited none that arrived lies in front of it;
that otherwise it begins where the last frame played ended; and that the frames played are pieces,
one behind the other, each up to the first marker that arrived. A push waits (`BufferWaits`), refuses one packet,
which is not the first keyframe (`BufferRefuses`), or plays the piece up to its first marker (`BufferPlays`); a loss
leaves the pieces as they are, since a lost position belongs to any piece. `FramesPlayedInOrder` reads the order off the pieces. For
`LossesStayLocal`: a piece with a packet of an unharmed frame can begin neither inside it, since the marker before the frame arrived, nor end
inside it, since its own marker did. `LagStaysExact` carries the equation for the markers in the buffer along, as long as nothing is lost (`LagFrom`):
while the first keyframe is awaited, every marker that arrived has had one packet refused, and the
markers still buffered are those that the refused packets did not take with them.
The refinement maps `played` to the payloads of the frames that lie before the first loss, and `from` to the position behind
them. A frame is among them if its end is before every loss (`Ahead`), and then it
is a whole stretch of the stream; since frames are in order these are the first few (`AheadIsPrefix`); a loss is
always of a later position, so it takes none back (`ShownSame`), and a step adds nothing or one frame, which is `Play(a, b)` (`OneMoreShown`).

**`RumorTransportProofs`** (`TransportTyped`, `PendingCallsAreWatched`, `TheServerSeesConnectFirst`,
`RepliesAreNeverMissed`, `TransportImplementsRpcCalls`). `RumorIInv` adds to the properties what makes
them inductive: a continuation is queued once, and as a registration exactly if its call is on the wire
(`QueuedOnce`); transactions were sent (`SentFirst`); a request is in one place - wire, held, answered - and a reply on its
way was answered (`OnePlace`, so that a call resolves only by an answer); before the socket
opens nothing is on the wire, and while it is open the server that has not been greeted has CONNECT to come (`Opening`).
`RepliesAreNeverMissed` is the argument the code relies on silently: an event needs an empty
microtask queue, so a pending call is registered by then.

The second half (`EveryMessageReadsBack`, `ClientMessagesReadBack`) is about the bytes, for any `Base` above 1 (`BaseAssumption`), any strings and
addresses and any finite headers. What is written lies in the message part behind part (`PartsLie`), so each list is a row of counted strings of
known places (`FlattenAt`), keys and values in turn (`PairsInTurn`). Reading a string that lies at the offset leaves the offset behind it (`ReadsOne`),
so reading a row gives its strings (`ReadsAll`); a key is written once, so the later of two with one key, which the reader would keep, never matters
(`HeadersRead`). The numbers are `TwoBytes` and `FourBytes`. Recursion over a list is counted with sets of naturals that hold 0 and the next of each (`NatSet`), which
well-foundedness gives.

**`PupProofs`** (`PupTypes`, `DecodersAreThere`, `NegotiatedIsAlwaysKnown`, `StreamsStayInOrder`, `ClockStaysForward`). A packet is let through only
by an entry of the stream table, and whatever made an entry also made the decoders, or recorded that it failed, or ended pup (`OffersSetUp`). For the codecs
the order of the pipe has to be followed: every codec described or negotiated, and that of every packet in the
pipe, was named by an offer already handled or further ahead (`OfferGoesFirst`). That holds only
until the first restart, so the invariant says `restarts = 0 => ...`. `StreamsStayInOrder` follows the packets (`OrderIInv`): of each subscriber, what was decoded comes
before what is buffered, and that before what is in the pipe. Several subscribers share the buffer, but a push only cuts it in two
(`PushedCuts`), and a restart only takes parts away. `ClockStaysForward` adds that a decoded frame ends with a marker and carries the
timestamp of its first packet, counted from the first frame's (`ClockIInv`): the next frame begins behind the marker, and there `ClockAssumption` has a later timestamp.
With two subscribers that are sent video neither holds, be they of one stream or of two, which is why the property asks for one; it also asks for a first
timestamp other than 0, and assumes timestamps that do not go back.

**`VoipProofs`** (`SessionTyped`, `AuthenticatedMeansAccepted`, `CallsLeaveNothing`, `MuteIsHeeded`). A reply to a token
does not say to which, so that the state is right needs the wires: `AuthIInv` says that a token goes up
a socket once and before anything else, that the one reply to it says what the server decided
(`AuthOnce`), that only the current socket can be opening (`OpeningIsCurrent`), and so that while the client
authenticates no reply is on its way but on the current socket (`NoStaleAuth`). `CallIInv` says that a negotiation
is of a connection that was made (`ChainsOfMade`), and that while a microphone is asked for the call that
waits for it is the only one and does nothing else (`QuietWhileAsking`): it cannot connect or be torn down with the request
pending, except by the failure of its socket. `MuteIInv` says that no microphone is silenced before it was given.

**`BridgeProofs`** (`MachineTyped`, `TokenMeansInitialized`, `OnlyStaleSocketsEverKill`; `AuthenticatedBridge`, `BridgeAgrees`, `BridgeImplementsCall`, `WhatEndsTheBridge`). The
first half is `Sift` by itself. A handler throws when the current socket is
not open. `SiftIInv` adds that the current socket is never half closed (`NotClosing`): `reset` forgets a socket in the step that
closes it, or throws before either. So a message of the current socket finds it open, and neither `ping`
nor `reset` can throw; what is left are messages of other sockets, offers, and media without callbacks.

The second half is the bridge, on top of `SiftIInv`. `Sift` alone does not
have `AuthenticatedIsAccepted` (run `SiftStaleAuth`), nor `Agreement` when an application hangs up. The bridge authenticates once, on its one socket,
and neither resets nor hangs up, so that everything under way between it and the server can be told (`CallIInv`): one token and one
reply to it (`OneAuth`); and, while the socket is open, a connect on its way up, a call at the server and a hangup on its way down
exclude each other, and there is one of them exactly while the machine is in `connected` (`OneCall`). Once the wires are
empty only the call is left, which is `Agreement`; and since no two of the three are there at once, a connect is
sent when none is, each step moves one of them on, and a reset or a close takes all, which is `BridgeImplementsCall`, one lemma for each kind of step
(`ConnectAsks`, `ServerPicksUp`, `ServerEnds`, `HangupTells`, `ResetLoses`). `Agreement` is what it comes to when the wires are empty, and has no run of its own. The callbacks are set in the step that sends the connect, so
an answer or a candidate finds them (`Proxied`). What is left of the ways to die are the five of `DeathsOfTheBridge`: an error of the session's socket, a stream announced by an event when there can be no
other call, a subscriber's offer when the socket is gone, an SDP offer of Gridspace, and a ping on a socket that a reset has dropped.

**`OpenTokProofs`** (`OnlyStreamsAreAnnounced`, `ClientTyped`, `DeletedStaysDeleted`, `PictureConverges`, `StreamsAreWatched`,
`SubscribedAtMostTwice`, `AnswersNameAStream`, `PictureLagsOnly`, `PictureIsReplica`), for finite sets of streams (`StreamAssumption` of `Subscriptions`; a snapshot is a list).
The client compares nothing with what it was told before, so it is the wire that keeps the
picture right. `SessionIInv`: a stream whose end is known or on the wire is over, and its id is not used again (`EndedAreOver`); no message behind
the one that ends it announces it (`NothingAfter`), nor any that is left once the end was taken (`NothingLate`). The exception is a snapshot that waits for its
continuation: ends taken meanwhile overtake it (`Overtaking`). All of this is therefore said of `known`, which is what the client was told of or has waiting, without what was overtaken; and as an
end is told once (`EndedOnce`), what was overtaken stays.
That the snapshot is no older than the events before it is `ReadReplySays` with the FIFO wire.
`JoinIInv` says what follows the joining step by step. The picture is never too large: a stream in it is there, or its end is on the wire
(`NothingLeft`); and, once the snapshot is on its way or taken, never too small but for what is under way: a stream of the others is known, or
announced by a message (`NothingMissing`). Neither is inductive without the order in which the client joins (`Ordered`), the one read
with its one answer (`OneRead`), and the client's own streams being created behind the read (`OwnLater`), so that no snapshot
announces one. `PictureConverges` is what is left of both when the wires are empty. Of each stream announced, the subscription
is queued, on its way up, or known to the server (`AllSubscribed`), which is `StreamsAreWatched`. `Counted` adds up, for each stream, the
subscriptions there are and every message that will cause one more, against the ways it can be announced. `Named` follows a description
from the subscriber that asked to the answer; since all subscribers share one options object, it is the last subscription so far that gives the name.
`PictureIsReplica` maps every step to one of `StreamReplica`. The wire names a stream's creation once, before its
end, and its end once (`ToldOnce`), so taking a message moves `ToldStreams` to the next state and leaves it alone otherwise; the
snapshot's list is the state at its place on the wire (`SnapshotIsTrue`); and no stream is known before its message is
taken (`KnownBefore`), so what the events before the snapshot brought is in the snapshot too, or has ended. With this, what is `known` is the state the wire starts from (`KnownIsBehind`), from the answer on and
through the messages that come before its continuation, which is the step that joins. `PictureLagsOnly` is the invariant it comes to;
no run states it beside the refinement, as none states `FirstFrameIsKeyframe` beside `ImplementsFrameStream`.
`OnlyStreamsAreAnnounced` is about the dispatch by uri, for any ids that are not themselves names of resources.

## 6. What is only model-checked

- The liveness properties `EveryCallSettles` and `ConnectSettles`: the prover does not treat `ENABLED`.
- Of `Sift` without the bridge, `AuthenticatedIsAccepted`, which fails; `AnswerReachesOfferer` of `GsBridge`,
  `RemoteStreamConnects` of `VoipSession` and `DiscardsBeforeKeyframe` of `Vp8Feed`, which fail too ([7](#7-where-the-code-and-its-words-disagree)).

Every other property of the runs is a theorem.

## 7. Where the code and its words disagree

| run | words | code |
|---|---|---|
| `Vp8FeedDiscard` | `vp8_depacketizer.c` 357: "discard all data before the first keyframe" | A refusal discards one packet, not its frame. The rest stays, with its marker, and since a marker parses one frame, the decoder stays that many frames behind for the whole stream. `LagIsExact` gives the number; `NeverCatchesUp` says why it stays. |
| `SiftStaleAuth` | `gsproxy.js` 8: AUTHENTICATED is "Auth successful, ready to connect." | After `reset` and a new `authenticate`, the reply still under way on the old socket authenticates the new one. |
| `GsBridgeAnswers` | `gsproxy.js` 34: "Proxy functions to work on behalf of another PeerConnection" | Two streams, one after the other: the first subscriber's later offer is forwarded into the second's call, and its answer handed to the second subscriber. |
| `VoipTransfer` | `gridspacevoip.js` 284: "This is where we'll say we're connected." and 234: "Don't do a full disconnect because we want to keep the media stream." | A transfer leaves the state `connected`, so the new connection's stream is taken for a leftover: `_onVoipConnected` disconnects it, stops the microphone, and the state stays `connected`. |

## 8. Behaviours seen while modelling

No run is about these; a reader of the code should know them.

- `gsproxy.js` 196: `answer` calls `this._connect`, which does not exist. The server is in the call by
  then, the client in `connecting`. 238: an SDP offer calls an undefined `log`.
- `gsproxy.js` 122: `connect` on a dead socket throws after setting `connecting`; only `reset` leads out.
- A hangup of the server that crosses the client's ends the next call; the bridge never hangs up, so `ImplementsCall` holds there.
- `gsbridge.js` authenticates once. After a reset by the server it is `uninitialized` for ever.
- `subscriber.js` 46: the answer is sent for the stream in the shared options, which the next subscribe may have overwritten.
  In the bridge the answer goes to the latest subscriber anyway; in `server.js` it does not, and the server is sent an answer under another
  stream's name. `AnswersAreNamed` says how far that goes.
- `publisher.js` 9: after a subscription, a publisher takes the id of the stream subscribed to last for its own.
- `raptor.js` 246: a registration answered with an error status resolves `connect`: the callback of a transaction takes any
  answer (`rumor.js` 272), and `isError` (46) is never read.
- `raptor.js` 86: `_.each` returns the channels it was given, so `channelFromOTChannel` converts nothing that is sent. 221: `signals.create` uses
  `OT`, which does not exist.
- `gridspacevoip.js` 117: a reset while connecting leaves the peer connection open and the microphone on. The stream of that connection, if it comes in
  a later call that is connecting, reports that call as connected.
- `gridspacevoip.js` 301: a microphone granted after the call was aborted is dropped without being stopped; granted in the next call,
  it is added to that one, beside the one that call asked for.
- `gridspacevoip.js` 224, 308: a hangup while connecting is ignored and a refused microphone is only logged: the state stays `connecting`.
- `gridspacevoip.js` 99: a stream that comes when `muted` is set is not muted; `muted` set by a call before it also makes the next `mute` do nothing.
- `gridspacevoip.js` 156: an error of the socket tears down the call and leaves the state, so the next `hangUp` finds nothing to close.
- `anvil.js` 10, `websocket.js` 9: no timeout before the socket has opened; `connect()` may stay pending.
- `opentok.js` 54: the snapshot is announced behind all messages that came in one chunk with it. If one of them ends a stream of the snapshot, the application is told of the end
  first and of the stream afterwards, and keeps it: the picture is wrong by that stream until the connection ends, and `server.js` subscribes to it.
  `ViewConverges`, `NoResurrection` and `ImplementsReplica` say that this is the only way in which the picture is wrong.
- `opentok.js` 42: `getSessionState` is not waited for; if it fails, streams from before are never announced and connect has resolved.
- `rumor.js`: PONGs are not counted, so a silently dead connection stays open; calls time out one by one. `close` leaves pending calls to their timers.
- `server.js` 46: a stream that is subscribed to twice is sent to pup twice, under one id, and so decoded and shown twice. `ShownInOrder` is about each subscriber.
- `pup_dogbone.cc` 152: nobody looks whether the decoders could be set up. Packets of a codec whose decoder is not open are dropped with a message; a
  context that could not be allocated, and an opus codec that is not found (`network_source.cc` 179), end the process.
- `pup_dogbone.cc` 205: two senders share one depacketizer, so frames mix packets of both (a TODO at 222 says so).
  What holds all the same is `ShownInOrder` and the absence of faults.
- `network_source.cc` 85: 0 stands for "no first timestamp". A stream that begins at 0 has its zero at its second frame;
  a stream that wraps at 2^32 goes back. `ClockGoesForward` excludes both, and two subscribers that are sent video.
- `network_source.cc` 220: an offer replaces the decoders while frames are under way; delta frames fail up to the next keyframe.

## 9. What is not modelled

- ICE candidates, in `gridspacevoip.js` and in `subscriber.js`: no state depends on them. The negotiation of a publisher
  (`publisher.js` 35-56): it has no caller in the repository and only sends a message or emits an event.
- `signals.create` (`raptor.js` 213): it throws.
- `main.c`: a script around the compositor, which is outside the repository. Freeing of depacketizer and source: no
  caller while they are in use. `dogbone_get_opus`, `opus_writer.c`: their caller is commented out. `opus_parser.c`
  fills a record nobody branches on. `vp8_decode.c` is empty.
- `watson.js` (posts a file when pup names one, which it does no longer), `signal.js`, `gscapability.js`: input and output
  without state. `http.js`: an HTTP front end that nothing requires.
- The width of integers: lengths in the depacketizer are bounded by an RTP packet, far below 2^32; the wrap of timestamps is excluded as said above.
- Packets that the network reorders or duplicates, in `Vp8Feed` and in `Pup`: the depacketizer does not look at sequence numbers, so both put packets into its buffer as they come. The depacketizer by itself is checked, and
  proved free of faults, for packets in any order.
- Loss on the ZeroMQ pipe other than by a restart; its high-water mark is a thousand messages.

## 10. Plan

The order is the importance of the behaviour. Done:

1. `Vp8Descriptor`, `Vp8Depacketizer`, `FrameStream`, `Vp8Feed`: the heart of pup, and its proofs.
2. `RpcCalls`, `RumorTransport` and its proofs: everything else talks through it.
3. `OpenTokSession`: what the application believes of the session.
4. `Sift`, `GsBridge`: the call machine and what is built on it.
5. `Pup` and its first proofs: offers, codecs, decoders, restarts, the compositor.
6. `Subscriptions`, `RaptorMessage`: the subscribers of one client with their shared options, against `server.js`.
7. `VoipSession`: the machine of `Sift` with the promises of the browser.
8. `RumorMessage`: the byte format.
9. `VoipProofs`, `OpenTokProofs`, `BridgeProofs`: the machines of both clients, the session and the bridge, for any number of sockets, calls and streams.

10. The rest of `PupProofs`, `Vp8DepacketizerProofs` and `Vp8FeedProofs`: order, clock, allocation, lag and locality, for any number of losses.

11. `StreamReplica`, and the proof that the session implements it.

12. `Vp8DescriptorProofs`: the parser, one field of the descriptor at a time.

13. `CallOfTwo`, and the proof that the bridge implements it.

14. The bytes of Rumor's messages in `RumorTransportProofs`, one string at a time.

Every safety property that a passing run checks is now a theorem. What is left is liveness, which is out of the prover's reach.

An abstract specification still worth stating: a call of `VoipSession` as both ends see it. `CallOfTwo` is not it, for there either
side hangs up, and hangups cross.
