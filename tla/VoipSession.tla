----------------------------- MODULE VoipSession -----------------------------
(*******************************************************************************)
(* The call client of a browser (gridspacevoip.js): the state machine of       *)
(* gsproxy.js around a real RTCPeerConnection. One object, Sift, keeps the     *)
(* current socket, peer connection and microphone; the handlers of every       *)
(* socket and connection there ever was, and the continuations of getUserMedia *)
(* and createOffer, work on what is current when they run.                     *)
(*                                                                             *)
(* The browser is outside the repository: a socket delivers nothing once       *)
(* close() was called, a send on one that has closed is dropped silently, a    *)
(* closed peer connection fires no events and settles no promises, and an      *)
(* exception in a handler ends the handler only. ICE candidates are left out:  *)
(* no state depends on them.                                                   *)
(*******************************************************************************)
EXTENDS Naturals, Sequences

CONSTANTS
    MaxSockets,   \* bound: calls of authenticate
    MaxCalls,     \* bound: calls of _connect, each of which makes a peer connection
    MaxWire       \* bound: messages on a wire before the sender holds back

ASSUME VoipAssumption == MaxSockets \in Nat /\ MaxCalls \in Nat /\ MaxWire \in Nat

Sockets == 1..MaxSockets
Pcs == 1..MaxCalls   \* also the microphones: the k-th _connect asks for the k-th
null == 0

VARIABLES
    state,      \* _state
    token,      \* _token is set
    sock,       \* _sock
    pc,         \* _peerConnection
    local,      \* _localMediaStream
    muted,      \* muted
    ws,         \* readyState of each socket; "ABORTED": closed while it was connecting
    up, down,   \* the wires of each socket
    peer,       \* what the server makes of each socket
    pcs,        \* the peer connections
    chain,      \* where the promises of each connection's negotiation are
    asking,     \* calls whose getUserMedia is pending
    live,       \* microphones that capture
    silenced,   \* microphones whose tracks are disabled
    spoilt      \* history: which of the things happened that the client does not
                \* recover from: an abort while connecting, a transfer, a stream
                \* that came when it was muted already

sift == <<state, token, sock, muted>>
media == <<pc, local, pcs, chain, asking, live, silenced>>
sockets == <<ws, up, down, peer>>
vars == <<sift, media, sockets, spoilt>>

NewPc == [at |-> "new", signaling |-> "stable", needed |-> FALSE, remote |-> "none"]
ClosedPc == [NewPc EXCEPT !.at = "closed"]
Idle == [step |-> "idle", of |-> null]

Init ==
    /\ state = "uninitialized" /\ token = FALSE
    /\ sock = null /\ pc = null /\ local = null
    /\ muted = FALSE
    /\ ws = [s \in Sockets |-> "NEW"]
    /\ up = [s \in Sockets |-> <<>>] /\ down = [s \in Sockets |-> <<>>]
    /\ peer = [s \in Sockets |-> "new"]
    /\ pcs = [k \in Pcs |-> NewPc] /\ chain = [k \in Pcs |-> Idle]
    /\ asking = {} /\ live = {} /\ silenced = {} /\ spoilt = {}

-----------------------------------------------------------------------------
\* The bound on the current wire.
Room == sock # null => Len(up[sock]) < MaxWire

\* _send: a socket that is not open drops the message, or throws where nothing
\* follows the send.
Sent(m) == IF sock # null /\ ws[sock] = "OPEN" THEN [up EXCEPT ![sock] = Append(@, m)] ELSE up

\* Mutant: the microphone is left on.
_disconnectConnection ==
    /\ pcs' = [k \in Pcs |-> IF k = pc THEN ClosedPc ELSE pcs[k]]
    /\ pc' = null /\ local' = null
    /\ UNCHANGED live

\* _disconnect: close the connection, stop the microphone.
_disconnect ==
    /\ pcs' = [k \in Pcs |-> IF k = pc THEN ClosedPc ELSE pcs[k]]
    /\ pc' = null /\ local' = null
    /\ live' = live \ {local}

\* _connect, with the connections as they are by then: make a connection, and add
\* the stream that is given or there already, or ask for a microphone.
_connect(given, conns) ==
    \E k \in Pcs :
        LET stream == IF given THEN k ELSE local IN
        /\ conns[k].at = "new" /\ \A j \in 1..(k - 1) : conns[j].at # "new"
        /\ pc' = k
        /\ pcs' = [conns EXCEPT ![k] = [@ EXCEPT !.at = "open", !.needed = stream # null]]
        /\ local' = stream
        /\ live' = IF given THEN live \cup {k} ELSE live
        /\ asking' = IF stream = null THEN asking \cup {k} ELSE asking
        /\ UNCHANGED chain

\* A stream becomes the local one; its tracks are enabled whatever muted says.
Muted == IF muted THEN spoilt \cup {"late"} ELSE spoilt

authenticate(s) ==
    /\ state = "uninitialized"
    /\ ws[s] = "NEW" /\ \A r \in 1..(s - 1) : ws[r] # "NEW"
    /\ state' = "authenticating" /\ token' = TRUE
    /\ sock' = s
    /\ ws' = [ws EXCEPT ![s] = "CONNECTING"]
    /\ UNCHANGED <<muted, media, up, down, peer, spoilt>>

\* connect, with a stream of the application's or without
connect(given) ==
    /\ state = "authenticated" /\ token /\ Room
    /\ state' = "connecting"
    /\ up' = Sent(<<"connect">>)
    /\ _connect(given, pcs)
    /\ spoilt' = IF given THEN Muted ELSE spoilt
    /\ UNCHANGED <<token, sock, muted, silenced, ws, down, peer>>

\* Mutant: tracks are disabled only.
SilencedForGood(m) == IF m THEN silenced \cup {local} ELSE silenced

\* The tracks of the local stream follow muted.
Silenced(m) == IF m THEN silenced \cup {local} ELSE silenced \ {local}

\* setMuted, and mute and unmute. A stream that has not come yet is not muted.
setMuted(m) ==
    /\ m # muted
    /\ muted' = m
    /\ silenced' = IF local = null THEN silenced ELSE Silenced(m)
    /\ UNCHANGED <<state, token, sock, pc, local, pcs, chain, asking, live, sockets, spoilt>>

hangUp ==
    /\ state = "connected" /\ Room
    /\ state' = "authenticated"
    /\ up' = Sent(<<"hangup">>)
    /\ _disconnect
    /\ UNCHANGED <<token, sock, muted, chain, asking, silenced, ws, down, peer, spoilt>>

answer ==
    /\ state = "ringing" /\ Room
    /\ up' = Sent(<<"ringanswer", TRUE>>)
    /\ muted' = FALSE
    /\ state' = "connecting"
    /\ _connect(FALSE, pcs)
    /\ UNCHANGED <<token, sock, silenced, ws, down, peer, spoilt>>

decline ==
    /\ state = "ringing" /\ Room
    /\ up' = Sent(<<"ringanswer", FALSE>>)
    /\ state' = "authenticated"
    /\ UNCHANGED <<token, sock, muted, media, ws, down, peer, spoilt>>

\* Mutant: the socket is forgotten, not closed.
AfterCloseOpen(rs) == rs

\* What close() makes of a socket.
AfterClose(rs) == CASE rs = "CONNECTING" -> "ABORTED"
                    [] rs = "OPEN"       -> "CLOSING"
                    [] OTHER             -> rs

\* reset: hang up if connected, drop the socket and the token. While connecting the
\* peer connection, the microphone and a pending getUserMedia stay. What is still on
\* the wires of the dropped socket reaches nobody who would tell.
Reset(wire) ==
    /\ IF state = "connected" THEN _disconnect ELSE UNCHANGED <<pc, local, pcs, live>>
    /\ state' = "uninitialized" /\ token' = FALSE
    /\ sock' = null
    /\ ws' = [s \in Sockets |-> IF s = sock THEN AfterClose(ws[s]) ELSE ws[s]]
    /\ up' = [s \in Sockets |-> IF s = sock THEN <<>> ELSE up[s]]
    /\ down' = [s \in Sockets |-> IF s = sock THEN <<>> ELSE wire[s]]
    /\ spoilt' = IF state = "connecting" THEN spoilt \cup {"abort"} ELSE spoilt
    /\ UNCHANGED <<muted, chain, asking, silenced, peer>>

reset == Reset(down)

-----------------------------------------------------------------------------
\* _onSocketConnected: send the token.
Open(s) ==
    /\ ws[s] = "CONNECTING"
    /\ ws' = [ws EXCEPT ![s] = "OPEN"]
    /\ up' = IF state = "authenticating" THEN [up EXCEPT ![sock] = Append(@, <<"auth">>)] ELSE up
    /\ UNCHANGED <<sift, media, down, peer, spoilt>>

\* _onSocketError, of any socket: the call is torn down, but the state stays.
Fails(s) ==
    /\ ws[s] \in {"CONNECTING", "ABORTED", "OPEN"}
    /\ ws' = [ws EXCEPT ![s] = "CLOSED"]
    /\ up' = [up EXCEPT ![s] = <<>>] /\ down' = [down EXCEPT ![s] = <<>>]
    /\ IF state # "uninitialized" THEN _disconnect ELSE UNCHANGED <<pc, local, pcs, live>>
    /\ UNCHANGED <<sift, chain, asking, silenced, peer, spoilt>>

\* _onSocketClose, without an error before it: nothing.
Closes(s) ==
    /\ ws[s] \in {"OPEN", "CLOSING"}
    /\ ws' = [ws EXCEPT ![s] = "CLOSED"]
    /\ up' = [up EXCEPT ![s] = <<>>] /\ down' = [down EXCEPT ![s] = <<>>]
    /\ UNCHANGED <<sift, media, peer, spoilt>>

\* The oldest message of a socket is m, and it is delivered.
Takes(s, m) == ws[s] = "OPEN" /\ down[s] # <<>> /\ Head(down[s]) = m
Delivers(s, m) == Takes(s, m) /\ down' = [down EXCEPT ![s] = Tail(@)]

\* Mutant: the error is stored as the state.
OnRefusedErrorState == state' = "authentication-failed" /\ token' = FALSE

\* The server refused the token.
OnRefused == state' = "uninitialized" /\ token' = FALSE

OnAuth(s, ok) ==
    /\ Delivers(s, <<"auth", ok>>)
    /\ IF state # "authenticating" THEN UNCHANGED <<state, token>>
       ELSE IF ok THEN state' = "authenticated" /\ UNCHANGED token
       ELSE OnRefused
    /\ UNCHANGED <<sock, muted, media, ws, up, peer, spoilt>>

OnRing(s) ==
    /\ Delivers(s, <<"ring">>)
    /\ state' = IF state = "authenticated" THEN "ringing" ELSE state
    /\ UNCHANGED <<token, sock, muted, media, ws, up, peer, spoilt>>

\* An answer is applied to the current connection, if that has an offer out and the
\* browser accepts it; the stream it announces follows the first.
OnDesc(s, k) ==
    /\ Delivers(s, <<"desc", k>>)
    /\ \/ UNCHANGED pcs
       \/ /\ pc # null /\ pcs[pc].signaling = "have-local-offer"
          /\ pcs' = [pcs EXCEPT ![pc].signaling = "stable",
                                ![pc].remote = IF @ = "none" THEN "coming" ELSE @]
    /\ UNCHANGED <<sift, pc, local, chain, asking, live, silenced, ws, up, peer, spoilt>>

\* The remote party hangs up; a call that is still connecting does not hear of it.
OnHangup(s) ==
    /\ Delivers(s, <<"hangup">>)
    /\ IF state = "connected" THEN state' = "authenticated" /\ _disconnect
                              ELSE UNCHANGED <<state, pc, local, pcs, live>>
    /\ UNCHANGED <<token, sock, muted, chain, asking, silenced, ws, up, peer, spoilt>>

\* The connections once the current one is closed.
WithoutPc == [k \in Pcs |-> IF k = pc THEN ClosedPc ELSE pcs[k]]

\* A transfer replaces the connection and keeps the microphone.
OnTransfer(s) ==
    /\ Delivers(s, <<"transfer">>)
    /\ IF state = "connected" THEN _connect(FALSE, WithoutPc) /\ spoilt' = spoilt \cup {"transfer"}
                              ELSE UNCHANGED <<pc, local, pcs, chain, asking, live, spoilt>>
    /\ UNCHANGED <<sift, silenced, ws, up, peer>>

OnReset(s) ==
    /\ Takes(s, <<"reset">>)
    /\ Reset([down EXCEPT ![s] = Tail(@)])

-----------------------------------------------------------------------------
\* The call has not been aborted while getUserMedia was pending.
StillWanted == state \in {"connecting", "connected"}

\* getUserMedia resolves: the stream is kept and added to the current connection, or
\* it is dropped as it is, capturing.
MediaGranted(k) ==
    /\ k \in asking
    /\ asking' = asking \ {k}
    /\ live' = live \cup {k}
    /\ IF StillWanted
       THEN /\ local' = k
            /\ pcs' = [j \in Pcs |-> IF j = pc THEN [pcs[j] EXCEPT !.needed = TRUE] ELSE pcs[j]]
            /\ spoilt' = Muted
       ELSE UNCHANGED <<local, pcs, spoilt>>
    /\ UNCHANGED <<sift, pc, chain, silenced, sockets>>

\* getUserMedia rejects: that is logged.
MediaRefused(k) ==
    /\ k \in asking
    /\ asking' = asking \ {k}
    /\ UNCHANGED <<sift, pc, local, pcs, chain, live, silenced, sockets, spoilt>>

\* onnegotiationneeded of any connection: _createAndSendOffer, on the current one.
NegotiationNeeded(k) ==
    /\ pcs[k].at = "open" /\ pcs[k].needed
    /\ pcs[k].signaling = "stable" /\ chain[k] = Idle
    /\ pcs' = [pcs EXCEPT ![k].needed = FALSE]
    /\ chain' = IF pc = null THEN chain ELSE [chain EXCEPT ![k] = [step |-> "creating", of |-> pc]]
    /\ UNCHANGED <<sift, pc, local, asking, live, silenced, sockets, spoilt>>

Running(k, step) == chain[k].step = step /\ pcs[chain[k].of].at = "open"

\* createOffer resolves: the offer is set on what is the current connection by now,
\* which refuses the offer of another.
OfferCreated(k) ==
    /\ Running(k, "creating")
    /\ chain' = [chain EXCEPT ![k] = IF pc = @.of THEN [@ EXCEPT !.step = "setting"] ELSE Idle]
    /\ UNCHANGED <<sift, pc, local, pcs, asking, live, silenced, sockets, spoilt>>

\* setLocalDescription resolves: the description of the current connection is sent.
OfferSet(k) ==
    /\ Running(k, "setting") /\ Room
    /\ chain' = [chain EXCEPT ![k] = Idle]
    /\ pcs' = [pcs EXCEPT ![chain[k].of].signaling = "have-local-offer"]
    /\ up' = IF pc = null THEN up ELSE Sent(<<"desc", pc>>)
    /\ UNCHANGED <<sift, pc, local, asking, live, silenced, ws, down, peer, spoilt>>

\* Either rejects: nobody handles it.
OfferFails(k) ==
    /\ Running(k, "creating") \/ Running(k, "setting")
    /\ chain' = [chain EXCEPT ![k] = Idle]
    /\ UNCHANGED <<sift, pc, local, pcs, asking, live, silenced, sockets, spoilt>>

\* onaddstream of any connection, _onVoipConnected: the call is connected, or if it is
\* not connecting it is torn down.
OnAddStream(k) ==
    /\ pcs[k].at = "open" /\ pcs[k].remote = "coming"
    /\ IF state = "connecting"
       THEN /\ state' = "connected"
            /\ pcs' = [pcs EXCEPT ![k].remote = "there"]
            /\ UNCHANGED <<pc, local, live>>
       ELSE /\ UNCHANGED state
            /\ _disconnect
    /\ UNCHANGED <<token, sock, muted, chain, asking, silenced, sockets, spoilt>>

-----------------------------------------------------------------------------
\* The server takes the oldest message of a socket: it answers a token, and an offer
\* in a call.
ServerTakes(s) ==
    /\ up[s] # <<>> /\ Len(down[s]) < MaxWire
    /\ up' = [up EXCEPT ![s] = Tail(@)]
    /\ LET m == Head(up[s]) IN
       \/ /\ m = <<"auth">>
          /\ \E ok \in BOOLEAN :
               /\ peer' = [peer EXCEPT ![s] = IF ok THEN "accepted" ELSE "refused"]
               /\ down' = [down EXCEPT ![s] = Append(@, <<"auth", ok>>)]
       \/ /\ m \in {<<"connect">>, <<"ringanswer", TRUE>>}
          /\ peer' = [peer EXCEPT ![s] = IF @ = "accepted" THEN "in call" ELSE @]
          /\ UNCHANGED down
       \/ /\ m = <<"hangup">>
          /\ peer' = [peer EXCEPT ![s] = IF @ = "in call" THEN "accepted" ELSE @]
          /\ UNCHANGED down
       \/ /\ m[1] = "desc"
          /\ down' = IF peer[s] = "in call" THEN [down EXCEPT ![s] = Append(@, m)] ELSE down
          /\ UNCHANGED peer
       \/ m = <<"ringanswer", FALSE>> /\ UNCHANGED <<peer, down>>
    /\ UNCHANGED <<sift, media, ws, spoilt>>

\* It rings when there is no call, hangs up or transfers one, and resets.
ServerSends(s, type) ==
    /\ ws[s] = "OPEN" /\ Len(down[s]) < MaxWire
    /\ type = "ring" => peer[s] = "accepted"
    /\ type \in {"hangup", "transfer"} => peer[s] = "in call"
    /\ down' = [down EXCEPT ![s] = Append(@, <<type>>)]
    /\ peer' = IF type = "hangup" THEN [peer EXCEPT ![s] = "accepted"] ELSE peer
    /\ UNCHANGED <<sift, media, ws, up, spoilt>>

App == hangUp \/ answer \/ decline \/ reset
       \/ (\E s \in Sockets : authenticate(s))
       \/ (\E b \in BOOLEAN : connect(b) \/ setMuted(b))

SocketEvent(s) ==
    \/ Open(s) \/ Fails(s) \/ Closes(s)
    \/ OnRing(s) \/ OnHangup(s) \/ OnTransfer(s) \/ OnReset(s)
    \/ (\E ok \in BOOLEAN : OnAuth(s, ok))
    \/ (\E k \in Pcs : OnDesc(s, k))

MediaEvent(k) ==
    \/ MediaGranted(k) \/ MediaRefused(k)
    \/ NegotiationNeeded(k) \/ OfferCreated(k) \/ OfferSet(k) \/ OfferFails(k)
    \/ OnAddStream(k)

Server(s) ==
    ServerTakes(s) \/ \E type \in {"ring", "hangup", "transfer", "reset"} : ServerSends(s, type)

Next ==
    \/ App
    \/ \E s \in Sockets : SocketEvent(s) \/ Server(s)
    \/ \E k \in Pcs : MediaEvent(k)

Spec == Init /\ [][Next]_vars

-----------------------------------------------------------------------------
Connection == [at : {"new", "open", "closed"}, needed : BOOLEAN,
               signaling : {"stable", "have-local-offer"}, remote : {"none", "coming", "there"}]
Negotiation == [step : {"idle", "creating", "setting"}, of : Pcs \cup {null}]

TypeOK ==
    /\ state \in {"uninitialized", "authenticating", "authenticated", "ringing",
                 "connecting", "connected"}
    /\ token \in BOOLEAN /\ muted \in BOOLEAN
    /\ sock \in Sockets \cup {null} /\ {pc, local} \subseteq Pcs \cup {null}
    /\ ws \in [Sockets -> {"NEW", "CONNECTING", "ABORTED", "OPEN", "CLOSING", "CLOSED"}]
    /\ peer \in [Sockets -> {"new", "accepted", "refused", "in call"}]
    /\ pcs \in [Pcs -> Connection] /\ chain \in [Pcs -> Negotiation]
    /\ asking \subseteq Pcs /\ live \subseteq Pcs /\ silenced \subseteq Pcs
    /\ spoilt \subseteq {"abort", "transfer", "late"}

\* "Auth successful, ready to connect." (7): past authentication, the server behind
\* the current socket has accepted the token. A socket that reset() closed delivers
\* no auth reply in a browser; with the sockets of gsproxy.js this fails.
AuthenticatedIsAccepted ==
    state \in {"authenticated", "ringing", "connecting", "connected"}
        => sock # null /\ (ws[sock] = "OPEN" => peer[sock] \in {"accepted", "in call"})

\* "It's a bug with them - not us" (333): nothing is left of a call. The only
\* connection that is open and the only microphone that captures are those the object
\* holds, and outside a call there are none, unless a call was reset while it was
\* connecting, or transferred.
NothingLeftOfACall ==
    spoilt \subseteq {"late"} =>
        /\ {k \in Pcs : pcs[k].at = "open"} \subseteq {pc}
        /\ live \subseteq {local}
        /\ state \notin {"connecting", "connected"} => pc = null /\ live = {} /\ asking = {}

\* Whoever is muted is not heard, and the other way round: the tracks of the local
\* stream agree with muted, unless that stream came when it was muted already, or
\* a call was reset while it was connecting.
MuteHolds ==
    spoilt \subseteq {"transfer"} /\ local # null => (muted <=> local \in silenced)

\* "This is where we'll say we're connected." (284): when the remote stream of the
\* current connection arrives in a call, the call is connected and keeps its media.
RemoteStreamConnects ==
    [][\A k \in Pcs : OnAddStream(k) /\ k = pc /\ state \in {"connecting", "connected"}
          => state' = "connected" /\ pc' = pc /\ local' = local]_vars
=============================================================================
