-------------------------------- MODULE Sift --------------------------------
(****************************************************************************)
(* The Gridspace call client of gsproxy.js: one object, Sift, drives a call *)
(* state machine over a WebSocket that authenticate() opens and reset()     *)
(* drops. Every handler works on the object, whichever socket the event     *)
(* came from: a socket that was dropped still delivers what was on its wire *)
(* until it has closed.                                                     *)
(*                                                                          *)
(* The application (gsbridge.js) calls the methods; an exception thrown to  *)
(* it leaves the state as it was when thrown. An exception in the handler   *)
(* of a socket event ends the process. Sockets (ws 3.3.1) and the server    *)
(* are outside the repository: a send on a socket that is not open throws,  *)
(* and the server may hang up, ring, reset, ping and close at any time.     *)
(****************************************************************************)
EXTENDS Naturals, Sequences

CONSTANTS
    MaxSockets,   \* bound: calls of authenticate
    MaxWire,      \* bound: messages on a wire before the sender holds back
    Ops,          \* what the application calls besides authenticate
    Sends,        \* what the server sends besides its answer to auth
    Peers         \* the PeerConnections whose descriptions are forwarded

ASSUME SiftAssumption ==
    /\ MaxSockets \in Nat /\ MaxWire \in Nat
    /\ Ops \subseteq {"connect", "hangUp", "reset", "answer", "decline", "forward"}
    /\ Sends \subseteq {"ring", "hangup", "reset", "answer", "offer", "candidate", "ping"}

Sockets == 1..MaxSockets
null == 0

\* A message is its type; a description also says whose it is or answers.
Description == {"offer", "answer"}
Messages(type) == IF type \in Description THEN {<<type, p>> : p \in Peers} ELSE {<<type>>}

VARIABLES
    alive,      \* the process
    state,      \* _state
    token,      \* _token is set
    sock,       \* _sock: a socket or null
    proxied,    \* onRemoteAnswer and onRemoteCandidate are set
    ws,         \* readyState of each socket; "NEW" before it is created
    up, down,   \* the wires of each socket, to and from the server
    peer        \* what the server makes of each socket

sift == <<alive, state, token, sock, proxied>>
vars == <<sift, ws, up, down, peer>>

Init ==
    /\ alive = TRUE
    /\ state = "uninitialized"
    /\ token = FALSE
    /\ sock = null
    /\ proxied = FALSE
    /\ ws = [s \in Sockets |-> "NEW"]
    /\ up = [s \in Sockets |-> <<>>]
    /\ down = [s \in Sockets |-> <<>>]
    /\ peer = [s \in Sockets |-> "new"]

-----------------------------------------------------------------------------
\* _send does not throw: there is a socket and it is open.
CanSend == sock # null /\ ws[sock] = "OPEN"

\* The bound on the wire of the current socket, for what the application sends.
Room == sock # null => Len(up[sock]) < MaxWire

\* _send
Put(m) == up' = [up EXCEPT ![sock] = Append(@, m)]

\* What ws.close() makes of a socket: one that is still connecting is abandoned,
\* an open one waits for the server's close frame.
AfterClose(rs) == CASE rs = "CONNECTING" -> "CLOSED"
                    [] rs = "OPEN"       -> "CLOSING"
                    [] OTHER             -> rs

\* authenticate
Authenticate(s) ==
    /\ alive /\ state = "uninitialized"
    /\ ws[s] = "NEW" /\ \A r \in 1..(s - 1) : ws[r] # "NEW"
    /\ state' = "authenticating"
    /\ token' = TRUE
    /\ sock' = s
    /\ ws' = [ws EXCEPT ![s] = "CONNECTING"]
    /\ UNCHANGED <<alive, proxied, up, down, peer>>

\* Mutant: the callbacks are left for later.
CallbacksUnset == proxied

\* What the application does with the callbacks for answers and candidates once
\* connect has returned, before anything else is run: it sets them.
Callbacks == TRUE

\* connect: the state is set before the message is sent and again after it, so a
\* throw in between leaves "connecting".
connect ==
    /\ "connect" \in Ops
    /\ alive /\ state = "authenticated" /\ token /\ Room
    /\ IF CanSend
       THEN Put(<<"connect">>) /\ state' = "connected" /\ proxied' = Callbacks
       ELSE state' = "connecting" /\ UNCHANGED <<up, proxied>>
    /\ UNCHANGED <<alive, token, sock, ws, down, peer>>

\* hangUp: the state is set before the message is sent.
hangUp ==
    /\ "hangUp" \in Ops
    /\ alive /\ state = "connected" /\ Room
    /\ state' = "authenticated"
    /\ IF CanSend THEN Put(<<"hangup">>) ELSE UNCHANGED up
    /\ UNCHANGED <<alive, token, sock, proxied, ws, down, peer>>

\* The rest of reset, once hangUp has returned.
Drop ==
    /\ sock' = null
    /\ token' = FALSE
    /\ state' = "uninitialized"
    /\ ws' = [s \in Sockets |-> IF s = sock THEN AfterClose(ws[s]) ELSE ws[s]]

\* Mutant: the socket is dropped first, and then hangUp finds none to send on.
ResetDropsFirst(thrown) ==
    /\ Drop
    /\ UNCHANGED up
    /\ thrown <=> state = "connected"

\* The body of reset: hang up an active call, then drop the socket. A hangUp that
\* throws leaves the rest undone; thrown is whether it did.
Reset(thrown) ==
    IF state = "connected"
    THEN IF CanSend
         THEN Put(<<"hangup">>) /\ Drop /\ ~thrown
         ELSE state' = "authenticated" /\ UNCHANGED <<token, sock, ws, up>> /\ thrown
    ELSE Drop /\ UNCHANGED up /\ ~thrown

\* reset, called by the application
reset ==
    /\ "reset" \in Ops
    /\ alive /\ Room
    /\ \E thrown \in BOOLEAN : Reset(thrown)
    /\ UNCHANGED <<alive, proxied, down, peer>>

\* answer: _connect does not exist, so the call throws after the state is set.
answer ==
    /\ "answer" \in Ops
    /\ alive /\ state = "ringing" /\ CanSend /\ Room
    /\ Put(<<"ringanswer", TRUE>>)
    /\ state' = "connecting"
    /\ UNCHANGED <<alive, token, sock, proxied, ws, down, peer>>

\* decline
decline ==
    /\ "decline" \in Ops
    /\ alive /\ state = "ringing" /\ CanSend /\ Room
    /\ Put(<<"ringanswer", FALSE>>)
    /\ state' = "authenticated"
    /\ UNCHANGED <<alive, token, sock, proxied, ws, down, peer>>

\* forwardOffer (forwardLocalCandidate is the same, with a candidate)
forwardOffer(p) ==
    /\ "forward" \in Ops
    /\ alive /\ CanSend /\ Room
    /\ Put(<<"offer", p>>)
    /\ UNCHANGED <<sift, ws, down, peer>>

-----------------------------------------------------------------------------
\* A socket opens: _onSocketConnected sends the token, on the current socket.
Open(s) ==
    /\ alive /\ ws[s] = "CONNECTING"
    /\ ws' = [ws EXCEPT ![s] = "OPEN"]
    /\ IF state = "authenticating" THEN up' = [up EXCEPT ![sock] = Append(@, <<"auth">>)]
       ELSE UNCHANGED up
    /\ UNCHANGED <<sift, down, peer>>

\* A socket errs or closes, by either side: what is on its wires is lost. The
\* handlers tell the application at most; no state changes.
Closed(s) ==
    /\ ws[s] \in {"CONNECTING", "OPEN", "CLOSING"}
    /\ ws' = [ws EXCEPT ![s] = "CLOSED"]
    /\ up' = [up EXCEPT ![s] = <<>>]
    /\ down' = [down EXCEPT ![s] = <<>>]
    /\ UNCHANGED <<sift, peer>>

\* The oldest message of a socket is m, and it is delivered.
Delivers(s, m) ==
    /\ alive /\ ws[s] \in {"OPEN", "CLOSING"}
    /\ down[s] # <<>> /\ Head(down[s]) = m
    /\ down' = [down EXCEPT ![s] = Tail(@)]
    /\ UNCHANGED peer

\* Mutant: a refused token is kept.
OnRefusedKeepsToken == state' = "uninitialized" /\ UNCHANGED token

\* Mutant: the error is stored as the state.
OnRefusedErrorState == state' = "authentication-failed" /\ token' = FALSE

\* The server refused the token.
OnRefused == state' = "uninitialized" /\ token' = FALSE

\* Mutant: the body of the reply is not looked at.
AcceptsAny(m) == TRUE

\* The reply to auth that lets the machine on.
Accepts(m) == m = <<"auth", "OK">>

OnAuth(s, m) ==
    /\ m \in {<<"auth", "OK">>, <<"auth", "failed">>} /\ Delivers(s, m)
    /\ IF state # "authenticating" THEN UNCHANGED <<state, token>>
       ELSE IF Accepts(m) THEN state' = "authenticated" /\ UNCHANGED token
       ELSE OnRefused
    /\ UNCHANGED <<alive, sock, proxied, ws, up>>

OnRing(s) ==
    /\ Delivers(s, <<"ring">>)
    /\ state' = IF state = "authenticated" THEN "ringing" ELSE state
    /\ UNCHANGED <<alive, token, sock, proxied, ws, up>>

\* Mutant: the server's hangup is not heeded.
AfterHangupIgnored == state

\* The state once the remote party has hung up.
AfterHangup == IF state = "connected" THEN "authenticated" ELSE state

OnHangup(s) ==
    /\ Delivers(s, <<"hangup">>)
    /\ state' = AfterHangup
    /\ UNCHANGED <<alive, token, sock, proxied, ws, up>>

\* A description or a candidate for the other PeerConnection: it is handed to the
\* application's callback. An SDP that is not an answer calls a function, log, that
\* does not exist.
OnProxied(s, m) ==
    /\ m[1] \in Description \cup {"candidate"} /\ Delivers(s, m)
    /\ alive' = (m[1] # "offer" /\ proxied)
    /\ UNCHANGED <<state, token, sock, proxied, ws, up>>

\* The server asks for a reset.
OnReset(s) ==
    /\ Delivers(s, <<"reset">>)
    /\ \E thrown \in BOOLEAN : Reset(thrown) /\ alive' = ~thrown
    /\ UNCHANGED proxied

\* The 'ping' handler of any socket answers on the current one.
Pongs == CanSend

OnPing(s) ==
    /\ Delivers(s, <<"ping">>)
    /\ alive' = Pongs
    /\ UNCHANGED <<state, token, sock, proxied, ws, up>>

-----------------------------------------------------------------------------
\* The server takes the oldest message of a socket.
ServerTakes(s) ==
    /\ up[s] # <<>> /\ ws[s] # "CLOSED"
    /\ Len(down[s]) < MaxWire
    /\ up' = [up EXCEPT ![s] = Tail(@)]
    /\ LET m == Head(up[s]) IN
       \/ /\ m = <<"auth">>
          /\ \E ok \in BOOLEAN :
               /\ peer' = [peer EXCEPT ![s] = IF ok THEN "accepted" ELSE "refused"]
               /\ down' = [down EXCEPT ![s] = Append(@, <<"auth", IF ok THEN "OK" ELSE "failed">>)]
       \/ /\ m \in {<<"connect">>, <<"ringanswer", TRUE>>}
          /\ peer' = [peer EXCEPT ![s] = IF @ = "accepted" THEN "in call" ELSE @]
          /\ UNCHANGED down
       \/ /\ m = <<"hangup">>
          /\ peer' = [peer EXCEPT ![s] = IF @ = "in call" THEN "accepted" ELSE @]
          /\ UNCHANGED down
       \/ (m[1] = "offer" \/ m = <<"ringanswer", FALSE>>) /\ UNCHANGED <<peer, down>>
    /\ UNCHANGED <<sift, ws>>

\* The server sends m of its own accord: it rings when there is no call, and hangs
\* up and negotiates media when there is one.
ServerSends(s, m) ==
    /\ ws[s] \in {"OPEN", "CLOSING"} /\ Len(down[s]) < MaxWire
    /\ m = <<"ring">> => peer[s] = "accepted"
    /\ m[1] \in Description \cup {"hangup", "candidate"} => peer[s] = "in call"
    /\ down' = [down EXCEPT ![s] = Append(@, m)]
    /\ peer' = IF m = <<"hangup">> THEN [peer EXCEPT ![s] = "accepted"] ELSE peer
    /\ UNCHANGED <<sift, ws, up>>

App == connect \/ hangUp \/ reset \/ answer \/ decline
       \/ (\E s \in Sockets : Authenticate(s)) \/ (\E p \in Peers : forwardOffer(p))

SocketEvent(s) ==
    \/ Open(s) \/ Closed(s)
    \/ \E m \in {<<"auth", "OK">>, <<"auth", "failed">>} : OnAuth(s, m)
    \/ OnRing(s) \/ OnHangup(s) \/ OnReset(s) \/ OnPing(s)
    \/ \E type \in Description \cup {"candidate"} : \E m \in Messages(type) : OnProxied(s, m)

Server(s) ==
    \/ ServerTakes(s)
    \/ \E type \in Sends : \E m \in Messages(type) : ServerSends(s, m)

\* When the process is gone its sockets are too, and nothing is left to follow.
Next == alive /\ (App \/ \E s \in Sockets : SocketEvent(s) \/ Server(s))

Spec == Init /\ [][Next]_vars

-----------------------------------------------------------------------------
States == {"uninitialized", "authenticating", "authenticated", "ringing", "connecting",
           "connected"}

TypeOK ==
    /\ alive \in BOOLEAN /\ token \in BOOLEAN /\ proxied \in BOOLEAN
    /\ state \in States
    /\ sock \in Sockets \cup {null}
    /\ ws \in [Sockets -> {"NEW", "CONNECTING", "OPEN", "CLOSING", "CLOSED"}]
    /\ peer \in [Sockets -> {"new", "accepted", "refused", "in call"}]

\* The token is there exactly while the machine has left its initial state, also
\* when a method threw half way: the test of _token in connect is redundant.
TokenIffInitialized == token <=> state # "uninitialized"

\* Nothing the server sends on the current socket kills the process, unless it is
\* an SDP offer (log, 238), or media for a call whose callbacks the application has
\* not set: otherwise it takes a message of a socket that was dropped or replaced.
OnlyStaleSocketsKill ==
    [][alive /\ ~alive' =>
         \E s \in Sockets :
            /\ down'[s] # down[s]
            /\ \/ s # sock
               \/ Head(down[s])[1] = "offer"
               \/ ~proxied /\ Head(down[s])[1] \in {"answer", "candidate"}]_vars

\* "Auth successful, ready to connect." (AUTHENTICATED): past authentication, the
\* server behind the current socket has accepted the token.
AuthenticatedIsAccepted ==
    state \in {"authenticated", "ringing", "connecting", "connected"}
        => sock # null /\ (ws[sock] = "OPEN" => peer[sock] \in {"accepted", "in call"})

\* Both sides agree on whether there is a call, once the wires are empty.
Agreement ==
    alive /\ sock # null /\ ws[sock] = "OPEN" /\ up[sock] = <<>> /\ down[sock] = <<>>
        => (state = "connected" <=> peer[sock] = "in call")
=============================================================================
