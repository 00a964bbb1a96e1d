--------------------------- MODULE RumorTransport ---------------------------
(****************************************************************************)
(* The Rumor messaging transport (src/opentok/rumor.js over websocket.js    *)
(* and transport.js): request and reply over one WebSocket. A call is sent, *)
(* the continuation of the send registers its transaction and starts a 30 s *)
(* timer, and the reply or the timer, whichever comes first, settles it.    *)
(*                                                                          *)
(* The program is single threaded. The code of an event runs to its end,    *)
(* then the continuations of settled promises (microtasks) run, and only    *)
(* then may the next event be taken: a message, a timer, an open or a close *)
(* of the socket. Calls and close() come from the application's own code,   *)
(* which runs inside some event, so they are not held back by microtasks.   *)
(*                                                                          *)
(* The WebSocket and the Rumor server are outside the repository: the wires *)
(* are FIFO, and the server answers a request at most once, late or never.  *)
(****************************************************************************)
EXTENDS Naturals, Sequences

CONSTANTS
    Calls,     \* the calls the application makes, each with its own id (uuid)
    MaxWire    \* bound: messages on a wire before the sender holds back

ASSUME WireAssumption == MaxWire \in Nat

VARIABLES
    alive,         \* the process: an event with no handler ends it
    readyState,    \* of the WebSocket
    connect,       \* the promise of connect()
    keepalive,     \* the interval timer that sends PINGs runs
    call,          \* the promise of each call
    microtasks,    \* continuations waiting: <<kind, call>>, oldest first
    transactions,  \* the calls registered
    timers,        \* the calls whose 30 s timer runs
    up, down,      \* the wires to and from the server
    greeted,       \* the server has taken a CONNECT
    held,          \* requests the server has taken and not answered
    requested,     \* calls that were ever put on the wire
    answered       \* calls the server has ever answered

client == <<alive, readyState, connect, keepalive, call, microtasks,
            transactions, timers, requested>>
server == <<greeted, held, answered>>
vars == <<client, server, up, down>>

Connect    == [kind |-> "connect"]
Ping       == [kind |-> "ping"]
Pong       == [kind |-> "pong"]
Event      == [kind |-> "event"]
Request(c) == [kind |-> "request", call |-> c]
Reply(c)   == [kind |-> "reply", call |-> c]

Init ==
    /\ alive = TRUE
    /\ readyState = "CONNECTING"
    /\ connect = "pending"
    /\ keepalive = FALSE
    /\ call = [c \in Calls |-> "idle"]
    /\ microtasks = <<>>
    /\ transactions = {} /\ timers = {}
    /\ up = <<>> /\ down = <<>>
    /\ greeted = FALSE /\ held = {}
    /\ requested = {} /\ answered = {}

-----------------------------------------------------------------------------
\* Mutant: the registration is left to a later event (setImmediate).
EventLoopNotHeld == alive

\* The event loop takes the next event only when no microtask is left.
EventLoopFree == alive /\ microtasks = <<>>

\* The socket opens: CONNECT is sent, 'connected' is emitted, which starts the
\* keepalive and resolves connect().
Open ==
    /\ EventLoopFree
    /\ readyState = "CONNECTING"
    /\ readyState' = "OPEN"
    /\ up' = Append(up, Connect)
    /\ keepalive' = TRUE
    /\ connect' = "resolved"
    /\ UNCHANGED <<alive, call, microtasks, transactions, timers, requested, down, server>>

\* Mutant: a call made while connecting is buffered by the socket.
MaySendEarly(state) == state \in {"CONNECTING", "OPEN"}

\* When the base transport writes to the socket: otherwise the send is rejected.
MaySend(state) == state = "OPEN"

\* transport.send: the base send writes to the socket, or rejects; either way
\* what follows (register, or reject) is a continuation.
Send(c) ==
    /\ alive
    /\ call[c] = "idle"
    /\ call' = [call EXCEPT ![c] = "pending"]
    /\ IF MaySend(readyState)
       THEN /\ up' = Append(up, Request(c))
            /\ requested' = requested \cup {c}
            /\ microtasks' = Append(microtasks, <<"register", c>>)
       ELSE /\ microtasks' = Append(microtasks, <<"reject", c>>)
            /\ UNCHANGED <<up, requested>>
    /\ UNCHANGED <<alive, readyState, connect, keepalive, transactions, timers, down, server>>

\* Mutant: no timer is started.
RegisterUntimed ==
    /\ alive
    /\ microtasks # <<>> /\ Head(microtasks)[1] = "register"
    /\ transactions' = transactions \cup {Head(microtasks)[2]}
    /\ microtasks' = Tail(microtasks)
    /\ UNCHANGED <<alive, readyState, connect, keepalive, call, timers, requested, up, down,
                   server>>

\* The continuation of a send that was written.
Register ==
    /\ alive
    /\ microtasks # <<>> /\ Head(microtasks)[1] = "register"
    /\ transactions' = transactions \cup {Head(microtasks)[2]}
    /\ timers' = timers \cup {Head(microtasks)[2]}
    /\ microtasks' = Tail(microtasks)
    /\ UNCHANGED <<alive, readyState, connect, keepalive, call, requested, up, down, server>>

\* The continuation of a send that was rejected.
Reject ==
    /\ alive
    /\ microtasks # <<>> /\ Head(microtasks)[1] = "reject"
    /\ call' = [call EXCEPT ![Head(microtasks)[2]] = "disconnected"]
    /\ microtasks' = Tail(microtasks)
    /\ UNCHANGED <<alive, readyState, connect, keepalive, transactions, timers, requested,
                   up, down, server>>

\* Mutant: the transaction is left in place when it is settled.
SettleInPlace(S, outcome) ==
    /\ call' = [c \in Calls |-> IF c \in S THEN outcome ELSE call[c]]
    /\ UNCHANGED transactions

\* Mutant: the entry is set to null instead of being deleted.
SettleToNull(S, outcome) ==
    /\ call' = [c \in Calls |-> IF c \in S THEN outcome ELSE call[c]]
    /\ transactions' = (transactions \ S) \cup (IF S = {} THEN {} ELSE {"null"})

\* Run the callbacks of the transactions of S and delete them.
Settle(S, outcome) ==
    /\ call' = [c \in Calls |-> IF c \in S THEN outcome ELSE call[c]]
    /\ transactions' = transactions \ S

\* Mutant: a reply settles some open transaction, whatever its id.
MatchingAny(m) == IF m.kind = "reply" /\ transactions # {}
                  THEN {CHOOSE c \in transactions : TRUE} ELSE {}

\* The transactions with the id of message m: one, or none when m is not a reply
\* or comes too late.
Matching(m) == IF m.kind = "reply" THEN {m.call} \cap transactions ELSE {}

\* The 'message' handler. A PONG is ignored; an event or a late reply settles
\* nothing and is only announced to the layer above. The timer of a settled call
\* keeps running.
Message ==
    /\ EventLoopFree
    /\ readyState \in {"OPEN", "CLOSING"}
    /\ down # <<>>
    /\ down' = Tail(down)
    /\ Settle(Matching(Head(down)), "resolved")
    /\ UNCHANGED <<alive, readyState, connect, keepalive, microtasks, timers, requested,
                   up, server>>

\* The 30 s timer of a call: it rejects the call if the transaction is still there.
Timeout(c) ==
    /\ EventLoopFree
    /\ c \in timers
    /\ timers' = timers \ {c}
    /\ Settle({c} \cap transactions, "timeout")
    /\ UNCHANGED <<alive, readyState, connect, keepalive, microtasks, requested,
                   up, down, server>>

\* The keepalive interval fires. On a socket that is not open the send rejects and
\* nobody listens.
KeepaliveTick ==
    /\ EventLoopFree
    /\ keepalive /\ readyState = "OPEN"
    /\ Len(up) < MaxWire
    /\ up' = Append(up, Ping)
    /\ UNCHANGED <<client, down, server>>

\* transport.close: stop the keepalive and close the socket. A WebSocket that is
\* still connecting reports its abortion as an 'error', which has no handler.
Close ==
    /\ alive
    /\ readyState \in {"CONNECTING", "OPEN"}
    /\ keepalive' = FALSE
    /\ IF readyState = "CONNECTING"
       THEN alive' = FALSE /\ UNCHANGED readyState
       ELSE readyState' = "CLOSING" /\ UNCHANGED alive
    /\ UNCHANGED <<connect, call, microtasks, transactions, timers, requested, up, down, server>>

\* The socket closes, by either side or because the connection broke: what is on
\* the wires is lost, and 'close' is emitted. The keepalive interval is left alone.
Closed ==
    /\ EventLoopFree
    /\ readyState \in {"OPEN", "CLOSING"}
    /\ readyState' = "CLOSED"
    /\ up' = <<>> /\ down' = <<>>
    /\ UNCHANGED <<alive, connect, keepalive, call, microtasks, transactions, timers,
                   requested, server>>

\* A socket error (refused, reset, a bad frame): websocket.js has no handler.
SocketError ==
    /\ EventLoopFree
    /\ readyState # "CLOSED"
    /\ alive' = FALSE
    /\ UNCHANGED <<readyState, connect, keepalive, call, microtasks, transactions, timers,
                   requested, up, down, server>>

-----------------------------------------------------------------------------
\* The server takes the oldest message. It answers a PING at once.
ServerTakes ==
    /\ up # <<>> /\ Len(down) < MaxWire
    /\ up' = Tail(up)
    /\ LET m == Head(up) IN
       /\ greeted' = (greeted \/ m = Connect)
       /\ held' = IF m.kind = "request" THEN held \cup {m.call} ELSE held
       /\ down' = IF m = Ping THEN Append(down, Pong) ELSE down
    /\ UNCHANGED <<client, answered>>

\* The server answers a request it holds, in any order.
ServerAnswers(c) ==
    /\ c \in held /\ Len(down) < MaxWire
    /\ readyState \in {"OPEN", "CLOSING"}
    /\ held' = held \ {c}
    /\ answered' = answered \cup {c}
    /\ down' = Append(down, Reply(c))
    /\ UNCHANGED <<client, greeted, up>>

\* The server sends something nobody asked for.
ServerEvent ==
    /\ greeted /\ Len(down) < MaxWire
    /\ readyState \in {"OPEN", "CLOSING"}
    /\ down' = Append(down, Event)
    /\ UNCHANGED <<client, server, up>>

Next ==
    \/ Open \/ Register \/ Reject \/ Message \/ KeepaliveTick \/ Close \/ Closed
    \/ SocketError \/ ServerTakes \/ ServerEvent
    \/ \E c \in Calls : Send(c) \/ Timeout(c) \/ ServerAnswers(c)

\* Microtasks are run, and timers fire: the event loop does both unasked. Nothing
\* is assumed of the network, the server or the application.
Fairness ==
    /\ WF_vars(Register) /\ WF_vars(Reject)
    /\ \A c \in Calls : WF_vars(Timeout(c))

Spec == Init /\ [][Next]_vars /\ Fairness

-----------------------------------------------------------------------------
Queued == {microtasks[i][2] : i \in 1..Len(microtasks)}

UpMessage == {Connect, Ping} \cup {Request(c) : c \in Calls}
DownMessage == {Pong, Event} \cup {Reply(c) : c \in Calls}

TypeOK ==
    /\ alive \in BOOLEAN /\ keepalive \in BOOLEAN /\ greeted \in BOOLEAN
    /\ readyState \in {"CONNECTING", "OPEN", "CLOSING", "CLOSED"}
    /\ connect \in {"pending", "resolved"}
    /\ call \in [Calls -> {"idle", "pending", "resolved", "timeout", "disconnected"}]
    /\ microtasks \in Seq({"register", "reject"} \X Calls)
    /\ transactions \subseteq Calls /\ timers \subseteq Calls
    /\ held \subseteq Calls /\ requested \subseteq Calls /\ answered \subseteq Calls
    /\ up \in Seq(UpMessage) /\ down \in Seq(DownMessage)

\* Nobody waits for nothing: a call that is pending has its continuation queued,
\* or a transaction and a running timer; a transaction never outlives its call.
PendingIsWatched ==
    \A c \in Calls :
        /\ call[c] = "pending" <=> c \in Queued \cup transactions
        /\ c \in transactions => c \in timers /\ c \notin Queued

\* "This will be the first message that the client sends to the server"
\* (MessageType.CONNECT): until the server has taken it, it heads the wire.
ConnectGoesFirst == up # <<>> /\ ~greeted => Head(up) = Connect

\* A reply that arrives while its call is pending settles it: the registration,
\* which runs after the send and not within it, is never late for its reply.
ReplyIsNeverMissed ==
    [][\A c \in Calls :
          Message /\ Head(down) = Reply(c) /\ call[c] = "pending" => call'[c] = "resolved"]_vars

\* Every call settles, whatever becomes of the socket and of the server, unless the
\* process dies.
EveryCallSettles ==
    \A c \in Calls : call[c] = "pending" ~> (call[c] # "pending" \/ ~alive)

\* The calls keep the promise of RpcCalls: one outcome each, resolved only by an
\* answer, timed out only if sent, disconnected only if the server never saw it.
Rpc == INSTANCE RpcCalls
ImplementsRpcCalls == Rpc!Spec
=============================================================================
