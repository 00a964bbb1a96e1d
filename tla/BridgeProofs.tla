----------------------------- MODULE BridgeProofs -----------------------------
(*********************************************************************************)
(* The call client of gsproxy.js, for any number of sockets, any wires, and      *)
(* whatever the application calls and the server sends; and the bridge of        *)
(* gsbridge.js that drives it, for any streams, any subscribers and any wires.   *)
(*                                                                               *)
(* The client. A handler throws when there is no open socket to send on. That    *)
(* the messages of the current socket cannot make it throw rests on one fact     *)
(* that no single line states: reset() forgets a socket in the same step in      *)
(* which it closes it, so the current socket is never half closed (NotClosing),  *)
(* and one that delivers and is not half closed is open.                         *)
(*                                                                               *)
(* The bridge authenticates once and connects, and never hangs up or resets; the *)
(* server answers once. So everything that may be under way between the two can  *)
(* be told: the authentication (OneAuth), and at most one of a connect on its    *)
(* way up, a call at the server, and a hangup on its way down, of which there is *)
(* one exactly while the machine believes to be connected (OneCall). The         *)
(* callbacks are set in the step that sends the connect, so they are there for   *)
(* whatever comes of it (Proxied). That is also why its calls are those of       *)
(* CallOfTwo: each step moves the one thing there is, or is not seen.            *)
(*********************************************************************************)
EXTENDS GsBridge, SequenceTheorems, FiniteSetTheorems, TLAPS

-----------------------------------------------------------------------------
\* The call client by itself.
DownMessage == {<<"auth", "OK">>, <<"auth", "failed">>} \cup UNION {Messages(t) : t \in Sends}

NotClosing == sock # null => ws[sock] # "CLOSING"

SiftIInv ==
    /\ TypeOK
    /\ down \in [Sockets -> Seq(DownMessage)]
    /\ NotClosing
    /\ TokenIffInitialized

\* No socket is null.
LEMMA SocketsExist == \A s \in Sockets : s \in Nat /\ s # null
  BY SiftAssumption DEF Sockets, null

\* A message that is delivered leaves a shorter wire.
LEMMA TailsDiffer ==
    ASSUME NEW S, NEW q \in Seq(S), q # <<>>
    PROVE  Tail(q) \in Seq(S) /\ Tail(q) # q
<1>1. Len(q) \in Nat /\ Len(Tail(q)) = Len(q) - 1 /\ Tail(q) \in Seq(S)
  OBVIOUS
<1>2. ASSUME Tail(q) = q PROVE FALSE
  <2>1. Len(q) = Len(q) - 1
    BY <1>1, <1>2
  <2>2. QED
    BY <1>1, <2>1
<1>3. QED
  BY <1>1, <1>2

\* Appending one message and taking one keep a wire what it is.
LEMMA WiresKept ==
    ASSUME NEW S, NEW f \in [Sockets -> Seq(S)], NEW s \in Sockets
    PROVE  /\ \A m \in S : [f EXCEPT ![s] = Append(@, m)] \in [Sockets -> Seq(S)]
           /\ [f EXCEPT ![s] = <<>>] \in [Sockets -> Seq(S)]
           /\ f[s] # <<>> => [f EXCEPT ![s] = Tail(@)] \in [Sockets -> Seq(S)]
<1>1. f[s] \in Seq(S)
  OBVIOUS
<1>2. (\A m \in S : Append(f[s], m) \in Seq(S)) /\ (f[s] # <<>> => Tail(f[s]) \in Seq(S))
  BY <1>1
<1>3. <<>> \in Seq(S)
  OBVIOUS
<1>4. QED
  BY <1>2, <1>3

-----------------------------------------------------------------------------
\* reset and a server that asks for one, whether hangUp throws or not.
LEMMA ResetKeeps ==
    ASSUME SiftIInv, NEW thrown \in BOOLEAN, Reset(thrown)
    PROVE  /\ state' \in States /\ token' \in BOOLEAN /\ sock' \in Sockets \cup {null}
           /\ ws' \in [Sockets -> {"NEW", "CONNECTING", "OPEN", "CLOSING", "CLOSED"}]
           /\ NotClosing' /\ TokenIffInitialized'
<1>1. CASE Drop
  BY <1>1 DEF Drop, SiftIInv, TypeOK, States, AfterClose, NotClosing, TokenIffInitialized
<1>2. CASE state = "connected" /\ state' = "authenticated" /\ UNCHANGED <<token, sock, ws>>
  BY <1>2 DEF SiftIInv, TypeOK, States, NotClosing, TokenIffInitialized
<1>3. QED
  BY <1>1, <1>2 DEF Reset

LEMMA DeliveryKeeps ==
    ASSUME SiftIInv, NEW s \in Sockets, NEW m, Delivers(s, m)
    PROVE  /\ down' \in [Sockets -> Seq(DownMessage)] /\ peer' = peer
           /\ down'[s] # down[s] /\ Head(down[s]) = m
           /\ ws[s] \in {"OPEN", "CLOSING"}
<1>1. /\ down \in [Sockets -> Seq(DownMessage)] /\ down[s] \in Seq(DownMessage) /\ down[s] # <<>>
      /\ down' = [down EXCEPT ![s] = Tail(@)]
  BY DEF SiftIInv, Delivers
<1>2. down' \in [Sockets -> Seq(DownMessage)] /\ down'[s] = Tail(down[s])
  BY <1>1, WiresKept
<1>3. QED
  BY <1>1, <1>2, TailsDiffer DEF Delivers

LEMMA InvStays ==
    ASSUME SiftIInv, [Next]_vars
    PROVE  SiftIInv'
<1>0. TypeOK /\ NotClosing /\ TokenIffInitialized /\ down \in [Sockets -> Seq(DownMessage)]
  BY DEF SiftIInv
<1>1. CASE UNCHANGED vars
  BY <1>1 DEF vars, sift, SiftIInv, TypeOK, NotClosing, TokenIffInitialized
<1>2. ASSUME NEW s \in Sockets, Authenticate(s) PROVE SiftIInv'
  <2>1. /\ state' = "authenticating" /\ token' = TRUE /\ sock' = s
        /\ ws' = [ws EXCEPT ![s] = "CONNECTING"] /\ UNCHANGED <<alive, proxied, down, peer>>
    BY <1>2 DEF Authenticate
  <2>2. ws'[s] = "CONNECTING"
    BY <1>0, <2>1 DEF TypeOK
  <2>3. QED
    BY <1>0, <2>1, <2>2 DEF SiftIInv, TypeOK, States, NotClosing, TokenIffInitialized
<1>3. CASE connect \/ hangUp \/ answer \/ decline \/ \E p \in Peers : forwardOffer(p)
  <2>1. UNCHANGED <<alive, token, sock, ws, down, peer>>
    BY <1>3 DEF connect, hangUp, answer, decline, forwardOffer, sift
  <2>2. state' \in States /\ proxied' \in BOOLEAN
    BY <1>0, <1>3
       DEF connect, hangUp, answer, decline, forwardOffer, sift, TypeOK, States, Callbacks
  <2>3. (state = "uninitialized" <=> state' = "uninitialized")
    BY <1>3 DEF connect, hangUp, answer, decline, forwardOffer, sift
  <2>4. QED
    BY <1>0, <2>1, <2>2, <2>3 DEF SiftIInv, TypeOK, NotClosing, TokenIffInitialized
<1>4. CASE reset
  <2>1. PICK thrown \in BOOLEAN : Reset(thrown)
    BY <1>4 DEF reset
  <2>2. UNCHANGED <<alive, proxied, down, peer>>
    BY <1>4 DEF reset
  <2>3. QED
    BY <1>0, <2>1, <2>2, ResetKeeps DEF SiftIInv, TypeOK
<1>5. ASSUME NEW s \in Sockets, Open(s) PROVE SiftIInv'
  <2>1. ws' = [ws EXCEPT ![s] = "OPEN"] /\ UNCHANGED <<sift, down, peer>>
    BY <1>5 DEF Open
  <2>2. QED
    BY <1>0, <2>1 DEF SiftIInv, TypeOK, NotClosing, TokenIffInitialized, sift
<1>6. ASSUME NEW s \in Sockets, Closed(s) PROVE SiftIInv'
  <2>1. /\ ws' = [ws EXCEPT ![s] = "CLOSED"] /\ down' = [down EXCEPT ![s] = <<>>]
        /\ UNCHANGED <<sift, peer>>
    BY <1>6 DEF Closed
  <2>2. down' \in [Sockets -> Seq(DownMessage)]
    BY <1>0, <2>1, WiresKept
  <2>3. QED
    BY <1>0, <2>1, <2>2 DEF SiftIInv, TypeOK, NotClosing, TokenIffInitialized, sift
<1>7. ASSUME NEW s \in Sockets, NEW m, OnAuth(s, m) PROVE SiftIInv'
  <2>1. UNCHANGED <<alive, sock, proxied, ws>>
    BY <1>7 DEF OnAuth
  <2>2. down' \in [Sockets -> Seq(DownMessage)] /\ peer' = peer
    BY <1>7, DeliveryKeeps DEF OnAuth
  <2>3. state' \in States /\ token' \in BOOLEAN /\ TokenIffInitialized'
    BY <1>0, <1>7 DEF OnAuth, OnRefused, TypeOK, States, TokenIffInitialized
  <2>4. QED
    BY <1>0, <2>1, <2>2, <2>3 DEF SiftIInv, TypeOK, NotClosing
<1>8. ASSUME NEW s \in Sockets, OnRing(s) \/ OnHangup(s) PROVE SiftIInv'
  <2>1. UNCHANGED <<alive, token, sock, proxied, ws>>
    BY <1>8 DEF OnRing, OnHangup
  <2>2. down' \in [Sockets -> Seq(DownMessage)] /\ peer' = peer
    BY <1>8, DeliveryKeeps DEF OnRing, OnHangup
  <2>3. state' \in States /\ (state = "uninitialized" <=> state' = "uninitialized")
    BY <1>0, <1>8 DEF OnRing, OnHangup, AfterHangup, TypeOK, States
  <2>4. QED
    BY <1>0, <2>1, <2>2, <2>3 DEF SiftIInv, TypeOK, NotClosing, TokenIffInitialized
<1>9. ASSUME NEW s \in Sockets, NEW m, OnProxied(s, m) PROVE SiftIInv'
  <2>1. UNCHANGED <<state, token, sock, proxied, ws>> /\ alive' \in BOOLEAN
    BY <1>9 DEF OnProxied
  <2>2. down' \in [Sockets -> Seq(DownMessage)] /\ peer' = peer
    BY <1>9, DeliveryKeeps DEF OnProxied
  <2>3. QED
    BY <1>0, <2>1, <2>2 DEF SiftIInv, TypeOK, NotClosing, TokenIffInitialized
<1>10. ASSUME NEW s \in Sockets, OnReset(s) PROVE SiftIInv'
  <2>1. PICK thrown \in BOOLEAN : Reset(thrown) /\ alive' = ~thrown
    BY <1>10 DEF OnReset
  <2>2. down' \in [Sockets -> Seq(DownMessage)] /\ peer' = peer /\ proxied' = proxied
    BY <1>10, DeliveryKeeps DEF OnReset
  <2>3. QED
    BY <1>0, <2>1, <2>2, ResetKeeps DEF SiftIInv, TypeOK
<1>11. ASSUME NEW s \in Sockets, OnPing(s) PROVE SiftIInv'
  <2>1. UNCHANGED <<state, token, sock, proxied, ws>> /\ alive' \in BOOLEAN
    BY <1>11 DEF OnPing, Pongs, CanSend
  <2>2. down' \in [Sockets -> Seq(DownMessage)] /\ peer' = peer
    BY <1>11, DeliveryKeeps DEF OnPing
  <2>3. QED
    BY <1>0, <2>1, <2>2 DEF SiftIInv, TypeOK, NotClosing, TokenIffInitialized
<1>12. ASSUME NEW s \in Sockets, Server(s) PROVE SiftIInv'
  <2>1. UNCHANGED <<sift, ws>>
    BY <1>12 DEF Server, ServerTakes, ServerSends
  <2>2. \A m \in DownMessage : [down EXCEPT ![s] = Append(@, m)] \in [Sockets -> Seq(DownMessage)]
    BY <1>0, WiresKept
  <2>3. CASE ServerTakes(s)
    <3>1. \A ok \in BOOLEAN : <<"auth", IF ok THEN "OK" ELSE "failed">> \in DownMessage
      BY DEF DownMessage
    <3>2. \/ down' = down
          \/ \E ok \in BOOLEAN :
                down' = [down EXCEPT ![s] = Append(@, <<"auth", IF ok THEN "OK" ELSE "failed">>)]
      BY <2>3 DEF ServerTakes
    <3>3. down' \in [Sockets -> Seq(DownMessage)]
      BY <1>0, <2>2, <3>1, <3>2
    <3>4. \/ peer' = peer
          \/ \E p \in {"accepted", "refused", "in call"} : peer' = [peer EXCEPT ![s] = p]
      BY <1>0, <2>3 DEF ServerTakes, TypeOK
    <3>5. peer' \in [Sockets -> {"new", "accepted", "refused", "in call"}]
      BY <1>0, <3>4 DEF TypeOK
    <3>6. QED
      BY <1>0, <2>1, <3>3, <3>5 DEF SiftIInv, TypeOK, NotClosing, TokenIffInitialized, sift
  <2>4. ASSUME NEW type \in Sends, NEW m \in Messages(type), ServerSends(s, m) PROVE SiftIInv'
    <3>1. m \in DownMessage
      BY <2>4 DEF DownMessage
    <3>2. /\ down' \in [Sockets -> Seq(DownMessage)]
          /\ peer' \in [Sockets -> {"new", "accepted", "refused", "in call"}]
      BY <1>0, <2>2, <2>4, <3>1 DEF ServerSends, TypeOK
    <3>3. QED
      BY <1>0, <2>1, <3>2 DEF SiftIInv, TypeOK, NotClosing, TokenIffInitialized, sift
  <2>5. QED
    BY <1>12, <2>3, <2>4 DEF Server
<1>13. CASE App
  BY <1>2, <1>3, <1>4, <1>13 DEF App
<1>14. CASE \E s \in Sockets : SocketEvent(s)
  BY <1>5, <1>6, <1>7, <1>8, <1>9, <1>10, <1>11, <1>14 DEF SocketEvent
<1>15. QED
  BY <1>1, <1>12, <1>13, <1>14 DEF Next

LEMMA InitInv == Init => SiftIInv
<1>1. \A s \in Sockets : <<>> \in Seq(DownMessage)
  OBVIOUS
<1>2. QED
  BY <1>1, SocketsExist DEF Init, SiftIInv, TypeOK, States, NotClosing, TokenIffInitialized

LEMMA AlwaysInv == Spec => []SiftIInv
  BY InitInv, InvStays, PTL DEF Spec

\* The types of every variable: no error is ever stored as a state, and the current
\* socket is null or exists.
THEOREM MachineTyped == Spec => []TypeOK
<1>1. SiftIInv => TypeOK
  BY DEF SiftIInv
<1>2. QED
  BY <1>1, AlwaysInv, PTL

\* The token is there exactly when the machine has left its first state, whichever
\* method has thrown half way.
THEOREM TokenMeansInitialized == Spec => []TokenIffInitialized
<1>1. SiftIInv => TokenIffInitialized
  BY DEF SiftIInv
<1>2. QED
  BY <1>1, AlwaysInv, PTL

-----------------------------------------------------------------------------
\* A message of the current socket finds that socket open.
LEMMA CurrentCanSend ==
    ASSUME SiftIInv, NEW s \in Sockets, NEW m, Delivers(s, m), s = sock
    PROVE  CanSend
<1>1. ws[s] \in {"OPEN", "CLOSING"} /\ ws[s] # "CLOSING"
  BY SocketsExist, DeliveryKeeps DEF SiftIInv, NotClosing
<1>2. QED
  BY <1>1, SocketsExist DEF CanSend

LEMMA WhoKills ==
    ASSUME SiftIInv, Next, alive, ~alive'
    PROVE  \E s \in Sockets :
              /\ down'[s] # down[s]
              /\ \/ s # sock
                 \/ Head(down[s])[1] = "offer"
                 \/ ~proxied /\ Head(down[s])[1] \in {"answer", "candidate"}
<1>1. ~App
  BY DEF App, connect, hangUp, reset, answer, decline, Authenticate, forwardOffer, sift
<1>2. \A s \in Sockets : ~Server(s)
  BY DEF Server, ServerTakes, ServerSends, sift
<1>3. PICK s \in Sockets : SocketEvent(s)
  BY <1>1, <1>2 DEF Next
<1>4. ~Open(s) /\ ~Closed(s) /\ ~OnRing(s) /\ ~OnHangup(s) /\ \A m : ~OnAuth(s, m)
  BY DEF Open, Closed, OnRing, OnHangup, OnAuth, sift
<1>5. CASE OnReset(s)
  <2>1. Delivers(s, <<"reset">>) /\ \E thrown \in BOOLEAN : Reset(thrown) /\ alive' = ~thrown
    BY <1>5 DEF OnReset
  <2>2. Reset(TRUE)
    BY <2>1
  <2>3. ~CanSend
    BY <2>2 DEF Reset
  <2>4. QED
    BY <2>1, <2>3, CurrentCanSend, DeliveryKeeps
<1>6. CASE OnPing(s)
  <2>1. Delivers(s, <<"ping">>) /\ ~CanSend
    BY <1>6 DEF OnPing, Pongs
  <2>2. QED
    BY <2>1, CurrentCanSend, DeliveryKeeps
<1>7. ASSUME NEW m, OnProxied(s, m)
      PROVE  /\ down'[s] # down[s]
             /\ \/ Head(down[s])[1] = "offer"
                \/ ~proxied /\ Head(down[s])[1] \in {"answer", "candidate"}
  <2>1. /\ Delivers(s, m) /\ m[1] \in {"offer", "answer", "candidate"}
        /\ alive' = (m[1] # "offer" /\ proxied)
    BY <1>7 DEF OnProxied, Description
  <2>2. down'[s] # down[s] /\ Head(down[s]) = m
    BY <2>1, DeliveryKeeps
  <2>3. m[1] = "offer" \/ ~proxied
    BY <2>1
  <2>4. QED
    BY <2>1, <2>2, <2>3
<1>8. QED
  BY <1>3, <1>4, <1>5, <1>6, <1>7 DEF SocketEvent

\* Only a socket that was dropped or replaced kills the process, short of an offer, or
\* of media for a call whose callbacks are not set: for any number of sockets, and
\* whatever the server sends.
THEOREM OnlyStaleSocketsEverKill == Spec => OnlyStaleSocketsKill
<1>1. ASSUME SiftIInv, [Next]_vars
      PROVE  [alive /\ ~alive' =>
                \E s \in Sockets :
                   /\ down'[s] # down[s]
                   /\ \/ s # sock
                      \/ Head(down[s])[1] = "offer"
                      \/ ~proxied /\ Head(down[s])[1] \in {"answer", "candidate"}]_vars
  BY <1>1, WhoKills
<1>2. QED
  BY <1>1, AlwaysInv, PTL DEF Spec, OnlyStaleSocketsKill

-----------------------------------------------------------------------------
\* The bridge.
UpMessage == {<<"auth">>, <<"connect">>, <<"hangup">>} \cup {<<"offer", p>> : p \in Peers}

FeedMessage ==
    {<<"created", s>> : s \in Streams} \cup {<<"snapshot", q>> : q \in Seq(Streams)}
    \cup {<<"offer", p>> : p \in Peers}

AtMostOne(w, m) == \A i, j \in 1..Len(w) : w[i] = m /\ w[j] = m => i = j

Authenticated == {"authenticated", "ringing", "connecting", "connected"}
Accepted == peer[1] \in {"accepted", "in call"}

UpTyped == up \in [Sockets -> Seq(UpMessage)]

FeedTyped ==
    /\ feed \in Seq(FeedMessage)
    /\ live \subseteq Streams /\ IsFiniteSet(live)

OneSocket ==
    /\ state # "uninitialized" => sock = 1
    /\ ws[1] \in {"CONNECTING", "OPEN"} => sock = 1
    /\ ws[1] = "NEW" => state = "uninitialized" /\ sock = null
    /\ ws[1] = "CONNECTING" => state = "authenticating"
    /\ ws[1] \in {"NEW", "CONNECTING"} => up[1] = <<>> /\ down[1] = <<>> /\ peer[1] = "new"

OneAuth ==
    /\ AtMostOne(up[1], <<"auth">>)
    /\ OnWire(up[1], <<"auth">>) => peer[1] = "new"
    /\ OnWire(down[1], <<"auth", "OK">>) => Accepted
    /\ state \in Authenticated => Accepted

Called == OnWire(up[1], <<"connect">>)
InCall == peer[1] = "in call"
HungUp == OnWire(down[1], <<"hangup">>)

Proxied ==
    /\ Called \/ InCall => proxied
    /\ \A m \in DownMessage : m[1] \in {"answer", "candidate"} /\ OnWire(down[1], m) => proxied

OneCall ==
    sock # null /\ ws[1] = "OPEN" =>
        /\ AtMostOne(up[1], <<"connect">>) /\ AtMostOne(down[1], <<"hangup">>)
        /\ ~OnWire(up[1], <<"hangup">>)
        /\ ~(Called /\ InCall) /\ ~(Called /\ HungUp) /\ ~(InCall /\ HungUp)
        /\ state = "connected" <=> Called \/ InCall \/ HungUp

\* What holds of the call client, and what more holds of the bridge.
CallIInv == UpTyped /\ OneSocket /\ OneAuth /\ Proxied /\ OneCall
BridgeIInv == SiftIInv /\ CallIInv /\ FeedTyped

-----------------------------------------------------------------------------
\* A wire with one message more, and with one less.
LEMMA Appended ==
    ASSUME NEW S, NEW w \in Seq(S), NEW m \in S, NEW x
    PROVE  /\ OnWire(Append(w, m), x) <=> OnWire(w, x) \/ m = x
           /\ AtMostOne(w, x) /\ (m # x \/ ~OnWire(w, x)) => AtMostOne(Append(w, m), x)
<1> DEFINE v == Append(w, m)
<1>1. /\ Len(w) \in Nat /\ Len(v) = Len(w) + 1 /\ v[Len(w) + 1] = m
      /\ \A i \in 1..Len(w) : v[i] = w[i]
  OBVIOUS
<1>2. \A i \in 1..Len(v) : i \in 1..Len(w) \/ i = Len(w) + 1
  BY <1>1
<1>3. Len(w) + 1 \in 1..Len(v) /\ \A i \in 1..Len(w) : i \in 1..Len(v)
  BY <1>1
<1> HIDE DEF v
<1>4. OnWire(v, x) <=> OnWire(w, x) \/ m = x
  BY <1>1, <1>2, <1>3 DEF OnWire
<1>5. ASSUME AtMostOne(w, x), m # x \/ ~OnWire(w, x) PROVE AtMostOne(v, x)
  BY <1>1, <1>2, <1>5 DEF OnWire, AtMostOne
<1>6. QED
  BY <1>4, <1>5 DEF v

LEMMA Shortened ==
    ASSUME NEW S, NEW w \in Seq(S), w # <<>>, NEW x
    PROVE  /\ OnWire(w, x) <=> OnWire(Tail(w), x) \/ Head(w) = x
           /\ AtMostOne(w, x) => AtMostOne(Tail(w), x) /\ (Head(w) = x => ~OnWire(Tail(w), x))
<1> DEFINE v == Tail(w)
<1>1. /\ Len(w) \in Nat /\ Len(v) \in Nat /\ Len(v) = Len(w) - 1 /\ Head(w) = w[1] /\ 1 \in 1..Len(w)
      /\ \A i \in 1..Len(v) : v[i] = w[i + 1] /\ i + 1 \in 1..Len(w) /\ i + 1 # 1
  OBVIOUS
<1>2. \A i \in 1..Len(w) : i # 1 => i - 1 \in 1..Len(v) /\ v[i - 1] = w[i]
  BY <1>1
<1> HIDE DEF v
<1>3. OnWire(w, x) <=> OnWire(v, x) \/ Head(w) = x
  BY <1>1, <1>2 DEF OnWire
<1>4. ASSUME AtMostOne(w, x) PROVE AtMostOne(v, x)
  <2>1. \A i, j \in 1..Len(v) : v[i] = x /\ v[j] = x => i + 1 = j + 1
    BY <1>1, <1>4 DEF AtMostOne
  <2>2. QED
    BY <1>1, <2>1 DEF AtMostOne
<1>5. ASSUME AtMostOne(w, x), Head(w) = x PROVE ~OnWire(v, x)
  BY <1>1, <1>5 DEF OnWire, AtMostOne
<1>6. QED
  BY <1>3, <1>4, <1>5 DEF v

LEMMA Cleared == \A x : ~OnWire(<<>>, x) /\ AtMostOne(<<>>, x)
  BY DEF OnWire, AtMostOne

\* No two messages are taken for each other.
LEMMA MessagesDiffer ==
    /\ <<"auth">> # <<"connect">> /\ <<"auth">> # <<"hangup">> /\ <<"connect">> # <<"hangup">>
    /\ <<"auth", "OK">> # <<"hangup">> /\ <<"auth", "failed">> # <<"hangup">>
    /\ <<"auth", "OK">> # <<"auth", "failed">>
    /\ \A p : /\ <<"offer", p>> # <<"auth">> /\ <<"offer", p>> # <<"connect">>
              /\ <<"offer", p>> # <<"hangup">>
<1>1. <<"auth">>[1] = "auth" /\ <<"connect">>[1] = "connect" /\ <<"hangup">>[1] = "hangup"
  OBVIOUS
<1>2. \A p : <<"offer", p>>[1] = "offer"
  OBVIOUS
<1>3. /\ <<"auth", "OK">>[1] = "auth" /\ <<"auth", "failed">>[1] = "auth"
      /\ <<"auth", "OK">>[2] = "OK" /\ <<"auth", "failed">>[2] = "failed"
  OBVIOUS
<1>4. QED
  BY <1>1, <1>2, <1>3

LEMMA TheSocket == Sockets = {1} /\ 1 \in Sockets /\ null # 1
  BY BridgeAssumption DEF Sockets, null

-----------------------------------------------------------------------------
\* authenticate: once, on the one socket.
LEMMA Authenticates ==
    ASSUME SiftIInv, CallIInv, Authenticate(1)
    PROVE  CallIInv'
<1>1. /\ state = "uninitialized" /\ ws[1] = "NEW"
      /\ state' = "authenticating" /\ sock' = 1 /\ ws'[1] = "CONNECTING"
      /\ UNCHANGED <<proxied, up, down, peer>>
  BY TheSocket DEF Authenticate, SiftIInv, TypeOK
<1>2. OneSocket' /\ OneAuth'
  BY <1>1 DEF CallIInv, OneSocket, OneAuth, Authenticated, Accepted
<1>3. Proxied' /\ OneCall' /\ UpTyped'
  BY <1>1 DEF CallIInv, Proxied, OneCall, UpTyped, Called, InCall
<1>4. QED
  BY <1>2, <1>3 DEF CallIInv

\* connect: if the socket is open the message is on the wire and the callbacks are set.
LEMMA Connects ==
    ASSUME SiftIInv, CallIInv, connect
    PROVE  CallIInv'
<1>0. UpTyped /\ OneSocket /\ OneAuth /\ Proxied /\ OneCall
  BY DEF CallIInv
<1>1. state = "authenticated" /\ sock = 1 /\ Accepted /\ UNCHANGED <<sock, ws, down, peer>>
  BY <1>0 DEF connect, OneSocket, OneAuth, Authenticated
<1>2. ws[1] \notin {"NEW", "CONNECTING"}
  BY <1>0, <1>1 DEF OneSocket
<1>3. CASE CanSend
  <2>1. /\ ws[1] = "OPEN" /\ state' = "connected" /\ proxied' = TRUE
        /\ up' = [up EXCEPT ![1] = Append(@, <<"connect">>)]
    BY <1>1, <1>3 DEF connect, Put, Callbacks, CanSend
  <2>2. up[1] \in Seq(UpMessage) /\ <<"connect">> \in UpMessage
    BY <1>0, TheSocket DEF UpTyped, UpMessage
  <2>3. up'[1] = Append(up[1], <<"connect">>) /\ UpTyped'
    BY <1>0, <2>1, <2>2, TheSocket, WiresKept DEF UpTyped
  <2>4. \A x : /\ OnWire(up'[1], x) <=> OnWire(up[1], x) \/ <<"connect">> = x
               /\ AtMostOne(up[1], x) /\ (<<"connect">> # x \/ ~OnWire(up[1], x))
                    => AtMostOne(up'[1], x)
    BY <2>2, <2>3, Appended
  <2>5. OneSocket'
    BY <1>0, <1>1, <1>2 DEF OneSocket
  <2>6. OneAuth'
    BY <1>0, <1>1, <2>4, MessagesDiffer DEF OneAuth, Accepted
  <2>7. Proxied'
    BY <2>1 DEF Proxied
  <2>8. ~Called /\ ~InCall /\ ~HungUp
    BY <1>0, <1>1, <2>1, TheSocket DEF OneCall
  <2>9. Called' /\ ~InCall' /\ ~HungUp'
    BY <1>1, <2>4, <2>8 DEF Called, InCall, HungUp
  <2>10. ~OnWire(up'[1], <<"hangup">>) /\ AtMostOne(up'[1], <<"connect">>) /\ AtMostOne(down'[1], <<"hangup">>)
    BY <1>0, <1>1, <2>1, <2>4, <2>8, MessagesDiffer, TheSocket DEF OneCall, Called
  <2>11. OneCall'
    BY <2>1, <2>9, <2>10 DEF OneCall
  <2>12. QED
    BY <2>3, <2>5, <2>6, <2>7, <2>11 DEF CallIInv
<1>4. CASE ~CanSend
  <2>1. state' = "connecting" /\ UNCHANGED <<up, proxied>> /\ ws[1] # "OPEN"
    BY <1>1, <1>4, TheSocket DEF connect, CanSend
  <2>2. OneSocket' /\ OneAuth'
    BY <1>0, <1>1, <1>2, <2>1 DEF OneSocket, OneAuth, Accepted
  <2>3. Proxied' /\ OneCall' /\ UpTyped'
    BY <1>0, <1>1, <2>1 DEF Proxied, OneCall, UpTyped, Called, InCall
  <2>4. QED
    BY <2>2, <2>3 DEF CallIInv
<1>5. QED
  BY <1>3, <1>4

\* Whatever is sent up that starts nothing and ends nothing.
LEMMA Forwards ==
    ASSUME SiftIInv, CallIInv, NEW p \in Peers, forwardOffer(p)
    PROVE  CallIInv'
<1>0. UpTyped /\ OneSocket /\ OneAuth /\ Proxied /\ OneCall
  BY DEF CallIInv
<1>1. /\ UNCHANGED <<state, sock, proxied, ws, down, peer>> /\ sock = 1 /\ ws[1] = "OPEN"
      /\ up' = [up EXCEPT ![1] = Append(@, <<"offer", p>>)]
  BY TheSocket DEF forwardOffer, CanSend, Put, sift, SiftIInv, TypeOK
<1>2. up[1] \in Seq(UpMessage) /\ <<"offer", p>> \in UpMessage
  BY <1>0, TheSocket DEF UpTyped, UpMessage
<1>3. up'[1] = Append(up[1], <<"offer", p>>) /\ UpTyped'
  BY <1>0, <1>1, <1>2, TheSocket, WiresKept DEF UpTyped
<1>4. \A x : <<"offer", p>> # x => /\ OnWire(up'[1], x) <=> OnWire(up[1], x)
                                   /\ AtMostOne(up[1], x) => AtMostOne(up'[1], x)
  BY <1>2, <1>3, Appended
<1>5. /\ \A x \in {<<"auth">>, <<"connect">>, <<"hangup">>} : OnWire(up'[1], x) <=> OnWire(up[1], x)
      /\ AtMostOne(up[1], <<"auth">>) => AtMostOne(up'[1], <<"auth">>)
      /\ AtMostOne(up[1], <<"connect">>) => AtMostOne(up'[1], <<"connect">>)
  BY <1>4, MessagesDiffer
<1>6. Called' <=> Called
  BY <1>5 DEF Called
<1>7. OneSocket' /\ OneAuth'
  BY <1>0, <1>1, <1>5 DEF OneSocket, OneAuth, Accepted
<1>8. Proxied' /\ OneCall'
  BY <1>0, <1>1, <1>5, <1>6 DEF Proxied, OneCall, InCall, HungUp
<1>9. QED
  BY <1>3, <1>7, <1>8 DEF CallIInv

\* The socket opens, and the token is the first that is on the wire.
LEMMA Opens ==
    ASSUME SiftIInv, CallIInv, Open(1)
    PROVE  CallIInv'
<1>0. UpTyped /\ OneSocket /\ OneAuth /\ Proxied /\ OneCall
  BY DEF CallIInv
<1>1. /\ state = "authenticating" /\ sock = 1 /\ up[1] = <<>> /\ down[1] = <<>> /\ peer[1] = "new"
      /\ UNCHANGED <<state, sock, proxied, down, peer>> /\ ws'[1] = "OPEN"
  BY <1>0, TheSocket DEF Open, OneSocket, sift, SiftIInv, TypeOK
<1>2. up' = [up EXCEPT ![1] = Append(@, <<"auth">>)]
  BY <1>1 DEF Open
<1>3. up[1] \in Seq(UpMessage) /\ <<"auth">> \in UpMessage
  BY <1>0, TheSocket DEF UpTyped, UpMessage
<1>4. up'[1] = Append(up[1], <<"auth">>) /\ UpTyped'
  BY <1>0, <1>2, <1>3, TheSocket, WiresKept DEF UpTyped
<1>5. \A x : (OnWire(up'[1], x) <=> <<"auth">> = x) /\ AtMostOne(up'[1], x)
  <2>1. \A x : /\ OnWire(up'[1], x) <=> OnWire(up[1], x) \/ <<"auth">> = x
               /\ AtMostOne(up[1], x) /\ (<<"auth">> # x \/ ~OnWire(up[1], x))
                    => AtMostOne(up'[1], x)
    BY <1>3, <1>4, Appended
  <2>2. \A x : ~OnWire(up[1], x) /\ AtMostOne(up[1], x)
    BY <1>1, Cleared
  <2>3. QED
    BY <2>1, <2>2
<1>6. \A x : ~OnWire(down'[1], x) /\ AtMostOne(down'[1], x)
  BY <1>1, Cleared
<1>7. OneSocket' /\ OneAuth'
  BY <1>1, <1>5, <1>6 DEF OneSocket, OneAuth, Authenticated
<1>8. ~Called' /\ ~InCall' /\ ~HungUp' /\ ~OnWire(up'[1], <<"hangup">>)
  BY <1>1, <1>5, <1>6, MessagesDiffer DEF Called, InCall, HungUp
<1>9. Proxied' /\ OneCall'
  BY <1>1, <1>5, <1>6, <1>8 DEF Proxied, OneCall
<1>10. QED
  BY <1>4, <1>7, <1>9 DEF CallIInv

\* The socket errs or closes.
LEMMA Closes ==
    ASSUME SiftIInv, CallIInv, Closed(1)
    PROVE  CallIInv'
<1>0. UpTyped /\ OneSocket /\ OneAuth /\ Proxied /\ OneCall
  BY DEF CallIInv
<1>1. /\ UNCHANGED <<state, sock, proxied, peer>> /\ ws'[1] = "CLOSED"
      /\ up'[1] = <<>> /\ down'[1] = <<>> /\ UpTyped'
  BY <1>0, TheSocket, WiresKept DEF Closed, sift, SiftIInv, TypeOK, UpTyped
<1>2. \A x : ~OnWire(up'[1], x) /\ ~OnWire(down'[1], x) /\ AtMostOne(up'[1], x)
  BY <1>1, Cleared
<1>3. OneSocket' /\ OneAuth'
  BY <1>0, <1>1, <1>2 DEF OneSocket, OneAuth, Accepted
<1>4. Proxied' /\ OneCall'
  BY <1>0, <1>1, <1>2 DEF Proxied, OneCall, Called, InCall
<1>5. QED
  BY <1>1, <1>3, <1>4 DEF CallIInv

-----------------------------------------------------------------------------
\* A message of the socket is taken, whatever is made of it.
LEMMA OneLess ==
    ASSUME SiftIInv, NEW m, Delivers(1, m)
    PROVE  /\ peer' = peer /\ ws[1] \in {"OPEN", "CLOSING"} /\ Head(down[1]) = m
           /\ \A x : /\ OnWire(down[1], x) <=> OnWire(down'[1], x) \/ m = x
                     /\ AtMostOne(down[1], x)
                          => AtMostOne(down'[1], x) /\ (m = x => ~OnWire(down'[1], x))
<1>1. /\ down[1] \in Seq(DownMessage) /\ down[1] # <<>> /\ Head(down[1]) = m
      /\ down'[1] = Tail(down[1])
  BY TheSocket DEF Delivers, SiftIInv
<1>2. QED
  BY <1>1, Shortened DEF Delivers

\* Neither the calls nor the authentication are touched, and the machine goes on with
\* a message that is no hangup.
LEMMA Passes ==
    ASSUME SiftIInv, CallIInv, NEW m, Delivers(1, m), m # <<"hangup">>,
           UNCHANGED <<sock, proxied, ws, up>>,
           state' = "uninitialized" \/ sock = 1,
           state' = "connected" <=> state = "connected",
           state' \in Authenticated => Accepted
    PROVE  CallIInv'
<1>0. UpTyped /\ OneSocket /\ OneAuth /\ Proxied /\ OneCall
  BY DEF CallIInv
<1>1. /\ peer' = peer /\ ws[1] \in {"OPEN", "CLOSING"}
      /\ \A x : OnWire(down'[1], x) => OnWire(down[1], x)
      /\ AtMostOne(down[1], <<"hangup">>) => AtMostOne(down'[1], <<"hangup">>)
      /\ OnWire(down'[1], <<"hangup">>) <=> OnWire(down[1], <<"hangup">>)
  BY OneLess
<1>2. OneSocket'
  BY <1>0, <1>1 DEF OneSocket
<1>3. OneAuth'
  BY <1>0, <1>1 DEF OneAuth, Accepted
<1>4. Proxied' /\ OneCall'
  BY <1>0, <1>1 DEF Proxied, OneCall, Called, InCall, HungUp
<1>5. QED
  BY <1>0, <1>2, <1>3, <1>4 DEF CallIInv, UpTyped

\* The reply to auth: accepted by the machine only if it was accepted by the server.
LEMMA AuthReplied ==
    ASSUME SiftIInv, CallIInv, NEW m, OnAuth(1, m)
    PROVE  CallIInv'
<1>1. /\ m \in {<<"auth", "OK">>, <<"auth", "failed">>} /\ Delivers(1, m)
      /\ UNCHANGED <<sock, proxied, ws, up>>
  BY DEF OnAuth
<1>2. m # <<"hangup">> /\ OnWire(down[1], m)
  BY <1>1, OneLess, MessagesDiffer
<1>3. state # "uninitialized" => sock = 1
  BY DEF CallIInv, OneSocket
<1>4. \/ state' = state
      \/ state = "authenticating" /\ state' = "uninitialized"
      \/ state = "authenticating" /\ state' = "authenticated" /\ m = <<"auth", "OK">>
  BY DEF OnAuth, OnRefused, Accepts
<1>5. state' \in Authenticated => Accepted
  BY <1>2, <1>4 DEF CallIInv, OneAuth, Authenticated
<1>6. QED
  BY <1>1, <1>2, <1>3, <1>4, <1>5, Passes

LEMMA Rings ==
    ASSUME SiftIInv, CallIInv, OnRing(1)
    PROVE  CallIInv'
<1>1. Delivers(1, <<"ring">>) /\ UNCHANGED <<sock, proxied, ws, up>>
  BY DEF OnRing
<1>2. <<"ring">> # <<"hangup">>
  BY MessagesDiffer
<1>3. state' = state \/ (state = "authenticated" /\ state' = "ringing")
  <2>1. state' = IF state = "authenticated" THEN "ringing" ELSE state
    BY DEF OnRing
  <2>2. QED
    BY <2>1
<1>4. /\ state' = "uninitialized" \/ sock = 1
      /\ state' = "connected" <=> state = "connected"
      /\ state' \in Authenticated => Accepted
  BY <1>3 DEF CallIInv, OneSocket, OneAuth, Authenticated
<1>5. QED
  BY <1>1, <1>2, <1>4, Passes

\* A ping, or media for the application.
LEMMA Ignores ==
    ASSUME SiftIInv, CallIInv, NEW m, Delivers(1, m), m # <<"hangup">>,
           UNCHANGED <<state, sock, proxied, ws, up>>
    PROVE  CallIInv'
<1>1. /\ state' = "uninitialized" \/ sock = 1
      /\ state' \in Authenticated => Accepted
  BY DEF CallIInv, OneSocket, OneAuth
<1>2. QED
  BY <1>1, Passes

\* The hangup that is taken is the only one, and the machine was connected.
LEMMA HangsUp ==
    ASSUME SiftIInv, CallIInv, OnHangup(1)
    PROVE  CallIInv'
<1>0. UpTyped /\ OneSocket /\ OneAuth /\ Proxied /\ OneCall
  BY DEF CallIInv
<1>1. /\ Delivers(1, <<"hangup">>) /\ UNCHANGED <<sock, proxied, ws, up>>
      /\ state' = IF state = "connected" THEN "authenticated" ELSE state
  BY DEF OnHangup, AfterHangup
<1>2. /\ peer' = peer /\ ws[1] \in {"OPEN", "CLOSING"}
      /\ OnWire(down[1], <<"hangup">>)
      /\ \A x : OnWire(down'[1], x) => OnWire(down[1], x)
      /\ AtMostOne(down[1], <<"hangup">>)
           => AtMostOne(down'[1], <<"hangup">>) /\ ~OnWire(down'[1], <<"hangup">>)
  BY <1>1, OneLess
<1>3. OneSocket' /\ OneAuth'
  BY <1>0, <1>1, <1>2 DEF OneSocket, OneAuth, Accepted, Authenticated
<1>4. Proxied'
  BY <1>0, <1>1, <1>2 DEF Proxied, Called, InCall
<1>5. OneCall'
  <2>1. CASE sock # null /\ ws[1] = "OPEN"
    <3>1. HungUp /\ ~Called /\ ~InCall
      BY <1>0, <1>2, <2>1 DEF OneCall, HungUp
    <3>2. ~HungUp' /\ ~Called' /\ ~InCall' /\ state' # "connected"
      BY <1>0, <1>1, <1>2, <2>1, <3>1 DEF OneCall, HungUp, Called, InCall
    <3>3. QED
      BY <1>0, <1>1, <1>2, <2>1, <3>2 DEF OneCall
  <2>2. CASE ~(sock # null /\ ws[1] = "OPEN")
    BY <1>1, <2>2 DEF OneCall
  <2>3. QED
    BY <2>1, <2>2
<1>6. QED
  BY <1>0, <1>1, <1>3, <1>4, <1>5 DEF CallIInv, UpTyped

\* A reset leaves no socket that anything could be said of.
LEMMA Resets ==
    ASSUME SiftIInv, CallIInv, OnReset(1)
    PROVE  CallIInv'
<1>0. UpTyped /\ OneSocket /\ OneAuth /\ Proxied /\ OneCall
  BY DEF CallIInv
<1>1. Delivers(1, <<"reset">>) /\ proxied' = proxied
  BY DEF OnReset
<1>2. /\ peer' = peer /\ ws[1] \in {"OPEN", "CLOSING"}
      /\ \A x : OnWire(down'[1], x) => OnWire(down[1], x)
  BY <1>1, OneLess
<1>3. PICK thrown \in BOOLEAN : Reset(thrown)
  BY DEF OnReset
<1>4. CASE Drop /\ (up' = up \/ (CanSend /\ Put(<<"hangup">>)))
  <2>1. sock' = null /\ state' = "uninitialized" /\ ws'[1] \notin {"NEW", "CONNECTING", "OPEN"}
    BY <1>0, <1>2, <1>4, TheSocket DEF Drop, AfterClose, OneSocket
  <2>2. /\ UpTyped'
        /\ \A x : x # <<"hangup">> => /\ OnWire(up'[1], x) => OnWire(up[1], x)
                                      /\ AtMostOne(up[1], x) => AtMostOne(up'[1], x)
    <3>1. CASE up' = up
      BY <1>0, <3>1 DEF UpTyped
    <3>2. CASE CanSend /\ Put(<<"hangup">>)
      <4>1. sock = 1
        BY <3>2, TheSocket DEF CanSend, SiftIInv, TypeOK
      <4>2. up' = [up EXCEPT ![1] = Append(@, <<"hangup">>)]
        BY <3>2, <4>1 DEF Put
      <4>3. up[1] \in Seq(UpMessage) /\ <<"hangup">> \in UpMessage
        BY <1>0, TheSocket DEF UpTyped, UpMessage
      <4>4. up'[1] = Append(up[1], <<"hangup">>) /\ UpTyped'
        BY <1>0, <4>2, <4>3, TheSocket, WiresKept DEF UpTyped
      <4>5. QED
        BY <4>3, <4>4, Appended
    <3>3. QED
      BY <1>4, <3>1, <3>2
  <2>3. /\ OnWire(up'[1], <<"auth">>) => OnWire(up[1], <<"auth">>)
        /\ AtMostOne(up[1], <<"auth">>) => AtMostOne(up'[1], <<"auth">>)
        /\ OnWire(up'[1], <<"connect">>) => OnWire(up[1], <<"connect">>)
    BY <2>2, MessagesDiffer
  <2>4. OneSocket' /\ OneAuth'
    BY <1>0, <1>2, <2>1, <2>3 DEF OneSocket, OneAuth, Accepted, Authenticated
  <2>5. Proxied' /\ OneCall'
    BY <1>0, <1>1, <1>2, <2>1, <2>3 DEF Proxied, OneCall, Called, InCall
  <2>6. QED
    BY <2>2, <2>4, <2>5 DEF CallIInv
<1>5. CASE ~CanSend /\ state = "connected" /\ state' = "authenticated" /\ UNCHANGED <<sock, ws, up>>
  <2>1. sock = 1 /\ ws[1] # "OPEN"
    BY <1>0, <1>5, TheSocket DEF OneSocket, CanSend
  <2>2. OneSocket' /\ OneAuth'
    BY <1>0, <1>2, <1>5, <2>1 DEF OneSocket, OneAuth, Accepted, Authenticated
  <2>3. Proxied' /\ OneCall' /\ UpTyped'
    BY <1>0, <1>1, <1>2, <1>5, <2>1 DEF Proxied, OneCall, UpTyped, Called, InCall
  <2>4. QED
    BY <2>2, <2>3 DEF CallIInv
<1>6. QED
  BY <1>3, <1>4, <1>5 DEF Reset

-----------------------------------------------------------------------------
\* A message of the client is taken by the server, whatever is made of it.
LEMMA OneLessUp ==
    ASSUME CallIInv, ServerTakes(1)
    PROVE  /\ up[1] \in Seq(UpMessage) /\ up[1] # <<>> /\ ws[1] \notin {"NEW", "CONNECTING"}
           /\ UpTyped' /\ Head(up[1]) \in UpMessage
           /\ \A x : /\ OnWire(up[1], x) <=> OnWire(up'[1], x) \/ Head(up[1]) = x
                     /\ AtMostOne(up[1], x)
                          => AtMostOne(up'[1], x) /\ (Head(up[1]) = x => ~OnWire(up'[1], x))
<1>1. /\ up \in [Sockets -> Seq(UpMessage)] /\ up[1] \in Seq(UpMessage) /\ up[1] # <<>>
      /\ up' = [up EXCEPT ![1] = Tail(@)]
  BY TheSocket DEF CallIInv, UpTyped, ServerTakes
<1>2. up'[1] = Tail(up[1]) /\ up' \in [Sockets -> Seq(UpMessage)] /\ Head(up[1]) \in UpMessage
  BY <1>1, TheSocket, WiresKept
<1>3. ws[1] \notin {"NEW", "CONNECTING"}
  BY <1>1 DEF CallIInv, OneSocket
<1>4. \A x : /\ OnWire(up[1], x) <=> OnWire(up'[1], x) \/ Head(up[1]) = x
             /\ AtMostOne(up[1], x)
                  => AtMostOne(up'[1], x) /\ (Head(up[1]) = x => ~OnWire(up'[1], x))
  BY <1>1, <1>2, Shortened
<1>5. QED
  BY <1>1, <1>2, <1>3, <1>4 DEF UpTyped

\* The server looks at the token: it was not asked before and will not be again.
LEMMA ServerLooks ==
    ASSUME SiftIInv, CallIInv, ServerTakes(1), Head(up[1]) = <<"auth">>
    PROVE  CallIInv'
<1>0. UpTyped /\ OneSocket /\ OneAuth /\ Proxied /\ OneCall
  BY DEF CallIInv
<1>1. UNCHANGED <<state, sock, proxied, ws>>
  BY DEF ServerTakes, sift
<1>2. PICK ok \in BOOLEAN :
         /\ peer' = [peer EXCEPT ![1] = IF ok THEN "accepted" ELSE "refused"]
         /\ down' = [down EXCEPT ![1] = Append(@, <<"auth", IF ok THEN "OK" ELSE "failed">>)]
  <2>1. /\ <<"auth">> # <<"connect">> /\ <<"auth">> # <<"hangup">> /\ <<"auth">>[1] # "offer"
        /\ <<"auth">> # <<"ringanswer", FALSE>> /\ <<"auth">> # <<"ringanswer", TRUE>>
    <3>1. <<"auth">>[1] = "auth" /\ \A x : <<"ringanswer", x>>[1] = "ringanswer"
      OBVIOUS
    <3>2. QED
      BY <3>1, MessagesDiffer
  <2>2. QED
    BY <2>1 DEF ServerTakes
<1> DEFINE reply == <<"auth", IF ok THEN "OK" ELSE "failed">>
<1>3. /\ peer[1] = "new" /\ OnWire(up[1], <<"auth">>) /\ ~OnWire(up'[1], <<"auth">>)
      /\ AtMostOne(up'[1], <<"auth">>)
      /\ OnWire(up'[1], <<"connect">>) <=> OnWire(up[1], <<"connect">>)
      /\ AtMostOne(up[1], <<"connect">>) => AtMostOne(up'[1], <<"connect">>)
      /\ OnWire(up'[1], <<"hangup">>) => OnWire(up[1], <<"hangup">>)
  BY <1>0, OneLessUp, MessagesDiffer DEF OneAuth
<1>4. state \notin Authenticated /\ ~OnWire(down[1], <<"auth", "OK">>)
  BY <1>0, <1>3 DEF OneAuth, Accepted
<1>5. reply \in {<<"auth", "OK">>, <<"auth", "failed">>} /\ (reply = <<"auth", "OK">> => ok)
  BY MessagesDiffer
<1>6. /\ down[1] \in Seq(DownMessage) /\ reply \in DownMessage
      /\ down'[1] = Append(down[1], reply)
      /\ peer'[1] = IF ok THEN "accepted" ELSE "refused"
  BY <1>2, <1>5, TheSocket DEF SiftIInv, TypeOK, DownMessage
<1> HIDE DEF reply
<1>7. /\ \A x : OnWire(down'[1], x) <=> OnWire(down[1], x) \/ reply = x
      /\ AtMostOne(down[1], <<"hangup">>) => AtMostOne(down'[1], <<"hangup">>)
      /\ OnWire(down'[1], <<"hangup">>) <=> OnWire(down[1], <<"hangup">>)
  BY <1>5, <1>6, Appended, MessagesDiffer
<1>8. OneSocket' /\ UpTyped'
  BY <1>0, <1>1, OneLessUp DEF OneSocket
<1>9. OneAuth'
  BY <1>1, <1>3, <1>4, <1>5, <1>6, <1>7 DEF OneAuth, Accepted
<1>10. ~InCall /\ ~InCall' /\ (Called' <=> Called) /\ (HungUp' <=> HungUp)
  BY <1>3, <1>6, <1>7 DEF InCall, Called, HungUp
<1>11. OneCall'
  BY <1>0, <1>1, <1>3, <1>7, <1>10 DEF OneCall
<1>12. Proxied'
  <2>1. reply[1] = "auth"
    BY <1>5
  <2>2. QED
    BY <1>0, <1>1, <1>7, <1>10, <2>1 DEF Proxied
<1>13. QED
  BY <1>8, <1>9, <1>11, <1>12 DEF CallIInv

\* The connect reaches the server, which has accepted the token by then.
LEMMA ServerConnects ==
    ASSUME SiftIInv, CallIInv, ServerTakes(1), Head(up[1]) = <<"connect">>
    PROVE  CallIInv'
<1>0. UpTyped /\ OneSocket /\ OneAuth /\ Proxied /\ OneCall
  BY DEF CallIInv
<1>1. UNCHANGED <<state, sock, proxied, ws>>
  BY DEF ServerTakes, sift
<1>2. /\ down' = down
      /\ peer' = [peer EXCEPT ![1] = IF @ = "accepted" THEN "in call" ELSE @]
  <2>1. <<"connect">> # <<"auth">> /\ <<"connect">> # <<"hangup">>
        /\ <<"connect">>[1] # "offer" /\ <<"connect">> # <<"ringanswer", FALSE>>
    BY MessagesDiffer
  <2>2. QED
    BY <2>1 DEF ServerTakes
<1>3. peer'[1] = IF peer[1] = "accepted" THEN "in call" ELSE peer[1]
  BY <1>2, TheSocket DEF SiftIInv, TypeOK
<1>4. /\ OnWire(up[1], <<"connect">>)
      /\ OnWire(up'[1], <<"auth">>) <=> OnWire(up[1], <<"auth">>)
      /\ AtMostOne(up[1], <<"auth">>) => AtMostOne(up'[1], <<"auth">>)
      /\ AtMostOne(up[1], <<"connect">>)
           => AtMostOne(up'[1], <<"connect">>) /\ ~OnWire(up'[1], <<"connect">>)
      /\ OnWire(up'[1], <<"hangup">>) => OnWire(up[1], <<"hangup">>)
      /\ OnWire(up'[1], <<"connect">>) => OnWire(up[1], <<"connect">>)
  BY OneLessUp, MessagesDiffer
<1>5. OneSocket' /\ UpTyped'
  BY <1>0, <1>1, OneLessUp DEF OneSocket
<1>6. OneAuth'
  BY <1>0, <1>1, <1>2, <1>3, <1>4 DEF OneAuth, Accepted
<1>7. Proxied'
  BY <1>0, <1>1, <1>2, <1>4 DEF Proxied, Called
<1>8. OneCall'
  <2>1. CASE sock # null /\ ws[1] = "OPEN"
    <3>1. Called /\ ~InCall /\ ~HungUp /\ state = "connected" /\ Accepted
      BY <1>0, <1>4, <2>1 DEF OneCall, OneAuth, Called, Authenticated
    <3>2. InCall' /\ ~Called' /\ ~HungUp'
      BY <1>0, <1>2, <1>3, <1>4, <2>1, <3>1 DEF OneCall, InCall, Called, HungUp, Accepted
    <3>3. QED
      BY <1>0, <1>1, <1>2, <1>4, <2>1, <3>1, <3>2 DEF OneCall
  <2>2. CASE ~(sock # null /\ ws[1] = "OPEN")
    BY <1>1, <2>2 DEF OneCall
  <2>3. QED
    BY <2>1, <2>2
<1>9. QED
  BY <1>5, <1>6, <1>7, <1>8 DEF CallIInv

\* A hangup reaches the server only when the client has reset.
LEMMA ServerHangsUp ==
    ASSUME SiftIInv, CallIInv, ServerTakes(1), Head(up[1]) = <<"hangup">>
    PROVE  CallIInv'
<1>0. UpTyped /\ OneSocket /\ OneAuth /\ Proxied /\ OneCall
  BY DEF CallIInv
<1>1. UNCHANGED <<state, sock, proxied, ws>>
  BY DEF ServerTakes, sift
<1>2. /\ down' = down
      /\ peer' = [peer EXCEPT ![1] = IF @ = "in call" THEN "accepted" ELSE @]
  <2>1. <<"hangup">> # <<"auth">> /\ <<"connect">> # <<"hangup">>
        /\ <<"hangup">>[1] # "offer" /\ <<"hangup">> # <<"ringanswer", FALSE>>
        /\ <<"hangup">> # <<"ringanswer", TRUE>>
    BY MessagesDiffer
  <2>2. QED
    BY <2>1 DEF ServerTakes
<1>3. peer'[1] = IF peer[1] = "in call" THEN "accepted" ELSE peer[1]
  BY <1>2, TheSocket DEF SiftIInv, TypeOK
<1>4. /\ OnWire(up[1], <<"hangup">>)
      /\ OnWire(up'[1], <<"auth">>) <=> OnWire(up[1], <<"auth">>)
      /\ AtMostOne(up[1], <<"auth">>) => AtMostOne(up'[1], <<"auth">>)
      /\ OnWire(up'[1], <<"connect">>) => OnWire(up[1], <<"connect">>)
  BY OneLessUp, MessagesDiffer
<1>5. OneSocket' /\ UpTyped'
  BY <1>0, <1>1, OneLessUp DEF OneSocket
<1>6. OneAuth'
  BY <1>0, <1>1, <1>2, <1>3, <1>4 DEF OneAuth, Accepted
<1>7. Proxied'
  BY <1>0, <1>1, <1>2, <1>3, <1>4 DEF Proxied, Called, InCall
<1>8. OneCall'
  BY <1>0, <1>1, <1>4 DEF OneCall
<1>9. QED
  BY <1>5, <1>6, <1>7, <1>8 DEF CallIInv

\* An offer that is forwarded changes nothing of this.
LEMMA ServerHears ==
    ASSUME SiftIInv, CallIInv, ServerTakes(1), NEW p \in Peers, Head(up[1]) = <<"offer", p>>
    PROVE  CallIInv'
<1>0. UpTyped /\ OneSocket /\ OneAuth /\ Proxied /\ OneCall
  BY DEF CallIInv
<1>1. UNCHANGED <<state, sock, proxied, ws, peer, down>>
  <2>1. /\ <<"offer", p>> # <<"auth">> /\ <<"offer", p>> # <<"connect">>
        /\ <<"offer", p>> # <<"hangup">> /\ <<"offer", p>> # <<"ringanswer", TRUE>>
    <3>1. <<"offer", p>>[1] = "offer" /\ <<"ringanswer", TRUE>>[1] = "ringanswer"
      OBVIOUS
    <3>2. QED
      BY <3>1, MessagesDiffer
  <2>2. QED
    BY <2>1 DEF ServerTakes, sift
<1>2. /\ \A x \in {<<"auth">>, <<"connect">>, <<"hangup">>} : OnWire(up'[1], x) <=> OnWire(up[1], x)
      /\ AtMostOne(up[1], <<"auth">>) => AtMostOne(up'[1], <<"auth">>)
      /\ AtMostOne(up[1], <<"connect">>) => AtMostOne(up'[1], <<"connect">>)
  BY OneLessUp, MessagesDiffer
<1>3. OneSocket' /\ UpTyped'
  BY <1>0, <1>1, OneLessUp DEF OneSocket
<1>4. OneAuth'
  BY <1>0, <1>1, <1>2 DEF OneAuth, Accepted
<1>5. Called' <=> Called
  BY <1>2 DEF Called
<1>6. Proxied' /\ OneCall'
  BY <1>0, <1>1, <1>2, <1>5 DEF Proxied, OneCall, InCall, HungUp
<1>7. QED
  BY <1>3, <1>4, <1>6 DEF CallIInv

\* The server sends of its own accord: media only in a call, and a hangup only to end one.
LEMMA ServerSays ==
    ASSUME SiftIInv, CallIInv, NEW type \in Sends, NEW m \in Messages(type), ServerSends(1, m)
    PROVE  CallIInv'
<1>0. UpTyped /\ OneSocket /\ OneAuth /\ Proxied /\ OneCall
  BY DEF CallIInv
<1>1. UNCHANGED <<state, sock, proxied, ws, up>> /\ ws[1] \in {"OPEN", "CLOSING"}
  BY DEF ServerSends, sift
<1>2. down[1] \in Seq(DownMessage) /\ m \in DownMessage /\ down'[1] = Append(down[1], m)
  BY TheSocket DEF ServerSends, SiftIInv, DownMessage
<1>3. \A x : /\ OnWire(down'[1], x) <=> OnWire(down[1], x) \/ m = x
             /\ AtMostOne(down[1], x) /\ (m # x \/ ~OnWire(down[1], x)) => AtMostOne(down'[1], x)
  BY <1>2, Appended
<1>4. m # <<"auth", "OK">>
  <2>1. m[1] = type
    BY DEF Messages
  <2>2. QED
    BY <2>1, SiftAssumption
<1>5. OneSocket'
  BY <1>0, <1>1 DEF OneSocket
<1>6. CASE m = <<"hangup">>
  <2>1. InCall /\ peer' = [peer EXCEPT ![1] = "accepted"]
    BY <1>6 DEF ServerSends, InCall
  <2>2. peer'[1] = "accepted" /\ Accepted
    BY <2>1, TheSocket DEF SiftIInv, TypeOK, InCall, Accepted
  <2>3. OneAuth'
    BY <1>0, <1>1, <1>3, <1>4, <2>1, <2>2 DEF OneAuth, Accepted, InCall
  <2>4. Proxied'
    <3>1. m[1] = "hangup"
      BY <1>6
    <3>2. proxied'
      BY <1>0, <1>1, <2>1 DEF Proxied
    <3>3. QED
      BY <3>2 DEF Proxied
  <2>5. OneCall'
    <3>1. CASE sock # null /\ ws[1] = "OPEN"
      <4>1. ~Called /\ ~HungUp /\ state = "connected"
        BY <1>0, <2>1, <3>1 DEF OneCall
      <4>2. HungUp' /\ ~InCall' /\ ~Called'
        BY <1>1, <1>3, <1>6, <2>2, <4>1 DEF HungUp, InCall, Called
      <4>3. QED
        BY <1>0, <1>1, <1>3, <1>6, <3>1, <4>1, <4>2 DEF OneCall, HungUp
    <3>2. CASE ~(sock # null /\ ws[1] = "OPEN")
      BY <1>1, <3>2 DEF OneCall
    <3>3. QED
      BY <3>1, <3>2
  <2>6. QED
    BY <1>0, <1>1, <1>5, <2>3, <2>4, <2>5 DEF CallIInv, UpTyped
<1>7. CASE m # <<"hangup">>
  <2>1. peer' = peer /\ (m[1] \in {"answer", "candidate"} => InCall)
    BY <1>7 DEF ServerSends, InCall, Description
  <2>2. OneAuth'
    BY <1>0, <1>1, <1>3, <1>4, <2>1 DEF OneAuth, Accepted
  <2>3. Proxied'
    BY <1>0, <1>1, <1>3, <2>1 DEF Proxied, InCall, Called
  <2>4. /\ OnWire(down'[1], <<"hangup">>) <=> OnWire(down[1], <<"hangup">>)
        /\ AtMostOne(down[1], <<"hangup">>) => AtMostOne(down'[1], <<"hangup">>)
    BY <1>3, <1>7
  <2>5. OneCall'
    BY <1>0, <1>1, <2>1, <2>4 DEF OneCall, HungUp, InCall, Called
  <2>6. QED
    BY <1>0, <1>1, <1>5, <2>2, <2>3, <2>5 DEF CallIInv, UpTyped
<1>8. QED
  BY <1>6, <1>7

-----------------------------------------------------------------------------
\* What the call client and the server do together.
LEMMA CallsStay ==
    ASSUME SiftIInv, CallIInv, [Next]_vars
    PROVE  CallIInv'
<1>1. CASE UNCHANGED vars
  BY <1>1 DEF vars, sift, CallIInv, UpTyped, OneSocket, OneAuth, Proxied, OneCall,
              Accepted, Called, InCall, HungUp
<1>2. CASE App
  <2>1. ~hangUp /\ ~reset /\ ~answer /\ ~decline
    BY BridgeAssumption DEF hangUp, reset, answer, decline
  <2>2. connect \/ Authenticate(1) \/ \E p \in Peers : forwardOffer(p)
    BY <1>2, <2>1, TheSocket DEF App
  <2>3. QED
    BY <2>2, Connects, Authenticates, Forwards
<1>3. CASE SocketEvent(1)
  <2>1. ASSUME NEW m, OnProxied(1, m) PROVE CallIInv'
    <3>1. /\ Delivers(1, m) /\ m[1] \in {"offer", "answer", "candidate"}
          /\ UNCHANGED <<state, sock, proxied, ws, up>>
      BY <2>1 DEF OnProxied, Description
    <3>2. m # <<"hangup">>
      BY <3>1
    <3>3. QED
      BY <3>1, <3>2, Ignores
  <2>2. CASE OnPing(1)
    <3>1. Delivers(1, <<"ping">>) /\ UNCHANGED <<state, sock, proxied, ws, up>>
      BY <2>2 DEF OnPing
    <3>2. <<"ping">> # <<"hangup">>
      BY MessagesDiffer
    <3>3. QED
      BY <3>1, <3>2, Ignores
  <2>3. QED
    BY <1>3, <2>1, <2>2, Opens, Closes, AuthReplied, Rings, HangsUp, Resets DEF SocketEvent
<1>4. CASE ServerTakes(1)
  <2>1. Head(up[1]) \in UpMessage
    BY <1>4, OneLessUp
  <2>2. QED
    BY <1>4, <2>1, ServerLooks, ServerConnects, ServerHangsUp, ServerHears DEF UpMessage
<1>5. QED
  BY <1>1, <1>2, <1>3, <1>4, ServerSays, TheSocket DEF Next, Server

-----------------------------------------------------------------------------
\* The session ends the bridge: its socket errs, or its event cannot be served.
Dies ==
    /\ alive' = FALSE
    /\ UNCHANGED <<state, token, sock, proxied, ws, up, down, peer>>
    /\ \/ OnSessionError
       \/ Announced("created") /\ ~MayConnect
       \/ Announced("offer") /\ ~CanSend

\* The bridge only uses Sift, and otherwise leaves it alone.
LEMMA BridgeUsesSift ==
    ASSUME FeedTyped, BridgeNext
    PROVE  [Next]_vars \/ Dies
<1>0. alive /\ 1 \in Sockets
  BY TheSocket DEF BridgeNext
<1>1. CASE Main
  BY <1>0, <1>1 DEF Main, Next, App
<1>2. CASE OnAuthenticated
  BY <1>0, <1>2 DEF OnAuthenticated, Next, SocketEvent
<1>3. CASE OnStreamCreated
  BY <1>0, <1>3 DEF OnStreamCreated, Taken, Announced, Bridged, Dies, Next, App
<1>4. CASE OnSnapshot \/ AnnounceSnapshot
  BY <1>0, <1>4 DEF OnSnapshot, AnnounceSnapshot, Bridged, Next, App
<1>5. CASE OnOffer
  <2>1. CASE forwardOffer(Head(feed)[2])
    <3>1. Head(feed) \in FeedMessage /\ Head(feed)[1] = "offer"
      BY <1>5 DEF OnOffer, Taken, FeedTyped
    <3>2. /\ \A s : <<"created", s>>[1] = "created" /\ <<"snapshot", s>>[1] = "snapshot"
          /\ "created" # "offer" /\ "snapshot" # "offer"
      OBVIOUS
    <3>3. PICK p \in Peers : Head(feed) = <<"offer", p>>
      BY <3>1, <3>2 DEF FeedMessage
    <3>4. Head(feed)[2] \in Peers
      BY <3>3
    <3>5. QED
      BY <1>0, <2>1, <3>4 DEF Next, App
  <2>2. QED
    BY <1>5, <2>1 DEF OnOffer, Taken, Announced, Dies
<1>6. CASE OnSocket
  BY <1>0, <1>6 DEF OnSocket, Next, SocketEvent
<1>7. CASE GridspaceTakes \/ GridspaceSends
  BY <1>0, <1>7 DEF GridspaceTakes, GridspaceSends, Next, Server
<1>8. CASE Watch \/ Snap \/ (\E s \in Streams : Publish(s)) \/ (\E i \in Peers : Offers(i))
  BY <1>8 DEF Watch, Snap, Publish, Offers
<1>9. CASE OnSessionError
  BY <1>9 DEF OnSessionError, Dies
<1>10. QED
  BY <1>1, <1>2, <1>3, <1>4, <1>5, <1>6, <1>7, <1>8, <1>9 DEF BridgeNext

\* The session announces streams that were published, and offers to subscribers.
LEMMA FeedStaysTyped ==
    ASSUME FeedTyped, [BridgeNext]_bridgeVars
    PROVE  FeedTyped'
<1>0. feed \in Seq(FeedMessage) /\ live \subseteq Streams /\ IsFiniteSet(live)
  BY DEF FeedTyped
<1>1. CASE UNCHANGED <<feed, live>>
  BY <1>0, <1>1 DEF FeedTyped
<1>2. CASE OnStreamCreated \/ OnSnapshot \/ OnOffer
  <2>1. feed # <<>> /\ feed' = Tail(feed) /\ live' = live
    BY <1>2 DEF OnStreamCreated, OnSnapshot, OnOffer, Taken, session
  <2>2. QED
    BY <1>0, <2>1 DEF FeedTyped
<1>3. ASSUME NEW s \in Streams, Publish(s) PROVE FeedTyped'
  <2>1. live' = live \cup {s} /\ (feed' = feed \/ feed' = Append(feed, <<"created", s>>))
    BY <1>3 DEF Publish
  <2>2. <<"created", s>> \in FeedMessage
    BY DEF FeedMessage
  <2>3. \A m \in FeedMessage : Append(feed, m) \in Seq(FeedMessage)
    BY <1>0
  <2>4. feed' \in Seq(FeedMessage)
    BY <1>0, <2>1, <2>2, <2>3
  <2>5. IsFiniteSet(live') /\ live' \subseteq Streams
    BY <1>0, <2>1, FS_AddElement
  <2>6. QED
    BY <2>4, <2>5 DEF FeedTyped
<1>4. CASE Snap
  <2>1. PICK q \in [1..Cardinality(live) -> live] : feed' = Append(feed, <<"snapshot", q>>)
    BY <1>4 DEF Snap
  <2>2. Cardinality(live) \in Nat
    BY <1>0, FS_CardinalityType
  <2>3. q \in Seq(live) /\ q \in Seq(Streams)
    BY <1>0, <2>2
  <2>4. <<"snapshot", q>> \in FeedMessage
    BY <2>3 DEF FeedMessage
  <2>5. feed' \in Seq(FeedMessage) /\ live' = live
    BY <1>0, <1>4, <2>1, <2>4 DEF Snap
  <2>6. QED
    BY <1>0, <2>5 DEF FeedTyped
<1>5. ASSUME NEW i \in Peers, Offers(i) PROVE FeedTyped'
  <2>1. feed' = Append(feed, <<"offer", i>>) /\ live' = live
    BY <1>5 DEF Offers, session
  <2>2. <<"offer", i>> \in FeedMessage
    BY DEF FeedMessage
  <2>3. QED
    BY <1>0, <2>1, <2>2 DEF FeedTyped
<1>6. CASE \/ Main \/ OnAuthenticated \/ OnSocket \/ GridspaceTakes \/ GridspaceSends \/ Watch
           \/ AnnounceSnapshot \/ OnSessionError
  BY <1>1, <1>6 DEF Main, OnAuthenticated, OnSocket, GridspaceTakes, GridspaceSends, Watch,
                    AnnounceSnapshot, OnSessionError, bridge, session
<1>7. CASE UNCHANGED bridgeVars
  BY <1>1, <1>7 DEF bridgeVars, bridge, session
<1>8. QED
  BY <1>2, <1>3, <1>4, <1>5, <1>6, <1>7 DEF BridgeNext

LEMMA BridgeInvStays ==
    ASSUME BridgeIInv, [BridgeNext]_bridgeVars
    PROVE  BridgeIInv'
<1>0. SiftIInv /\ CallIInv /\ FeedTyped
  BY DEF BridgeIInv
<1>1. FeedTyped'
  BY <1>0, FeedStaysTyped
<1>2. [Next]_vars \/ Dies
  BY <1>0, BridgeUsesSift DEF bridgeVars
<1>3. CASE [Next]_vars
  BY <1>0, <1>1, <1>3, InvStays, CallsStay DEF BridgeIInv
<1>4. CASE Dies
  <2>1. SiftIInv'
    BY <1>0, <1>4 DEF Dies, SiftIInv, TypeOK, NotClosing, TokenIffInitialized
  <2>2. CallIInv'
    BY <1>0, <1>4 DEF Dies, CallIInv, UpTyped, OneSocket, OneAuth, Proxied, OneCall,
                      Accepted, Called, InCall, HungUp
  <2>3. QED
    BY <1>1, <2>1, <2>2 DEF BridgeIInv
<1>5. QED
  BY <1>2, <1>3, <1>4

LEMMA BridgeStarts == BridgeInit => BridgeIInv
<1>1. ASSUME BridgeInit PROVE SiftIInv
  BY <1>1, InitInv DEF BridgeInit
<1>2. ASSUME BridgeInit PROVE CallIInv
  <2>1. /\ state = "uninitialized" /\ sock = null /\ ws[1] = "NEW" /\ peer[1] = "new"
        /\ up[1] = <<>> /\ down[1] = <<>> /\ up = [s \in Sockets |-> <<>>]
    BY <1>2, TheSocket DEF BridgeInit, Init
  <2>2. \A x : /\ ~OnWire(up[1], x) /\ AtMostOne(up[1], x)
               /\ ~OnWire(down[1], x)
    BY <2>1, Cleared
  <2>3. <<>> \in Seq(UpMessage)
    OBVIOUS
  <2>4. OneSocket /\ OneAuth /\ UpTyped
    BY <2>1, <2>2, <2>3 DEF OneSocket, OneAuth, UpTyped, Authenticated
  <2>5. Proxied /\ OneCall
    BY <2>1, <2>2 DEF Proxied, OneCall, Called, InCall
  <2>6. QED
    BY <2>4, <2>5 DEF CallIInv
<1>3. ASSUME BridgeInit PROVE FeedTyped
  <2>1. IsFiniteSet({}) /\ <<>> \in Seq(FeedMessage)
    BY FS_EmptySet
  <2>2. QED
    BY <1>3, <2>1 DEF BridgeInit, FeedTyped
<1>4. QED
  BY <1>1, <1>2, <1>3 DEF BridgeIInv

LEMMA AlwaysBridged == BridgeSpec => []BridgeIInv
  BY BridgeStarts, BridgeInvStays, PTL DEF BridgeSpec

\* The machine passes authentication only with a token that Gridspace has accepted: here,
\* where the application authenticates once, what SiftStaleAuth refutes in general.
THEOREM AuthenticatedBridge == BridgeSpec => []AuthenticatedIsAccepted
<1>1. ASSUME BridgeIInv PROVE AuthenticatedIsAccepted
  <2>1. CallIInv
    BY <1>1 DEF BridgeIInv
  <2>2. CASE state \in Authenticated
    BY <2>1, <2>2, TheSocket
       DEF CallIInv, OneSocket, OneAuth, Authenticated, Accepted, AuthenticatedIsAccepted
  <2>3. QED
    BY <2>2 DEF Authenticated, AuthenticatedIsAccepted
<1>2. QED
  BY <1>1, AlwaysBridged, PTL

\* The bridge and Gridspace never disagree for good: when nothing is under way, the
\* machine is connected exactly when the server has a call, however connects, hangups,
\* rings and resets have crossed.
THEOREM BridgeAgrees == BridgeSpec => []Agreement
<1>1. ASSUME BridgeIInv PROVE Agreement
  <2>1. ASSUME sock # null, ws[sock] = "OPEN", up[sock] = <<>>, down[sock] = <<>>
        PROVE  state = "connected" <=> peer[sock] = "in call"
    <3>1. sock = 1
      BY <1>1, <2>1, TheSocket DEF BridgeIInv, SiftIInv, TypeOK
    <3>2. ~Called /\ ~HungUp
      BY <2>1, <3>1, Cleared DEF Called, HungUp
    <3>3. QED
      BY <1>1, <2>1, <3>1, <3>2 DEF BridgeIInv, CallIInv, OneCall, InCall
  <2>2. QED
    BY <2>1 DEF Agreement
<1>2. QED
  BY <1>1, AlwaysBridged, PTL

-----------------------------------------------------------------------------
\* The two ends of the call, step by step.
CallKept == UNCHANGED Call!callVars
CallNext == Call!Next

\* What CallOfTwo sees of the wires, the server and the machine.
LEMMA NothingSeen ==
    ASSUME Line' <=> Line,
           Line => /\ state' = "connected" <=> state = "connected"
                   /\ InCall' <=> InCall
                   /\ Called' <=> Called
                   /\ HungUp' <=> HungUp
    PROVE  CallKept
  BY DEF CallKept, Call!callVars, Call!ends, InCall, Called, HungUp

\* A line that is lost shows nothing more.
LEMMA LineIsLost ==
    ASSUME ~Line'
    PROVE  CallNext \/ CallKept
<1>1. CASE Line
  BY <1>1 DEF CallNext, Call!Next, Call!Lose, Call!Nothing
<1>2. CASE ~Line
  BY <1>2, NothingSeen
<1>3. QED
  BY <1>1, <1>2

\* A line that is not open shows nothing.
LEMMA LineIsQuiet ==
    ASSUME CallIInv, Line, ws[1] # "OPEN", SiftIInv
    PROVE  state # "connected" /\ ~InCall /\ ~Called /\ ~HungUp
<1>1. ws[1] \in {"NEW", "CONNECTING"}
  BY TheSocket DEF Line, SiftIInv, TypeOK
<1>2. QED
  BY <1>1, Cleared DEF CallIInv, OneSocket, InCall, Called, HungUp

\* On an open line there is one connect, call or hangup exactly while the machine is connected.
LEMMA LineIsOpen ==
    ASSUME CallIInv, ws[1] = "OPEN"
    PROVE  /\ AtMostOne(up[1], <<"connect">>) /\ AtMostOne(down[1], <<"hangup">>)
           /\ ~(Called /\ InCall) /\ ~(Called /\ HungUp) /\ ~(InCall /\ HungUp)
           /\ state = "connected" <=> Called \/ InCall \/ HungUp
           /\ sock = 1 /\ Line
  BY TheSocket DEF CallIInv, OneSocket, OneCall, Line

\* The application asks for a call when nothing is left of another.
LEMMA ConnectAsks ==
    ASSUME SiftIInv, CallIInv, connect
    PROVE  CallNext \/ CallKept
<1>1. state = "authenticated" /\ sock = 1 /\ UNCHANGED <<sock, ws, down, peer>>
  BY DEF connect, CallIInv, OneSocket
<1>2. CASE CanSend
  <2>1. ws[1] = "OPEN" /\ state' = "connected" /\ up' = [up EXCEPT ![1] = Append(@, <<"connect">>)]
    BY <1>1, <1>2 DEF connect, Put, CanSend
  <2>2. up[1] \in Seq(UpMessage) /\ <<"connect">> \in UpMessage /\ up'[1] = Append(up[1], <<"connect">>)
    BY <2>1, TheSocket DEF CallIInv, UpTyped, UpMessage
  <2>3. OnWire(up'[1], <<"connect">>)
    BY <2>2, Appended
  <2>4. ~Called /\ ~InCall /\ ~HungUp /\ Line
    BY <1>1, <2>1, LineIsOpen
  <2>5. Line' /\ UNCHANGED <<ws, down, peer>>
    BY <1>1, <2>4 DEF Line
  <2>6. QED
    BY <1>1, <2>1, <2>3, <2>4, <2>5
       DEF CallNext, Call!Next, Call!Ask, Call!Nothing, Called, InCall, HungUp
<1>3. CASE ~CanSend
  <2>1. ws[1] # "OPEN" /\ state' = "connecting" /\ up' = up
    BY <1>1, <1>3, TheSocket DEF connect, CanSend
  <2>2. QED
    BY <1>1, <2>1, NothingSeen DEF Line, Called, InCall, HungUp
<1>4. QED
  BY <1>2, <1>3

\* An authentication or an offer is not seen.
LEMMA OthersAskNothing ==
    ASSUME SiftIInv, CallIInv, Authenticate(1) \/ \E p \in Peers : forwardOffer(p)
    PROVE  CallKept
<1>1. CASE Authenticate(1)
  <2>1. /\ ws[1] = "NEW" /\ ws'[1] = "CONNECTING" /\ state # "connected" /\ state' # "connected"
        /\ UNCHANGED <<up, down, peer>>
    BY <1>1, TheSocket DEF Authenticate, SiftIInv, TypeOK
  <2>2. QED
    BY <2>1, NothingSeen DEF Line, Called, InCall, HungUp
<1>2. ASSUME NEW p \in Peers, forwardOffer(p) PROVE CallKept
  <2>1. /\ sock = 1 /\ UNCHANGED <<state, ws, down, peer>>
        /\ up' = [up EXCEPT ![1] = Append(@, <<"offer", p>>)]
    BY <1>2, TheSocket DEF forwardOffer, CanSend, Put, sift, SiftIInv, TypeOK
  <2>2. up[1] \in Seq(UpMessage) /\ <<"offer", p>> \in UpMessage /\ up'[1] = Append(up[1], <<"offer", p>>)
    BY <2>1, TheSocket DEF CallIInv, UpTyped, UpMessage
  <2>3. OnWire(up'[1], <<"connect">>) <=> OnWire(up[1], <<"connect">>)
    BY <2>2, Appended, MessagesDiffer
  <2>4. QED
    BY <2>1, <2>3, NothingSeen DEF Line, Called, InCall, HungUp
<1>3. QED
  BY <1>1, <1>2

\* A socket that opens has nothing of a call on its wires.
LEMMA OpenShowsNothing ==
    ASSUME SiftIInv, CallIInv, Open(1)
    PROVE  CallKept
<1>1. /\ state = "authenticating" /\ sock = 1 /\ UNCHANGED <<state, down, peer>>
      /\ ws[1] = "CONNECTING" /\ ws'[1] = "OPEN" /\ up' = [up EXCEPT ![1] = Append(@, <<"auth">>)]
  BY TheSocket DEF Open, CallIInv, OneSocket, sift, SiftIInv, TypeOK
<1>2. up[1] \in Seq(UpMessage) /\ <<"auth">> \in UpMessage /\ up'[1] = Append(up[1], <<"auth">>)
  BY <1>1, TheSocket DEF CallIInv, UpTyped, UpMessage
<1>3. OnWire(up'[1], <<"connect">>) <=> OnWire(up[1], <<"connect">>)
  BY <1>2, Appended, MessagesDiffer
<1>4. QED
  BY <1>1, <1>3, NothingSeen DEF Line, Called, InCall, HungUp

\* A message that is no hangup is taken, and the machine stays connected or not.
LEMMA TakenUnseen ==
    ASSUME SiftIInv, NEW m, Delivers(1, m), m # <<"hangup">>, UNCHANGED <<ws, up>>,
           (state' = "connected") <=> (state = "connected")
    PROVE  CallKept
<1>1. peer' = peer /\ (OnWire(down'[1], <<"hangup">>) <=> OnWire(down[1], <<"hangup">>))
  BY OneLess
<1>2. QED
  BY <1>1, NothingSeen DEF Line, Called, InCall, HungUp

\* The machine is told of the end.
LEMMA HangupTells ==
    ASSUME SiftIInv, CallIInv, OnHangup(1)
    PROVE  CallNext \/ CallKept
<1>1. /\ Delivers(1, <<"hangup">>) /\ UNCHANGED <<ws, up>> /\ state' # "connected"
  BY DEF OnHangup, AfterHangup
<1>2. /\ peer' = peer /\ ws[1] \in {"OPEN", "CLOSING"} /\ OnWire(down[1], <<"hangup">>)
      /\ AtMostOne(down[1], <<"hangup">>) => ~OnWire(down'[1], <<"hangup">>)
  BY <1>1, OneLess
<1>3. CASE ws[1] = "CLOSING"
  BY <1>1, <1>3, LineIsLost DEF Line
<1>4. CASE ws[1] = "OPEN"
  <2>1. Line /\ Line' /\ ~OnWire(down'[1], <<"hangup">>)
    BY <1>1, <1>2, <1>4, LineIsOpen DEF Line
  <2>2. QED
    BY <1>1, <1>2, <2>1 DEF CallNext, Call!Next, Call!Tell
<1>5. QED
  BY <1>2, <1>3, <1>4

\* A reset loses the line.
LEMMA ResetLoses ==
    ASSUME SiftIInv, CallIInv, OnReset(1)
    PROVE  CallNext \/ CallKept
<1>1. Delivers(1, <<"reset">>) /\ ws[1] \in {"OPEN", "CLOSING"}
  BY OneLess DEF OnReset
<1>2. CASE ws[1] = "OPEN"
  <2>1. sock = 1 /\ CanSend
    BY <1>2, LineIsOpen, TheSocket DEF CanSend
  <2>2. Drop
    BY <2>1 DEF OnReset, Reset
  <2>3. ws'[1] = "CLOSING"
    BY <1>2, <2>1, <2>2, TheSocket DEF Drop, AfterClose
  <2>4. QED
    BY <2>3, LineIsLost DEF Line
<1>3. CASE ws[1] = "CLOSING"
  <2>1. ws'[1] = "CLOSING"
    BY <1>3, TheSocket DEF OnReset, Reset, Drop, AfterClose
  <2>2. QED
    BY <2>1, LineIsLost DEF Line
<1>4. QED
  BY <1>1, <1>2, <1>3

\* Gridspace takes a message: only a connect is seen.
LEMMA ServerPicksUp ==
    ASSUME SiftIInv, CallIInv, ServerTakes(1)
    PROVE  CallNext \/ CallKept
<1>1. /\ UNCHANGED <<state, sock, ws>> /\ ws[1] # "CLOSED"
      /\ ws[1] \notin {"NEW", "CONNECTING"} /\ Head(up[1]) \in UpMessage
      /\ OnWire(up[1], <<"connect">>)
           <=> OnWire(up'[1], <<"connect">>) \/ Head(up[1]) = <<"connect">>
      /\ AtMostOne(up[1], <<"connect">>) /\ Head(up[1]) = <<"connect">>
           => ~OnWire(up'[1], <<"connect">>)
      /\ \A x : Head(up[1]) = x => OnWire(up[1], x)
  BY OneLessUp DEF ServerTakes, sift
<1>2. CASE ~Line
  BY <1>1, <1>2, LineIsLost DEF Line
<1>3. CASE Line
  <2>0. ws[1] = "OPEN" /\ Line'
    BY <1>1, <1>3, TheSocket DEF Line, SiftIInv, TypeOK
  <2>1. CASE Head(up[1]) = <<"connect">>
    <3>1. /\ down' = down
          /\ peer' = [peer EXCEPT ![1] = IF @ = "accepted" THEN "in call" ELSE @]
      <4>1. <<"connect">>[1] # "offer" /\ <<"connect">> # <<"ringanswer", FALSE>>
        OBVIOUS
      <4>2. QED
        BY <2>1, <4>1, MessagesDiffer DEF ServerTakes
    <3>2. Called /\ state = "connected" /\ ~OnWire(up'[1], <<"connect">>)
      BY <1>1, <2>0, <2>1, LineIsOpen DEF Called
    <3>3. Accepted /\ ~InCall
      BY <2>0, <3>2, LineIsOpen DEF CallIInv, OneAuth, Authenticated
    <3>4. peer'[1] = "in call"
      BY <3>1, <3>3, TheSocket DEF Accepted, InCall, SiftIInv, TypeOK
    <3>5. QED
      BY <1>1, <1>3, <2>0, <3>1, <3>2, <3>4
         DEF CallNext, Call!Next, Call!PickUp, Called
  <2>2. CASE Head(up[1]) # <<"connect">>
    <3>1. Head(up[1]) # <<"hangup">>
      BY <1>1, <2>0, LineIsOpen, TheSocket DEF CallIInv, OneCall
    <3>2. (InCall' <=> InCall) /\ (HungUp' <=> HungUp)
      <4>1. CASE Head(up[1]) = <<"auth">>
        <5>1. PICK ok \in BOOLEAN :
                 /\ peer' = [peer EXCEPT ![1] = IF ok THEN "accepted" ELSE "refused"]
                 /\ down' = [down EXCEPT ![1] = Append(@, <<"auth", IF ok THEN "OK" ELSE "failed">>)]
          <6>1. <<"auth">>[1] # "offer" /\ \A x : <<"auth">> # <<"ringanswer", x>>
            OBVIOUS
          <6>2. QED
            BY <4>1, <6>1, MessagesDiffer DEF ServerTakes
        <5> DEFINE reply == <<"auth", IF ok THEN "OK" ELSE "failed">>
        <5>2. reply \in {<<"auth", "OK">>, <<"auth", "failed">>}
          OBVIOUS
        <5>3. /\ down[1] \in Seq(DownMessage) /\ reply \in DownMessage /\ down'[1] = Append(down[1], reply)
              /\ ~InCall'
          BY <5>1, <5>2, TheSocket DEF SiftIInv, TypeOK, DownMessage, InCall
        <5> HIDE DEF reply
        <5>4. OnWire(down'[1], <<"hangup">>) <=> OnWire(down[1], <<"hangup">>)
          <6>1. reply # <<"hangup">>
            BY <5>2, MessagesDiffer
          <6>2. QED
            BY <5>3, <6>1, Appended
        <5>5. peer[1] = "new"
          BY <1>1, <4>1 DEF CallIInv, OneAuth
        <5>6. QED
          BY <5>3, <5>4, <5>5 DEF InCall, HungUp
      <4>2. CASE \E p \in Peers : Head(up[1]) = <<"offer", p>>
        <5>1. PICK p \in Peers : Head(up[1]) = <<"offer", p>>
          BY <4>2
        <5>2. <<"offer", p>>[1] = "offer" /\ <<"offer", p>> # <<"ringanswer", TRUE>>
          OBVIOUS
        <5>3. UNCHANGED <<peer, down>>
          BY <5>1, <5>2, MessagesDiffer DEF ServerTakes
        <5>4. QED
          BY <5>3 DEF InCall, HungUp
      <4>3. QED
        BY <1>1, <2>2, <3>1, <4>1, <4>2 DEF UpMessage
    <3>3. QED
      BY <1>1, <2>0, <2>2, <3>2, <1>3, NothingSeen DEF Called
  <2>3. QED
    BY <2>1, <2>2
<1>4. QED
  BY <1>2, <1>3

\* Gridspace sends a message: only a hangup is seen, and it ends the call.
LEMMA ServerEnds ==
    ASSUME SiftIInv, CallIInv, NEW type \in Sends, NEW m \in Messages(type), ServerSends(1, m)
    PROVE  CallNext \/ CallKept
<1>1. UNCHANGED <<state, sock, ws, up>> /\ ws[1] \in {"OPEN", "CLOSING"}
  BY DEF ServerSends, sift
<1>2. down[1] \in Seq(DownMessage) /\ m \in DownMessage /\ down'[1] = Append(down[1], m)
  BY TheSocket DEF ServerSends, SiftIInv, DownMessage
<1>3. OnWire(down'[1], <<"hangup">>) <=> OnWire(down[1], <<"hangup">>) \/ m = <<"hangup">>
  BY <1>2, Appended
<1>4. CASE ~Line
  BY <1>1, <1>4, LineIsLost DEF Line
<1>5. CASE Line /\ m = <<"hangup">>
  <2>1. InCall /\ peer' = [peer EXCEPT ![1] = "accepted"]
    BY <1>5 DEF ServerSends, InCall
  <2>2. peer'[1] = "accepted" /\ ~HungUp
    BY <1>1, <1>5, <2>1, TheSocket, LineIsOpen DEF SiftIInv, TypeOK, Line
  <2>3. Line'
    BY <1>1, <1>5 DEF Line
  <2>4. QED
    BY <1>1, <1>3, <1>5, <2>1, <2>2, <2>3 DEF CallNext, Call!Next, Call!End, InCall, HungUp
<1>6. CASE Line /\ m # <<"hangup">>
  <2>1. peer' = peer
    BY <1>6 DEF ServerSends
  <2>2. QED
    BY <1>1, <1>3, <1>6, <2>1, NothingSeen DEF Line, Called, InCall, HungUp
<1>7. QED
  BY <1>4, <1>5, <1>6

\* Every step of Sift is a step of CallOfTwo, or is not seen.
LEMMA CallSteps ==
    ASSUME SiftIInv, CallIInv, [Next]_vars
    PROVE  CallNext \/ CallKept
<1>1. CASE UNCHANGED vars
  BY <1>1, NothingSeen DEF vars, sift, Line, Called, InCall, HungUp
<1>2. CASE App
  <2>1. ~hangUp /\ ~reset /\ ~answer /\ ~decline
    BY BridgeAssumption DEF hangUp, reset, answer, decline
  <2>2. connect \/ Authenticate(1) \/ \E p \in Peers : forwardOffer(p)
    BY <1>2, <2>1, TheSocket DEF App
  <2>3. QED
    BY <2>2, ConnectAsks, OthersAskNothing
<1>3. CASE SocketEvent(1)
  <2>1. ASSUME NEW m, OnProxied(1, m) PROVE CallKept
    <3>1. /\ Delivers(1, m) /\ m[1] \in {"offer", "answer", "candidate"} /\ UNCHANGED <<state, ws, up>>
      BY <2>1 DEF OnProxied, Description
    <3>2. m # <<"hangup">>
      BY <3>1
    <3>3. QED
      BY <3>1, <3>2, TakenUnseen
  <2>2. CASE OnPing(1)
    <3>1. Delivers(1, <<"ping">>) /\ <<"ping">> # <<"hangup">> /\ UNCHANGED <<state, ws, up>>
      BY <2>2 DEF OnPing
    <3>2. QED
      BY <3>1, TakenUnseen
  <2>3. CASE OnRing(1)
    <3>1. Delivers(1, <<"ring">>) /\ <<"ring">> # <<"hangup">> /\ UNCHANGED <<ws, up>>
      BY <2>3 DEF OnRing
    <3>2. (state' = "connected") <=> (state = "connected")
      BY <2>3 DEF OnRing
    <3>3. QED
      BY <3>1, <3>2, TakenUnseen
  <2>4. ASSUME NEW m, OnAuth(1, m) PROVE CallKept
    <3>1. Delivers(1, m) /\ m # <<"hangup">> /\ UNCHANGED <<ws, up>>
      BY <2>4, MessagesDiffer DEF OnAuth
    <3>2. (state' = "connected") <=> (state = "connected")
      BY <2>4 DEF OnAuth, OnRefused
    <3>3. QED
      BY <3>1, <3>2, TakenUnseen
  <2>5. CASE Closed(1)
    <3>1. ws'[1] = "CLOSED"
      BY <2>5, TheSocket DEF Closed, SiftIInv, TypeOK
    <3>2. QED
      BY <3>1, LineIsLost DEF Line
  <2>6. QED
    BY <1>3, <2>1, <2>2, <2>3, <2>4, <2>5, OpenShowsNothing, HangupTells, ResetLoses
       DEF SocketEvent
<1>4. QED
  BY <1>1, <1>2, <1>3, ServerPicksUp, ServerEnds, TheSocket DEF Next, Server

\* The bridge and Gridspace make of every call what CallOfTwo says: it is asked for when
\* nothing is left of the one before, taken up, ended and told of once each, and no hangup
\* of one call ends the next, until the socket is lost.
THEOREM BridgeImplementsCall == BridgeSpec => ImplementsCall
<1>1. BridgeInit => Call!Init
  <2>1. SUFFICES ASSUME BridgeInit PROVE Call!Init
    OBVIOUS
  <2>2. /\ state = "uninitialized" /\ ws[1] = "NEW" /\ peer[1] = "new"
        /\ up[1] = <<>> /\ down[1] = <<>>
    BY <2>1, TheSocket DEF BridgeInit, Init
  <2>3. QED
    BY <2>2, Cleared DEF Call!Init, Call!Nothing, Line
<1>2. ASSUME BridgeIInv, [BridgeNext]_bridgeVars
      PROVE  [Call!Next]_(Call!callVars)
  <2>1. SiftIInv /\ CallIInv /\ FeedTyped
    BY <1>2 DEF BridgeIInv
  <2>2. [Next]_vars \/ Dies
    BY <1>2, <2>1, BridgeUsesSift DEF bridgeVars
  <2>3. CASE Dies
    BY <2>3, NothingSeen DEF Dies, Line, Called, InCall, HungUp, CallKept
  <2>4. QED
    BY <2>1, <2>2, <2>3, CallSteps DEF CallNext, CallKept
<1>3. QED
  BY <1>1, <1>2, AlwaysBridged, PTL DEF BridgeSpec, ImplementsCall, Call!Spec

-----------------------------------------------------------------------------
\* A step of Sift that ends the process takes an offer of Gridspace, or a ping that has no
\* socket to be answered on.
LEMMA SiftKills ==
    ASSUME SiftIInv, CallIInv, [Next]_vars, alive, ~alive'
    PROVE  (\E p \in Peers : Received(<<"offer", p>>)) \/ (Received(<<"ping">>) /\ sock = null)
<1>1. ~App /\ ~UNCHANGED vars
  BY DEF App, connect, hangUp, reset, answer, decline, Authenticate, forwardOffer, sift, vars
<1>2. ~Server(1)
  BY DEF Server, ServerTakes, ServerSends, sift
<1>3. SocketEvent(1)
  BY <1>1, <1>2, TheSocket DEF Next
<1>4. ~Open(1) /\ ~Closed(1) /\ ~OnRing(1) /\ ~OnHangup(1) /\ \A m : ~OnAuth(1, m)
  BY DEF Open, Closed, OnRing, OnHangup, OnAuth, sift
<1>5. ~OnReset(1)
  <2>1. SUFFICES ASSUME OnReset(1) PROVE FALSE
    OBVIOUS
  <2>2. Delivers(1, <<"reset">>) /\ \E thrown \in BOOLEAN : Reset(thrown) /\ alive' = ~thrown
    BY <2>1 DEF OnReset
  <2>3. ~CanSend /\ state = "connected"
    BY <2>2 DEF Reset
  <2>4. 1 = sock
    BY <2>3 DEF CallIInv, OneSocket
  <2>5. QED
    BY <2>2, <2>3, <2>4, CurrentCanSend, TheSocket
<1>6. CASE OnPing(1)
  <2>1. Delivers(1, <<"ping">>) /\ ~CanSend
    BY <1>6 DEF OnPing, Pongs
  <2>2. sock # 1
    BY <2>1, CurrentCanSend, TheSocket
  <2>3. sock = null
    BY <2>2, TheSocket DEF SiftIInv, TypeOK
  <2>4. Received(<<"ping">>)
    BY <2>1, TheSocket DEF Delivers, Received, SiftIInv
  <2>5. QED
    BY <2>3, <2>4
<1>7. ASSUME NEW type \in {"offer", "answer", "candidate"}, NEW m \in Messages(type), OnProxied(1, m)
      PROVE  \E p \in Peers : Received(<<"offer", p>>)
  <2>1. /\ Delivers(1, m) /\ m[1] \in {"offer", "answer", "candidate"}
        /\ alive' = (m[1] # "offer" /\ proxied)
    BY <1>7 DEF OnProxied, Description
  <2>2. Head(down[1]) = m /\ OnWire(down[1], m) /\ m \in DownMessage
    <3>1. down[1] \in Seq(DownMessage) /\ down[1] # <<>>
      BY <2>1, TheSocket DEF Delivers, SiftIInv
    <3>2. Head(down[1]) \in DownMessage
      BY <3>1
    <3>3. QED
      BY <2>1, <3>2, OneLess
  <2>3. m[1] # "offer" => proxied
    BY <2>1, <2>2 DEF CallIInv, Proxied
  <2>4. m[1] = "offer"
    BY <2>1, <2>2, <2>3
  <2>5. \E p \in Peers : m = <<"offer", p>>
    BY <2>4 DEF Messages, Description
  <2>6. Received(m)
    BY <2>1, TheSocket DEF Delivers, Received, SiftIInv
  <2>7. QED
    BY <2>5, <2>6
<1>8. QED
  BY <1>3, <1>4, <1>5, <1>6, <1>7 DEF SocketEvent, Description

\* What ends the bridge: an error of the session's socket, an event that announces a stream
\* when there can be no other call, an offer of a subscriber when Gridspace's socket is gone,
\* an SDP offer of Gridspace, and a ping of a socket that a reset has dropped. Nothing else
\* does: no snapshot, no answer and no candidate, whose callbacks are there before Gridspace
\* can know of a call, and no reset and no ping of a socket it still has.
THEOREM WhatEndsTheBridge == BridgeSpec => DeathsOfTheBridge
<1> DEFINE Cause == \/ OnSessionError
                    \/ Announced("created") /\ (state # "authenticated" \/ ~CanSend)
                    \/ Announced("offer") /\ ~CanSend
                    \/ \E p \in Peers : Received(<<"offer", p>>)
                    \/ Received(<<"ping">>) /\ sock = null
<1>1. ASSUME BridgeIInv, [BridgeNext]_bridgeVars
      PROVE  [~alive' => Cause]_bridgeVars
  <2>1. SUFFICES ASSUME BridgeNext, ~alive'
                 PROVE  Cause
    BY <1>1
  <2>2. FeedTyped /\ SiftIInv /\ CallIInv
    BY <1>1 DEF BridgeIInv
  <2>3. CASE Dies
    BY <2>2, <2>3 DEF Dies, MayConnect, SiftIInv, TokenIffInitialized
  <2>4. CASE [Next]_vars
    <3>1. alive
      BY <2>1 DEF BridgeNext
    <3>2. QED
      BY <2>1, <2>2, <2>4, <3>1, SiftKills
  <2>5. QED
    BY <2>1, <2>2, <2>3, <2>4, BridgeUsesSift
<1>2. QED
  BY <1>1, AlwaysBridged, PTL DEF BridgeSpec, DeathsOfTheBridge
=============================================================================
