----------------------------- MODULE VoipProofs -----------------------------
(******************************************************************************)
(* The browser's call client, for any number of sockets and calls.            *)
(*                                                                            *)
(* SessionTyped: every variable and every message on a wire stays in its      *)
(* type. The other invariants are proved on top of it.                        *)
(*                                                                            *)
(* AuthenticatedMeansAccepted: a token goes up a socket once, before anything *)
(* else, so at most one reply comes down, and it says what the server decided *)
(* (AuthOnce). Only the current socket can be opening, and while it is the    *)
(* session is authenticating; so a reply that is under way then comes from    *)
(* the current socket (AuthIInv).                                             *)
(*                                                                            *)
(* CallsLeaveNothing: while a microphone is asked for, its call is the only   *)
(* one, has no stream and negotiates nothing (QuietWhileAsking), so it can    *)
(* neither connect nor end before the answer comes, unless it is reset.       *)
(*                                                                            *)
(* MuteIsHeeded: nobody has silenced a microphone that was not given yet      *)
(* (MuteSafe).                                                                *)
(******************************************************************************)
EXTENDS VoipSession, SequenceTheorems, TLAPS

UpMessage == {<<"auth">>, <<"connect">>, <<"hangup">>}
             \cup ({"ringanswer"} \X BOOLEAN) \cup ({"desc"} \X Pcs)
DownMessage == ({"auth"} \X BOOLEAN) \cup ({"desc"} \X Pcs)
               \cup {<<"ring">>, <<"hangup">>, <<"transfer">>, <<"reset">>}

WiresOK ==
    /\ up \in [Sockets -> Seq(UpMessage)]
    /\ down \in [Sockets -> Seq(DownMessage)]

Typed == TypeOK /\ WiresOK

-----------------------------------------------------------------------------
LEMMA PcsArePositive == \A k \in Pcs : k \in Nat /\ k # null
  BY VoipAssumption DEF Pcs, null

LEMMA SocketsArePositive == \A s \in Sockets : s \in Nat /\ s # null
  BY VoipAssumption DEF Sockets, null

\* What happens to a wire keeps it one.
LEMMA WireKinds ==
    ASSUME NEW S, NEW q \in Seq(S), NEW m \in S
    PROVE  /\ Append(q, m) \in Seq(S)
           /\ <<>> \in Seq(S)
           /\ q # <<>> => Tail(q) \in Seq(S)
  OBVIOUS

LEMMA WiresTaken ==
    ASSUME NEW S, NEW f \in [Sockets -> Seq(S)], NEW s \in Sockets, f[s] # <<>>
    PROVE  /\ [f EXCEPT ![s] = Tail(@)] \in [Sockets -> Seq(S)]
           /\ Head(f[s]) \in S
<1>1. f[s] \in Seq(S)
  OBVIOUS
<1>2. Tail(f[s]) \in Seq(S) /\ Head(f[s]) \in S
  BY <1>1
<1>3. QED
  BY <1>2

LEMMA WiresGrown ==
    ASSUME NEW S, NEW f \in [Sockets -> Seq(S)], NEW s \in Sockets, NEW m \in S
    PROVE  [f EXCEPT ![s] = Append(@, m)] \in [Sockets -> Seq(S)]
<1>1. f[s] \in Seq(S)
  OBVIOUS
<1>2. Append(f[s], m) \in Seq(S)
  BY <1>1
<1>3. QED
  BY <1>2

LEMMA UpMessages ==
    /\ <<"auth">> \in UpMessage /\ <<"connect">> \in UpMessage /\ <<"hangup">> \in UpMessage
    /\ <<"ringanswer", TRUE>> \in UpMessage /\ <<"ringanswer", FALSE>> \in UpMessage
    /\ \A k \in Pcs : <<"desc", k>> \in UpMessage
  BY DEF UpMessage

LEMMA DownMessages ==
    /\ \A ok \in BOOLEAN : <<"auth", ok>> \in DownMessage
    /\ <<"ring">> \in DownMessage /\ <<"hangup">> \in DownMessage
    /\ <<"transfer">> \in DownMessage /\ <<"reset">> \in DownMessage
    /\ \A k \in Pcs : <<"desc", k>> \in DownMessage
  BY DEF DownMessage

LEMMA SentIsWire ==
    ASSUME Typed, NEW m \in UpMessage
    PROVE  Sent(m) \in [Sockets -> Seq(UpMessage)]
  BY WireKinds DEF Typed, TypeOK, WiresOK, Sent

\* Each change of a connection keeps it one.
LEMMA ConnectionKinds ==
    ASSUME NEW c \in Connection
    PROVE  /\ NewPc \in Connection /\ ClosedPc \in Connection
           /\ [c EXCEPT !.needed = TRUE] \in Connection
           /\ [c EXCEPT !.needed = FALSE] \in Connection
           /\ [c EXCEPT !.signaling = "have-local-offer"] \in Connection
           /\ [c EXCEPT !.remote = "there"] \in Connection
           /\ \A r \in {"none", "coming", "there"} :
                [c EXCEPT !.signaling = "stable", !.remote = r] \in Connection
           /\ \A b \in BOOLEAN : [c EXCEPT !.at = "open", !.needed = b] \in Connection
  BY DEF Connection, NewPc, ClosedPc

LEMMA NegotiationKinds ==
    ASSUME NEW c \in Negotiation
    PROVE  /\ Idle \in Negotiation
           /\ [c EXCEPT !.step = "setting"] \in Negotiation
           /\ \A k \in Pcs : [step |-> "creating", of |-> k] \in Negotiation
  BY DEF Negotiation, Idle

-----------------------------------------------------------------------------
MediaTyped ==
    /\ pc \in Pcs \cup {null} /\ local \in Pcs \cup {null}
    /\ pcs \in [Pcs -> Connection] /\ chain \in [Pcs -> Negotiation]
    /\ asking \subseteq Pcs /\ live \subseteq Pcs /\ silenced \subseteq Pcs
    /\ spoilt \subseteq {"abort", "transfer", "late"}

SocketsTyped ==
    /\ state \in {"uninitialized", "authenticating", "authenticated", "ringing",
                 "connecting", "connected"}
    /\ token \in BOOLEAN /\ muted \in BOOLEAN
    /\ sock \in Sockets \cup {null}
    /\ ws \in [Sockets -> {"NEW", "CONNECTING", "ABORTED", "OPEN", "CLOSING", "CLOSED"}]
    /\ peer \in [Sockets -> {"new", "accepted", "refused", "in call"}]
    /\ WiresOK

LEMMA TypedIsBoth == Typed <=> MediaTyped /\ SocketsTyped
  BY DEF Typed, TypeOK, MediaTyped, SocketsTyped

LEMMA DisconnectTyped ==
    ASSUME MediaTyped, _disconnect
    PROVE  /\ pc' = null /\ local' = null
           /\ pcs' \in [Pcs -> Connection] /\ live' \subseteq Pcs
  BY ConnectionKinds DEF MediaTyped, _disconnect

LEMMA ConnectTyped ==
    ASSUME MediaTyped, NEW given \in BOOLEAN, NEW conns \in [Pcs -> Connection],
           _connect(given, conns)
    PROVE  /\ pc' \in Pcs /\ local' \in Pcs \cup {null}
           /\ pcs' \in [Pcs -> Connection] /\ chain' = chain
           /\ asking' \subseteq Pcs /\ live' \subseteq Pcs
<1>1. PICK k \in Pcs :
        LET stream == IF given THEN k ELSE local IN
        /\ conns[k].at = "new"
        /\ pc' = k
        /\ pcs' = [conns EXCEPT ![k] = [@ EXCEPT !.at = "open", !.needed = stream # null]]
        /\ local' = stream
        /\ live' = IF given THEN live \cup {k} ELSE live
        /\ asking' = IF stream = null THEN asking \cup {k} ELSE asking
        /\ UNCHANGED chain
  BY DEF _connect
<1>2. [conns[k] EXCEPT !.at = "open", !.needed = (IF given THEN k ELSE local) # null] \in Connection
  BY ConnectionKinds
<1>3. QED
  BY <1>1, <1>2 DEF MediaTyped

\* Of the steps that touch them, the connections and microphones keep their types.
LEMMA MediaStaysTyped ==
    ASSUME Typed, [Next]_vars
    PROVE  MediaTyped'
<1> USE DEF Typed
<1>0. MediaTyped
  BY TypedIsBoth
<1>a. CASE UNCHANGED <<media, spoilt>>
  BY <1>0, <1>a DEF media, MediaTyped
<1>1. CASE hangUp \/ \E s \in Sockets : Fails(s) \/ OnHangup(s)
  BY <1>0, <1>1, DisconnectTyped DEF hangUp, Fails, OnHangup, MediaTyped, sift, sockets
<1>2. CASE reset \/ \E s \in Sockets : OnReset(s)
  <2>1. PICK wire : Reset(wire)
    BY <1>2 DEF reset, OnReset
  <2>2. QED
    BY <1>0, <2>1, DisconnectTyped DEF Reset, MediaTyped
<1>3. ASSUME NEW given \in BOOLEAN, connect(given) PROVE MediaTyped'
  BY <1>0, <1>3, ConnectTyped DEF connect, MediaTyped, Muted
<1>4. CASE answer
  BY <1>0, <1>4, ConnectTyped DEF answer, MediaTyped
<1>5. ASSUME NEW m \in BOOLEAN, setMuted(m) PROVE MediaTyped'
  BY <1>0, <1>5 DEF setMuted, MediaTyped, Silenced, sockets
<1>6. ASSUME NEW s \in Sockets, NEW k \in Pcs, OnDesc(s, k) PROVE MediaTyped'
  <2>1. CASE UNCHANGED pcs
    BY <1>0, <1>6, <2>1 DEF OnDesc, MediaTyped, sift
  <2>2. CASE /\ pc # null
             /\ pcs' = [pcs EXCEPT ![pc].signaling = "stable",
                                   ![pc].remote = IF @ = "none" THEN "coming" ELSE @]
    <3>1. pc \in Pcs /\ pcs[pc] \in Connection
      BY <1>0, <2>2 DEF MediaTyped
    <3>2. (IF pcs[pc].remote = "none" THEN "coming" ELSE pcs[pc].remote)
             \in {"none", "coming", "there"}
      BY <3>1 DEF Connection
    <3>3. pcs' = [pcs EXCEPT ![pc] = [pcs[pc] EXCEPT !.signaling = "stable",
               !.remote = IF pcs[pc].remote = "none" THEN "coming" ELSE pcs[pc].remote]]
      BY <1>0, <2>2, <3>1 DEF MediaTyped, Connection
    <3>4. pcs' \in [Pcs -> Connection]
      BY <1>0, <3>1, <3>2, <3>3, ConnectionKinds DEF MediaTyped
    <3>5. QED
      BY <1>0, <1>6, <3>4 DEF OnDesc, MediaTyped, sift
  <2>3. QED
    BY <1>6, <2>1, <2>2 DEF OnDesc
<1>7. ASSUME NEW s \in Sockets, OnTransfer(s) PROVE MediaTyped'
  <2>1. WithoutPc \in [Pcs -> Connection]
    BY <1>0, ConnectionKinds DEF WithoutPc, MediaTyped
  <2>2. QED
    BY <1>0, <1>7, <2>1, ConnectTyped DEF OnTransfer, MediaTyped, sift
<1>8. ASSUME NEW k \in Pcs, MediaGranted(k) PROVE MediaTyped'
  <2>1. [j \in Pcs |-> IF j = pc THEN [pcs[j] EXCEPT !.needed = TRUE] ELSE pcs[j]]
           \in [Pcs -> Connection]
    BY <1>0, ConnectionKinds DEF MediaTyped
  <2>2. QED
    BY <1>0, <1>8, <2>1 DEF MediaGranted, MediaTyped, Muted
<1>9. ASSUME NEW k \in Pcs, NegotiationNeeded(k) PROVE MediaTyped'
  <2>1. pcs' \in [Pcs -> Connection]
    BY <1>0, <1>9, ConnectionKinds DEF NegotiationNeeded, MediaTyped
  <2>2. chain' \in [Pcs -> Negotiation]
    BY <1>0, <1>9, NegotiationKinds DEF NegotiationNeeded, MediaTyped
  <2>3. QED
    BY <1>0, <1>9, <2>1, <2>2 DEF NegotiationNeeded, MediaTyped
<1>10. ASSUME NEW k \in Pcs, OfferCreated(k) \/ OfferFails(k) PROVE MediaTyped'
  <2>1. chain[k] \in Negotiation /\ [chain[k] EXCEPT !.step = "setting"] \in Negotiation
          /\ Idle \in Negotiation
    BY <1>0, NegotiationKinds DEF MediaTyped
  <2>3. chain' \in [Pcs -> Negotiation]
    BY <1>0, <1>10, <2>1 DEF OfferCreated, OfferFails, MediaTyped
  <2>2. QED
    BY <1>0, <1>10, <2>3 DEF OfferCreated, OfferFails, MediaTyped
<1>11. ASSUME NEW k \in Pcs, OfferSet(k) PROVE MediaTyped'
  <2>1. chain' \in [Pcs -> Negotiation]
    BY <1>0, <1>11, NegotiationKinds DEF OfferSet, MediaTyped
  <2>2. pcs' \in [Pcs -> Connection]
    BY <1>0, <1>11, ConnectionKinds DEF OfferSet, MediaTyped
  <2>3. QED
    BY <1>0, <1>11, <2>1, <2>2 DEF OfferSet, MediaTyped
<1>12. ASSUME NEW k \in Pcs, OnAddStream(k) PROVE MediaTyped'
  <2>1. CASE state = "connecting"
    <3>1. [pcs[k] EXCEPT !.remote = "there"] \in Connection
      BY <1>0, ConnectionKinds DEF MediaTyped
    <3>3. pcs' \in [Pcs -> Connection]
      BY <1>0, <1>12, <2>1, <3>1 DEF OnAddStream, MediaTyped
    <3>2. QED
      BY <1>0, <1>12, <2>1, <3>3 DEF OnAddStream, MediaTyped
  <2>2. CASE state # "connecting"
    BY <1>0, <1>12, <2>2, DisconnectTyped DEF OnAddStream, MediaTyped
  <2>3. QED
    BY <2>1, <2>2
<1>13. ASSUME NEW k \in Pcs, MediaRefused(k) PROVE MediaTyped'
  BY <1>0, <1>13 DEF MediaRefused, MediaTyped
<1>14. ASSUME NEW s \in Sockets,
              authenticate(s) \/ Open(s) \/ Closes(s) \/ OnRing(s)
              \/ (\E ok \in BOOLEAN : OnAuth(s, ok)) \/ Server(s)
       PROVE  MediaTyped'
  BY <1>14, <1>a DEF authenticate, Open, Closes, OnRing, OnAuth, Server, ServerTakes, ServerSends
<1>15. CASE decline
  BY <1>15, <1>a DEF decline
<1>16. QED
  BY <1>a, <1>1, <1>2, <1>3, <1>4, <1>5, <1>6, <1>7, <1>8, <1>9, <1>10, <1>11, <1>12, <1>13,
     <1>14, <1>15
     DEF Next, App, SocketEvent, MediaEvent, vars

-----------------------------------------------------------------------------
\* A step that writes to no socket.
LEMMA QuietTyped ==
    ASSUME SocketsTyped, UNCHANGED sockets,
           state' \in {"uninitialized", "authenticating", "authenticated", "ringing",
                       "connecting", "connected"},
           token' \in BOOLEAN, muted' \in BOOLEAN, sock' \in Sockets \cup {null}
    PROVE  SocketsTyped'
  BY DEF SocketsTyped, sockets, WiresOK

LEMMA DeliveredTyped ==
    ASSUME SocketsTyped, NEW s \in Sockets, NEW m, Delivers(s, m)
    PROVE  down' \in [Sockets -> Seq(DownMessage)]
  BY WiresTaken DEF SocketsTyped, WiresOK, Delivers, Takes

LEMMA SocketsStayTyped ==
    ASSUME Typed, [Next]_vars
    PROVE  SocketsTyped'
<1>0. SocketsTyped
  BY TypedIsBoth
<1>s. \A m \in UpMessage : Sent(m) \in [Sockets -> Seq(UpMessage)]
  BY SentIsWire
<1>a. CASE UNCHANGED <<sift, sockets>>
  BY <1>0, <1>a, QuietTyped DEF sift, SocketsTyped
<1>1. ASSUME NEW s \in Sockets, authenticate(s) PROVE SocketsTyped'
  BY <1>0, <1>1 DEF authenticate, SocketsTyped, WiresOK
<1>2. CASE \E given \in BOOLEAN : connect(given)
  BY <1>0, <1>2, <1>s, UpMessages DEF connect, SocketsTyped, WiresOK
<1>3. CASE hangUp
  BY <1>0, <1>3, <1>s, UpMessages DEF hangUp, SocketsTyped, WiresOK
<1>4. CASE answer
  BY <1>0, <1>4, <1>s, UpMessages DEF answer, SocketsTyped, WiresOK
<1>5. CASE decline
  BY <1>0, <1>5, <1>s, UpMessages DEF decline, SocketsTyped, WiresOK
<1>6. ASSUME NEW wire \in [Sockets -> Seq(DownMessage)], Reset(wire) PROVE SocketsTyped'
  <2>1. \A s \in Sockets : AfterClose(ws[s]) \in {"NEW", "CONNECTING", "ABORTED", "OPEN", "CLOSING", "CLOSED"}
    BY <1>0 DEF AfterClose, SocketsTyped
  <2>2. <<>> \in Seq(UpMessage) /\ <<>> \in Seq(DownMessage)
    OBVIOUS
  <2>3. QED
    BY <1>0, <1>6, <2>1, <2>2 DEF Reset, SocketsTyped, WiresOK
<1>7. ASSUME NEW s \in Sockets, OnReset(s) PROVE SocketsTyped'
  <2>1. [down EXCEPT ![s] = Tail(@)] \in [Sockets -> Seq(DownMessage)]
    BY <1>0, <1>7, WiresTaken DEF OnReset, Takes, SocketsTyped, WiresOK
  <2>2. QED
    BY <1>6, <1>7, <2>1 DEF OnReset
<1>8. CASE reset
  BY <1>0, <1>6, <1>8 DEF reset, SocketsTyped, WiresOK
<1>9. ASSUME NEW m \in BOOLEAN, setMuted(m) PROVE SocketsTyped'
  BY <1>0, <1>9, QuietTyped DEF setMuted, SocketsTyped
<1>10. ASSUME NEW s \in Sockets, Open(s) PROVE SocketsTyped'
  <2>1. <<"auth">> \in UpMessage
    BY UpMessages
  <2>2. up' \in [Sockets -> Seq(UpMessage)]
    BY <1>0, <1>10, <2>1, WireKinds DEF Open, SocketsTyped, WiresOK
  <2>3. QED
    BY <1>0, <1>10, <2>2 DEF Open, SocketsTyped, WiresOK, sift
<1>11. ASSUME NEW s \in Sockets, Fails(s) \/ Closes(s) PROVE SocketsTyped'
  <2>1. <<>> \in Seq(UpMessage) /\ <<>> \in Seq(DownMessage)
    OBVIOUS
  <2>2. /\ ws' = [ws EXCEPT ![s] = "CLOSED"]
        /\ up' = [up EXCEPT ![s] = <<>>] /\ down' = [down EXCEPT ![s] = <<>>]
        /\ UNCHANGED <<state, token, sock, muted, peer>>
    BY <1>11 DEF Fails, Closes, sift
  <2>3. WiresOK'
    BY <1>0, <2>1, <2>2 DEF SocketsTyped, WiresOK
  <2>4. QED
    BY <1>0, <2>2, <2>3 DEF SocketsTyped
<1>12. ASSUME NEW s \in Sockets,
              (\E ok \in BOOLEAN : OnAuth(s, ok)) \/ OnRing(s) \/ OnHangup(s) \/ OnTransfer(s)
              \/ (\E k \in Pcs : OnDesc(s, k))
       PROVE  SocketsTyped'
  <2>1. down' \in [Sockets -> Seq(DownMessage)]
    BY <1>0, <1>12, DeliveredTyped DEF OnAuth, OnRing, OnHangup, OnTransfer, OnDesc
  <2>2. /\ UNCHANGED <<sock, muted, ws, up, peer>> /\ token' \in BOOLEAN
        /\ state' \in {"uninitialized", "authenticating", "authenticated", "ringing",
                        "connecting", "connected"}
    BY <1>0, <1>12 DEF OnAuth, OnRefused, OnRing, OnHangup, OnTransfer, OnDesc, SocketsTyped, sift
  <2>3. QED
    BY <1>0, <2>1, <2>2 DEF SocketsTyped, WiresOK
<1>13. ASSUME NEW k \in Pcs,
              MediaGranted(k) \/ MediaRefused(k) \/ NegotiationNeeded(k) \/ OfferCreated(k)
              \/ OfferFails(k)
       PROVE  SocketsTyped'
  BY <1>13, <1>a DEF MediaGranted, MediaRefused, NegotiationNeeded, OfferCreated, OfferFails
<1>14. ASSUME NEW k \in Pcs, OfferSet(k) PROVE SocketsTyped'
  <2>1. pc # null => Sent(<<"desc", pc>>) \in [Sockets -> Seq(UpMessage)]
    BY <1>s, UpMessages DEF Typed, TypeOK
  <2>2. QED
    BY <1>0, <1>14, <2>1 DEF OfferSet, SocketsTyped, WiresOK, sift
<1>15. ASSUME NEW k \in Pcs, OnAddStream(k) PROVE SocketsTyped'
  BY <1>0, <1>15, QuietTyped DEF OnAddStream, SocketsTyped
<1>16. ASSUME NEW s \in Sockets, ServerTakes(s) PROVE SocketsTyped'
  <2>1. up' \in [Sockets -> Seq(UpMessage)] /\ Head(up[s]) \in UpMessage
    BY <1>0, <1>16, WiresTaken DEF ServerTakes, SocketsTyped, WiresOK
  <2>2. Head(up[s])[1] = "desc" => Head(up[s]) \in DownMessage
    BY <2>1 DEF UpMessage, DownMessage
  <2>3. down' \in [Sockets -> Seq(DownMessage)]
    <3>1. CASE \E ok \in BOOLEAN : down' = [down EXCEPT ![s] = Append(@, <<"auth", ok>>)]
      <4>1. PICK ok \in BOOLEAN : down' = [down EXCEPT ![s] = Append(@, <<"auth", ok>>)]
        BY <3>1
      <4>2. <<"auth", ok>> \in DownMessage
        BY DownMessages
      <4>3. QED
        BY <1>0, <4>1, <4>2, WiresGrown DEF SocketsTyped, WiresOK
    <3>2. CASE UNCHANGED down
      BY <1>0, <3>2 DEF SocketsTyped, WiresOK
    <3>3. CASE Head(up[s])[1] = "desc" /\ down' = [down EXCEPT ![s] = Append(@, Head(up[s]))]
      BY <1>0, <2>2, <3>3, WireKinds DEF SocketsTyped, WiresOK
    <3>4. QED
      BY <1>16, <3>1, <3>2, <3>3 DEF ServerTakes
  <2>4. peer' \in [Sockets -> {"new", "accepted", "refused", "in call"}]
    BY <1>0, <1>16 DEF ServerTakes, SocketsTyped
  <2>5. QED
    BY <1>0, <1>16, <2>1, <2>3, <2>4 DEF ServerTakes, SocketsTyped, WiresOK, sift
<1>17. ASSUME NEW s \in Sockets, NEW type \in {"ring", "hangup", "transfer", "reset"},
              ServerSends(s, type)
       PROVE  SocketsTyped'
  <2>1. <<type>> \in DownMessage
    BY DownMessages
  <2>2. down' \in [Sockets -> Seq(DownMessage)]
    BY <1>0, <1>17, <2>1, WireKinds DEF ServerSends, SocketsTyped, WiresOK
  <2>3. QED
    BY <1>0, <1>17, <2>2 DEF ServerSends, SocketsTyped, WiresOK, sift
<1>18. QED
  BY <1>a, <1>1, <1>2, <1>3, <1>4, <1>5, <1>7, <1>8, <1>9, <1>10, <1>11, <1>12, <1>13, <1>14,
     <1>15, <1>16, <1>17
     DEF Next, App, SocketEvent, MediaEvent, Server, vars

LEMMA InitTyped == Init => Typed
<1>1. <<>> \in Seq(UpMessage) /\ <<>> \in Seq(DownMessage)
  OBVIOUS
<1>2. NewPc \in Connection /\ Idle \in Negotiation
  BY DEF NewPc, Idle, Connection, Negotiation
<1>3. Init => WiresOK
  BY <1>1 DEF Init, WiresOK
<1>4. Init => MediaTyped
  BY <1>2 DEF Init, MediaTyped
<1>5. Init => SocketsTyped
  <2>1. ASSUME NEW S, NEW x \in S PROVE [s \in Sockets |-> x] \in [Sockets -> S]
    OBVIOUS
  <2>2. Init => /\ ws \in [Sockets -> {"NEW", "CONNECTING", "ABORTED", "OPEN", "CLOSING", "CLOSED"}]
                /\ peer \in [Sockets -> {"new", "accepted", "refused", "in call"}]
    BY <2>1 DEF Init
  <2>3. Init => sock = null /\ state = "uninitialized" /\ token = FALSE /\ muted = FALSE
    BY DEF Init
  <2>4. QED
    BY <1>3, <2>2, <2>3 DEF SocketsTyped
<1>6. QED
  BY <1>4, <1>5, TypedIsBoth

LEMMA TypedStays == Typed /\ [Next]_vars => Typed'
<1>1. SUFFICES ASSUME Typed, [Next]_vars PROVE Typed'
  OBVIOUS
<1>2. MediaTyped' /\ SocketsTyped'
  BY <1>1, MediaStaysTyped, SocketsStayTyped
<1>3. QED
  BY <1>2 DEF Typed, TypeOK, MediaTyped, SocketsTyped

\* The types of every variable, for any number of sockets and calls: no error is ever
\* stored as a state, and whatever is current is null or exists.
THEOREM SessionTyped == Spec => []TypeOK
<1>1. Typed => TypeOK
  BY DEF Typed
<1>2. QED
  BY <1>1, InitTyped, TypedStays, PTL DEF Spec

-----------------------------------------------------------------------------
Past == {"authenticated", "ringing", "connecting", "connected"}
Accepted == {"accepted", "in call"}

IsAuth(m) == m[1] = "auth"
NoAuth(q) == \A i \in 1..Len(q) : ~IsAuth(q[i])

\* Of a socket with the wires u and d and the server's view p: it sends its token once,
\* and first; the server replies once, and has accepted if it says so.
AuthOnce(u, d, p) ==
    /\ \A i \in 2..Len(u) : ~IsAuth(u[i])
    /\ \A i \in 1..Len(d) : IsAuth(d[i]) =>
          /\ NoAuth(u)
          /\ \A j \in 1..Len(d) : IsAuth(d[j]) => j = i
          /\ d[i] = <<"auth", TRUE>> => p \in Accepted

AuthsOnce == \A s \in Sockets : AuthOnce(up[s], down[s], peer[s])
Unopened == \A s \in Sockets : ws[s] \in {"NEW", "CONNECTING"} => up[s] = <<>> /\ down[s] = <<>>
OpeningIsCurrent == \A s \in Sockets : ws[s] = "CONNECTING" => s = sock /\ state = "authenticating"
NoStaleAuth ==
    \A s \in Sockets : s # sock \/ state # "authenticating" => NoAuth(up[s]) /\ NoAuth(down[s])

AuthIInv ==
    /\ Typed
    /\ AuthsOnce /\ Unopened /\ OpeningIsCurrent /\ NoStaleAuth
    /\ AuthenticatedIsAccepted

LEMMA NothingUnderWay ==
    ASSUME NEW p PROVE NoAuth(<<>>) /\ AuthOnce(<<>>, <<>>, p)
  BY DEF NoAuth, AuthOnce

LEMMA ClientSends ==
    ASSUME NEW u \in Seq(UpMessage), NEW d \in Seq(DownMessage), NEW p, AuthOnce(u, d, p),
           NEW m \in UpMessage, ~IsAuth(m)
    PROVE  /\ AuthOnce(Append(u, m), d, p)
           /\ NoAuth(u) => NoAuth(Append(u, m))
<1>1. /\ Len(Append(u, m)) = Len(u) + 1 /\ Len(u) \in Nat
      /\ \A i \in 1..Len(u) : Append(u, m)[i] = u[i]
      /\ Append(u, m)[Len(u) + 1] = m
  OBVIOUS
<1>2. NoAuth(u) => NoAuth(Append(u, m))
  BY <1>1 DEF NoAuth
<1>3. \A i \in 2..Len(Append(u, m)) : ~IsAuth(Append(u, m)[i])
  BY <1>1 DEF AuthOnce
<1>4. QED
  BY <1>2, <1>3 DEF AuthOnce

LEMMA ClientTakes ==
    ASSUME NEW u \in Seq(UpMessage), NEW d \in Seq(DownMessage), NEW p, AuthOnce(u, d, p),
           d # <<>>
    PROVE  /\ AuthOnce(u, Tail(d), p)
           /\ NoAuth(d) => NoAuth(Tail(d)) /\ ~IsAuth(Head(d))
           /\ IsAuth(Head(d)) => /\ NoAuth(u) /\ NoAuth(Tail(d))
                                 /\ Head(d) = <<"auth", TRUE>> => p \in Accepted
<1>1. /\ Len(Tail(d)) = Len(d) - 1 /\ Len(d) \in Nat /\ 1 \in 1..Len(d) /\ Head(d) = d[1]
      /\ \A i \in 1..Len(Tail(d)) : Tail(d)[i] = d[i + 1] /\ i + 1 \in 1..Len(d)
  OBVIOUS
<1>2. NoAuth(d) => NoAuth(Tail(d)) /\ ~IsAuth(Head(d))
  BY <1>1 DEF NoAuth
<1>3. IsAuth(Head(d)) => /\ NoAuth(u) /\ NoAuth(Tail(d))
                         /\ Head(d) = <<"auth", TRUE>> => p \in Accepted
  <2>1. SUFFICES ASSUME IsAuth(d[1])
                 PROVE  /\ NoAuth(u) /\ NoAuth(Tail(d))
                        /\ d[1] = <<"auth", TRUE>> => p \in Accepted
    BY <1>1
  <2>2. /\ NoAuth(u)
        /\ d[1] = <<"auth", TRUE>> => p \in Accepted
        /\ \A j \in 1..Len(d) : IsAuth(d[j]) => j = 1
    BY <1>1, <2>1 DEF AuthOnce
  <2>3. \A i \in 1..Len(Tail(d)) : i + 1 # 1
    OBVIOUS
  <2>4. QED
    BY <1>1, <2>2, <2>3 DEF NoAuth
<1>4. \A i \in 1..Len(Tail(d)) : IsAuth(Tail(d)[i]) =>
          /\ NoAuth(u)
          /\ \A j \in 1..Len(Tail(d)) : IsAuth(Tail(d)[j]) => j = i
          /\ Tail(d)[i] = <<"auth", TRUE>> => p \in Accepted
  <2>1. SUFFICES ASSUME NEW i \in 1..Len(Tail(d)), IsAuth(Tail(d)[i])
                 PROVE  /\ NoAuth(u)
                        /\ \A j \in 1..Len(Tail(d)) : IsAuth(Tail(d)[j]) => j = i
                        /\ Tail(d)[i] = <<"auth", TRUE>> => p \in Accepted
    OBVIOUS
  <2>2. i + 1 \in 1..Len(d) /\ IsAuth(d[i + 1]) /\ Tail(d)[i] = d[i + 1]
    BY <1>1, <2>1
  <2>3. /\ NoAuth(u)
        /\ \A j \in 1..Len(d) : IsAuth(d[j]) => j = i + 1
        /\ d[i + 1] = <<"auth", TRUE>> => p \in Accepted
    BY <2>2 DEF AuthOnce
  <2>4. \A j \in 1..Len(Tail(d)) : IsAuth(Tail(d)[j]) => j + 1 = i + 1
    BY <1>1, <2>3
  <2>5. \A j \in 1..Len(Tail(d)) : j + 1 = i + 1 => j = i
    OBVIOUS
  <2>6. QED
    BY <2>2, <2>3, <2>4, <2>5
<1>5. QED
  BY <1>2, <1>3, <1>4 DEF AuthOnce

LEMMA ServerSaysMore ==
    ASSUME NEW u \in Seq(UpMessage), NEW d \in Seq(DownMessage), NEW p, AuthOnce(u, d, p),
           NEW m \in DownMessage, ~IsAuth(m)
    PROVE  /\ AuthOnce(u, Append(d, m), p)
           /\ NoAuth(d) => NoAuth(Append(d, m))
<1>1. /\ Len(Append(d, m)) = Len(d) + 1 /\ Len(d) \in Nat
      /\ \A i \in 1..Len(d) : Append(d, m)[i] = d[i]
      /\ Append(d, m)[Len(d) + 1] = m
  OBVIOUS
<1>2. \A i \in 1..Len(Append(d, m)) : IsAuth(Append(d, m)[i]) => i \in 1..Len(d)
  BY <1>1
<1>3. QED
  BY <1>1, <1>2 DEF AuthOnce, NoAuth

LEMMA ServerReads ==
    ASSUME NEW u \in Seq(UpMessage), NEW d \in Seq(DownMessage), NEW p, AuthOnce(u, d, p),
           u # <<>>
    PROVE  /\ AuthOnce(Tail(u), d, p) /\ NoAuth(Tail(u))
           /\ NoAuth(u) => ~IsAuth(Head(u))
           /\ IsAuth(Head(u)) => NoAuth(d)
<1>1. /\ Len(Tail(u)) = Len(u) - 1 /\ Len(u) \in Nat /\ 1 \in 1..Len(u) /\ Head(u) = u[1]
      /\ \A i \in 1..Len(Tail(u)) : Tail(u)[i] = u[i + 1] /\ i + 1 \in 2..Len(u)
  OBVIOUS
<1>2. NoAuth(Tail(u))
  BY <1>1 DEF AuthOnce, NoAuth
<1>3. \A i \in 2..Len(Tail(u)) : ~IsAuth(Tail(u)[i])
  BY <1>1, <1>2 DEF NoAuth
<1>4. QED
  BY <1>1, <1>2, <1>3 DEF AuthOnce, NoAuth

LEMMA ServerReplies ==
    ASSUME NEW u \in Seq(UpMessage), NEW d \in Seq(DownMessage), NoAuth(u), NoAuth(d),
           NEW ok \in BOOLEAN, NEW p, ok => p \in Accepted
    PROVE  AuthOnce(u, Append(d, <<"auth", ok>>), p)
<1>1. /\ <<"auth", ok>> \in DownMessage /\ Len(d) \in Nat /\ Len(u) \in Nat
      /\ <<"auth", ok>> = <<"auth", TRUE>> => p \in Accepted
  <2>1. <<"auth", ok>> \in DownMessage
    BY DownMessages
  <2>2. <<"auth", ok>> = <<"auth", TRUE>> => <<"auth", ok>>[2] = TRUE
    BY SMT
  <2>3. <<"auth", ok>>[2] = TRUE => ok
    BY SMT
  <2>4. QED
    <3>1. Len(d) \in Nat /\ Len(u) \in Nat
      OBVIOUS
    <3>2. <<"auth", ok>> = <<"auth", TRUE>> => p \in Accepted
      BY <2>2, <2>3, Zenon
    <3>3. QED
      BY <2>1, <3>1, <3>2, Zenon
<1>2. /\ Len(Append(d, <<"auth", ok>>)) = Len(d) + 1
      /\ \A i \in 1..Len(d) : Append(d, <<"auth", ok>>)[i] = d[i]
      /\ Append(d, <<"auth", ok>>)[Len(d) + 1] = <<"auth", ok>>
  BY <1>1
<1>3. \A i \in 1..Len(Append(d, <<"auth", ok>>)) :
         IsAuth(Append(d, <<"auth", ok>>)[i]) => i = Len(d) + 1
  BY <1>2 DEF NoAuth
<1>4. \A i \in 2..Len(u) : ~IsAuth(u[i])
  BY <1>1 DEF NoAuth
<1>5. QED
  BY <1>1, <1>2, <1>3, <1>4 DEF AuthOnce

-----------------------------------------------------------------------------
AuthSafe ==
    AuthsOnce /\ Unopened /\ OpeningIsCurrent /\ NoStaleAuth /\ AuthenticatedIsAccepted

\* The step keeps the socket, and the state, or moves between states of which none
\* waits for a token's reply and none follows it for the first time.
StateMoves ==
    /\ sock' = sock
    /\ state' = state \/ /\ state # "authenticating" /\ state' # "authenticating"
                         /\ state' \in Past => state \in Past

LEMMA QuietIsSafe ==
    ASSUME AuthIInv, UNCHANGED sockets, StateMoves
    PROVE  AuthSafe'
  BY DEF AuthIInv, AuthSafe, sockets, StateMoves, AuthsOnce, Unopened, OpeningIsCurrent,
         NoStaleAuth, AuthenticatedIsAccepted, Past

LEMMA WiresTyped ==
    ASSUME Typed
    PROVE  \A s \in Sockets : up[s] \in Seq(UpMessage) /\ down[s] \in Seq(DownMessage)
  BY DEF Typed, WiresOK

LEMMA SendIsSafe ==
    ASSUME AuthIInv, NEW m \in UpMessage, ~IsAuth(m), up' = Sent(m),
           UNCHANGED <<ws, down, peer>>, StateMoves
    PROVE  AuthSafe'
<1>1. CASE up' = up
  BY <1>1, QuietIsSafe DEF sockets
<1>2. CASE sock # null /\ ws[sock] = "OPEN" /\ up' = [up EXCEPT ![sock] = Append(@, m)]
  <2>1. sock \in Sockets /\ up \in [Sockets -> Seq(UpMessage)]
    BY <1>2 DEF AuthIInv, Typed, TypeOK, WiresOK
  <2>2. \A s \in Sockets : AuthOnce(up'[s], down[s], peer[s]) /\ (NoAuth(up[s]) => NoAuth(up'[s]))
    <3>1. SUFFICES ASSUME NEW s \in Sockets
                   PROVE  AuthOnce(up'[s], down[s], peer[s]) /\ (NoAuth(up[s]) => NoAuth(up'[s]))
      OBVIOUS
    <3>2. AuthOnce(up[s], down[s], peer[s])
      BY DEF AuthIInv, AuthsOnce
    <3>3. CASE s = sock
      <4>1. up'[s] = Append(up[s], m)
        BY <1>2, <2>1, <3>3
      <4>2. QED
        BY <3>2, <4>1, ClientSends, WiresTyped DEF AuthIInv
    <3>4. CASE s # sock
      BY <1>2, <2>1, <3>2, <3>4
    <3>5. QED
      BY <3>3, <3>4
  <2>3. AuthsOnce' /\ NoStaleAuth'
    BY <2>2 DEF AuthIInv, AuthsOnce, NoStaleAuth, StateMoves
  <2>4. Unopened' /\ OpeningIsCurrent' /\ AuthenticatedIsAccepted'
    BY <1>2, <2>1 DEF AuthIInv, Unopened, OpeningIsCurrent, AuthenticatedIsAccepted, StateMoves, Past
  <2>5. QED
    BY <2>3, <2>4 DEF AuthSafe
<1>3. QED
  BY <1>1, <1>2 DEF Sent

\* What delivering a message does to the wires.
LEMMA DeliveryOnWires ==
    ASSUME AuthIInv, NEW s \in Sockets, NEW m, Takes(s, m)
    PROVE  LET d == [down EXCEPT ![s] = Tail(@)] IN
           /\ \A r \in Sockets : /\ AuthOnce(up[r], d[r], peer[r])
                                 /\ NoAuth(down[r]) => NoAuth(d[r])
                                 /\ down[r] = <<>> => d[r] = <<>>
           /\ IsAuth(m) => /\ s = sock /\ state = "authenticating"
                           /\ NoAuth(up[s]) /\ NoAuth(d[s])
                           /\ m = <<"auth", TRUE>> => peer[s] \in Accepted
<1> DEFINE d == [down EXCEPT ![s] = Tail(@)]
<1>1. /\ down[s] # <<>> /\ m = Head(down[s]) /\ AuthOnce(up[s], down[s], peer[s])
      /\ up[s] \in Seq(UpMessage) /\ down[s] \in Seq(DownMessage)
  BY WiresTyped DEF Takes, AuthIInv, AuthsOnce
<1>2. d[s] = Tail(down[s]) /\ \A r \in Sockets : r # s => d[r] = down[r]
  BY DEF AuthIInv, Typed, WiresOK
<1>3. /\ AuthOnce(up[s], d[s], peer[s])
      /\ NoAuth(down[s]) => NoAuth(d[s]) /\ ~IsAuth(m)
      /\ IsAuth(m) => /\ NoAuth(up[s]) /\ NoAuth(d[s])
                      /\ m = <<"auth", TRUE>> => peer[s] \in Accepted
  BY <1>1, <1>2, ClientTakes
<1>4. IsAuth(m) => s = sock /\ state = "authenticating"
  BY <1>3 DEF AuthIInv, NoStaleAuth
<1>5. \A r \in Sockets : /\ AuthOnce(up[r], d[r], peer[r])
                         /\ NoAuth(down[r]) => NoAuth(d[r])
                         /\ down[r] = <<>> => d[r] = <<>>
  BY <1>1, <1>2, <1>3 DEF AuthIInv, AuthsOnce
<1>6. QED
  BY <1>3, <1>4, <1>5

LEMMA DeliveryIsSafe ==
    ASSUME AuthIInv, NEW s \in Sockets, NEW m, Delivers(s, m), UNCHANGED <<ws, up, peer>>,
           StateMoves
    PROVE  AuthSafe'
<1>1. \A r \in Sockets : /\ AuthOnce(up[r], down'[r], peer[r])
                         /\ NoAuth(down[r]) => NoAuth(down'[r])
                         /\ down[r] = <<>> => down'[r] = <<>>
  BY DeliveryOnWires DEF Delivers
<1>2. AuthsOnce' /\ NoStaleAuth' /\ Unopened'
  BY <1>1 DEF AuthIInv, AuthsOnce, NoStaleAuth, StateMoves, Unopened
<1>3. OpeningIsCurrent' /\ AuthenticatedIsAccepted'
  BY DEF AuthIInv, OpeningIsCurrent, AuthenticatedIsAccepted, StateMoves, Past
<1>4. QED
  BY <1>2, <1>3 DEF AuthSafe

LEMMA ResetIsSafe ==
    ASSUME AuthIInv, NEW wire \in [Sockets -> Seq(DownMessage)], Reset(wire),
           \A r \in Sockets : /\ AuthOnce(up[r], wire[r], peer[r])
                              /\ NoAuth(down[r]) => NoAuth(wire[r])
                              /\ down[r] = <<>> => wire[r] = <<>>
    PROVE  AuthSafe'
<1>1. /\ state' = "uninitialized" /\ peer' = peer
      /\ \A s \in Sockets : s # sock => ws'[s] = ws[s] /\ up'[s] = up[s] /\ down'[s] = wire[s]
      /\ \A s \in Sockets : s = sock => ws'[s] = AfterClose(ws[s]) /\ up'[s] = <<>> /\ down'[s] = <<>>
  BY DEF Reset
<1>2. \A s \in Sockets : AfterClose(ws[s]) # "CONNECTING"
  BY DEF AfterClose
<1>3. \A s \in Sockets : s # sock => NoAuth(up[s]) /\ NoAuth(down[s]) /\ ws[s] # "CONNECTING"
  BY DEF AuthIInv, NoStaleAuth, OpeningIsCurrent
<1>4. AuthsOnce' /\ NoStaleAuth'
  BY <1>1, <1>3, NothingUnderWay DEF AuthsOnce, NoStaleAuth
<1>5. Unopened' /\ OpeningIsCurrent' /\ AuthenticatedIsAccepted'
  BY <1>1, <1>2, <1>3 DEF AuthIInv, Unopened, OpeningIsCurrent, AuthenticatedIsAccepted
<1>6. QED
  BY <1>4, <1>5 DEF AuthSafe

LEMMA AuthStaysSafe ==
    ASSUME AuthIInv, [Next]_vars
    PROVE  AuthSafe'
<1>0. /\ SocketsTyped
      /\ \A s \in Sockets : up[s] \in Seq(UpMessage) /\ down[s] \in Seq(DownMessage)
      /\ AuthsOnce /\ Unopened /\ OpeningIsCurrent /\ NoStaleAuth /\ AuthenticatedIsAccepted
  BY TypedIsBoth, WiresTyped DEF AuthIInv
<1>m. ~IsAuth(<<"connect">>) /\ ~IsAuth(<<"hangup">>) /\ ~IsAuth(<<"ringanswer", TRUE>>)
      /\ ~IsAuth(<<"ringanswer", FALSE>>) /\ \A k : ~IsAuth(<<"desc", k>>)
  BY DEF IsAuth
<1>a. CASE UNCHANGED <<sift, sockets>>
  BY <1>a, QuietIsSafe DEF sift, StateMoves
<1>1. ASSUME NEW s \in Sockets, authenticate(s) PROVE AuthSafe'
  <2>1. /\ UNCHANGED <<up, down, peer>> /\ sock' = s /\ state' = "authenticating"
        /\ ws'[s] = "CONNECTING" /\ ws[s] = "NEW"
        /\ \A r \in Sockets : r # s => ws'[r] = ws[r]
        /\ \A r \in Sockets : NoAuth(up[r]) /\ NoAuth(down[r]) /\ ws[r] # "CONNECTING"
    BY <1>0, <1>1 DEF authenticate, NoStaleAuth, OpeningIsCurrent, SocketsTyped
  <2>2. QED
    BY <1>0, <2>1 DEF AuthSafe, AuthsOnce, Unopened, OpeningIsCurrent, NoStaleAuth, AuthenticatedIsAccepted
<1>2. ASSUME NEW given \in BOOLEAN, connect(given) PROVE AuthSafe'
  <2>1. StateMoves /\ up' = Sent(<<"connect">>) /\ UNCHANGED <<ws, down, peer>>
    BY <1>2 DEF connect, StateMoves, Past
  <2>2. QED
    BY <2>1, <1>m, SendIsSafe, UpMessages
<1>3. CASE hangUp
  <2>1. StateMoves /\ up' = Sent(<<"hangup">>) /\ UNCHANGED <<ws, down, peer>>
    BY <1>3 DEF hangUp, StateMoves, Past
  <2>2. QED
    BY <2>1, <1>m, SendIsSafe, UpMessages
<1>4. CASE answer
  <2>1. StateMoves /\ up' = Sent(<<"ringanswer", TRUE>>) /\ UNCHANGED <<ws, down, peer>>
    BY <1>4 DEF answer, StateMoves, Past
  <2>2. QED
    BY <2>1, <1>m, SendIsSafe, UpMessages
<1>5. CASE decline
  <2>1. StateMoves /\ up' = Sent(<<"ringanswer", FALSE>>) /\ UNCHANGED <<ws, down, peer>>
    BY <1>5 DEF decline, StateMoves, Past
  <2>2. QED
    BY <2>1, <1>m, SendIsSafe, UpMessages
<1>6. CASE reset
  BY <1>0, <1>6, ResetIsSafe DEF reset, AuthsOnce, SocketsTyped, WiresOK
<1>7. ASSUME NEW s \in Sockets, OnReset(s) PROVE AuthSafe'
  <2> DEFINE d == [down EXCEPT ![s] = Tail(@)]
  <2>1. Takes(s, <<"reset">>) /\ Reset(d)
    BY <1>7 DEF OnReset
  <2>2. d \in [Sockets -> Seq(DownMessage)]
    BY <1>0, <2>1, WiresTaken DEF Takes, SocketsTyped, WiresOK
  <2>3. \A r \in Sockets : /\ AuthOnce(up[r], d[r], peer[r])
                           /\ NoAuth(down[r]) => NoAuth(d[r])
                           /\ down[r] = <<>> => d[r] = <<>>
    BY <2>1, DeliveryOnWires
  <2> HIDE DEF d
  <2>4. QED
    BY <2>1, <2>2, <2>3, ResetIsSafe
<1>8. ASSUME NEW s \in Sockets, Open(s) PROVE AuthSafe'
  <2>1. /\ s = sock /\ state = "authenticating" /\ up[s] = <<>> /\ down[s] = <<>>
        /\ UNCHANGED <<sock, state, down, peer>>
        /\ up' = [up EXCEPT ![s] = Append(@, <<"auth">>)]
        /\ ws' = [ws EXCEPT ![s] = "OPEN"]
    BY <1>0, <1>8 DEF Open, Unopened, OpeningIsCurrent, sift
  <2>2. up'[s] = <<<<"auth">>>> /\ \A r \in Sockets : r # s => up'[r] = up[r] /\ ws'[r] = ws[r]
    <3>1. up'[s] = Append(<<>>, <<"auth">>) /\ \A r \in Sockets : r # s => up'[r] = up[r] /\ ws'[r] = ws[r]
      BY <1>0, <2>1 DEF SocketsTyped, WiresOK
    <3>2. Append(<<>>, <<"auth">>) = <<<<"auth">>>>
      OBVIOUS
    <3>3. QED
      BY <3>1, <3>2
  <2>3. AuthOnce(up'[s], down[s], peer[s])
    BY <2>1, <2>2 DEF AuthOnce
  <2>4. AuthsOnce' /\ NoStaleAuth'
    BY <1>0, <2>1, <2>2, <2>3 DEF AuthsOnce, NoStaleAuth
  <2>5. Unopened' /\ OpeningIsCurrent' /\ AuthenticatedIsAccepted'
    BY <1>0, <2>1, <2>2 DEF Unopened, OpeningIsCurrent, AuthenticatedIsAccepted, SocketsTyped
  <2>6. QED
    BY <2>4, <2>5 DEF AuthSafe
<1>9. ASSUME NEW s \in Sockets, Fails(s) \/ Closes(s) PROVE AuthSafe'
  <2>1. /\ UNCHANGED <<sock, state, peer>>
        /\ ws'[s] = "CLOSED" /\ up'[s] = <<>> /\ down'[s] = <<>>
        /\ \A r \in Sockets : r # s => up'[r] = up[r] /\ down'[r] = down[r] /\ ws'[r] = ws[r]
    BY <1>0, <1>9 DEF Fails, Closes, sift, SocketsTyped, WiresOK
  <2>2. AuthsOnce' /\ NoStaleAuth'
    BY <1>0, <2>1, NothingUnderWay DEF AuthsOnce, NoStaleAuth
  <2>3. Unopened' /\ OpeningIsCurrent' /\ AuthenticatedIsAccepted'
    BY <1>0, <2>1 DEF Unopened, OpeningIsCurrent, AuthenticatedIsAccepted, SocketsTyped
  <2>4. QED
    BY <2>2, <2>3 DEF AuthSafe
<1>10. ASSUME NEW s \in Sockets, NEW ok \in BOOLEAN, OnAuth(s, ok) PROVE AuthSafe'
  <2> DEFINE d == [down EXCEPT ![s] = Tail(@)]
  <2>1. Takes(s, <<"auth", ok>>) /\ down' = d /\ UNCHANGED <<sock, ws, up, peer>>
    BY <1>10 DEF OnAuth, Delivers
  <2>2. IsAuth(<<"auth", ok>>)
    BY DEF IsAuth
  <2>3. /\ s = sock /\ state = "authenticating" /\ NoAuth(up[s]) /\ NoAuth(d[s])
        /\ <<"auth", ok>> = <<"auth", TRUE>> => peer[s] \in Accepted
    BY <2>1, <2>2, DeliveryOnWires
  <2>4. \A r \in Sockets : /\ AuthOnce(up[r], d[r], peer[r])
                           /\ NoAuth(down[r]) => NoAuth(d[r])
                           /\ down[r] = <<>> => d[r] = <<>>
    BY <2>1, DeliveryOnWires
  <2> HIDE DEF d
  <2>5. AuthsOnce' /\ Unopened'
    BY <1>0, <2>1, <2>4 DEF AuthsOnce, Unopened
  <2>6. NoStaleAuth'
    BY <1>0, <2>1, <2>3, <2>4 DEF NoStaleAuth
  <2>7. ws[s] = "OPEN"
    BY <2>1 DEF Takes
  <2>8. OpeningIsCurrent'
    BY <1>0, <2>1, <2>3, <2>7 DEF OpeningIsCurrent
  <2>9. AuthenticatedIsAccepted'
    <3>1. CASE ok
      <4>1. peer[s] \in Accepted
        BY <2>3, <3>1
      <4>2. QED
        BY <2>1, <2>3, <4>1, SocketsArePositive DEF AuthenticatedIsAccepted, Accepted
    <3>2. CASE ~ok
      BY <1>10, <2>3, <3>2 DEF OnAuth, OnRefused, AuthenticatedIsAccepted
    <3>3. QED
      BY <3>1, <3>2
  <2>10. QED
    BY <2>5, <2>6, <2>8, <2>9 DEF AuthSafe
<1>12. ASSUME NEW s \in Sockets,
              OnRing(s) \/ OnHangup(s) \/ OnTransfer(s) \/ (\E k \in Pcs : OnDesc(s, k))
       PROVE  AuthSafe'
  <2>1. (\E m : Delivers(s, m)) /\ UNCHANGED <<ws, up, peer>>
    BY <1>12 DEF OnRing, OnHangup, OnTransfer, OnDesc
  <2>2. StateMoves
    BY <1>12 DEF OnRing, OnHangup, OnTransfer, OnDesc, StateMoves, sift, Past
  <2>3. QED
    BY <2>1, <2>2, DeliveryIsSafe
<1>13. ASSUME NEW k \in Pcs,
              MediaGranted(k) \/ MediaRefused(k) \/ NegotiationNeeded(k) \/ OfferCreated(k)
              \/ OfferFails(k)
       PROVE  AuthSafe'
  BY <1>13, <1>a DEF MediaGranted, MediaRefused, NegotiationNeeded, OfferCreated, OfferFails
<1>14. ASSUME NEW k \in Pcs, OfferSet(k) PROVE AuthSafe'
  <2>1. CASE pc = null
    BY <1>14, <2>1, <1>a DEF OfferSet, sockets
  <2>2. CASE pc # null
    <3>1. /\ <<"desc", pc>> \in UpMessage /\ up' = Sent(<<"desc", pc>>)
          /\ StateMoves /\ UNCHANGED <<ws, down, peer>>
      BY <1>14, <2>2, UpMessages DEF OfferSet, StateMoves, sift, AuthIInv, Typed, TypeOK
    <3>2. QED
      BY <3>1, <1>m, SendIsSafe
  <2>3. QED
    BY <2>1, <2>2
<1>15. CASE (\E k \in Pcs : OnAddStream(k)) \/ (\E m \in BOOLEAN : setMuted(m))
  BY <1>15, QuietIsSafe DEF OnAddStream, setMuted, StateMoves, Past
<1>16. ASSUME NEW s \in Sockets, ServerTakes(s) PROVE AuthSafe'
  <2>1. up[s] # <<>> /\ up' = [up EXCEPT ![s] = Tail(@)] /\ UNCHANGED <<sift, ws>>
    BY <1>16 DEF ServerTakes
  <2>2. /\ AuthOnce(up[s], down[s], peer[s]) /\ up'[s] = Tail(up[s])
        /\ Head(up[s]) \in UpMessage /\ Tail(up[s]) \in Seq(UpMessage)
        /\ \A r \in Sockets : r # s => up'[r] = up[r] /\ down'[r] = down[r] /\ peer'[r] = peer[r]
    <3>1. /\ Head(up[s]) \in UpMessage /\ Tail(up[s]) \in Seq(UpMessage)
          /\ AuthOnce(up[s], down[s], peer[s])
      BY <1>0, <2>1 DEF AuthsOnce
    <3>2. up'[s] = Tail(up[s]) /\ \A r \in Sockets : r # s => up'[r] = up[r]
      BY <1>0, <2>1 DEF SocketsTyped, WiresOK
    <3>3. \A r \in Sockets : r # s => down'[r] = down[r] /\ peer'[r] = peer[r]
      BY <1>0, <1>16 DEF ServerTakes, SocketsTyped, WiresOK
    <3>4. QED
      BY <3>1, <3>2, <3>3
  <2>3. /\ AuthOnce(Tail(up[s]), down[s], peer[s]) /\ NoAuth(Tail(up[s]))
        /\ NoAuth(up[s]) => ~IsAuth(Head(up[s]))
        /\ IsAuth(Head(up[s])) => NoAuth(down[s])
    BY <1>0, <2>1, <2>2, ServerReads
  <2>4. ws[s] \notin {"NEW", "CONNECTING"}
    BY <1>0, <2>1 DEF Unopened
  <2>5. CASE \E ok \in BOOLEAN : /\ Head(up[s]) = <<"auth">>
                                /\ peer' = [peer EXCEPT ![s] = IF ok THEN "accepted" ELSE "refused"]
                                /\ down' = [down EXCEPT ![s] = Append(@, <<"auth", ok>>)]
    <3>1. PICK ok \in BOOLEAN : /\ peer'[s] = IF ok THEN "accepted" ELSE "refused"
                                /\ down'[s] = Append(down[s], <<"auth", ok>>)
      BY <1>0, <2>5 DEF SocketsTyped, WiresOK
    <3>2. IsAuth(Head(up[s])) /\ NoAuth(down[s])
      BY <2>3, <2>5 DEF IsAuth
    <3>3. s = sock /\ state = "authenticating"
      BY <1>0, <2>3, <3>2 DEF NoStaleAuth
    <3>4. ok => peer'[s] \in Accepted
      BY <3>1 DEF Accepted
    <3>5. AuthOnce(up'[s], down'[s], peer'[s])
      BY <1>0, <2>2, <2>3, <3>1, <3>2, <3>4, ServerReplies
    <3>6. AuthsOnce' /\ Unopened'
      BY <1>0, <2>1, <2>2, <2>4, <3>5 DEF AuthsOnce, Unopened
    <3>7. NoStaleAuth' /\ OpeningIsCurrent' /\ AuthenticatedIsAccepted'
      BY <1>0, <2>1, <2>2, <3>3 DEF NoStaleAuth, OpeningIsCurrent, AuthenticatedIsAccepted, sift
    <3>8. QED
      BY <3>6, <3>7 DEF AuthSafe
  <2>6. CASE /\ UNCHANGED down
             /\ \/ UNCHANGED peer
                \/ peer' = [peer EXCEPT ![s] = IF @ = "accepted" THEN "in call" ELSE @]
                \/ peer' = [peer EXCEPT ![s] = IF @ = "in call" THEN "accepted" ELSE @]
    <3>1. peer[s] \in Accepted => peer'[s] \in Accepted
      BY <1>0, <2>6 DEF Accepted, SocketsTyped
    <3>2. AuthOnce(Tail(up[s]), down[s], peer'[s])
      BY <2>3, <3>1 DEF AuthOnce
    <3>3. AuthsOnce' /\ Unopened'
      BY <1>0, <2>1, <2>2, <2>4, <2>6, <3>2 DEF AuthsOnce, Unopened
    <3>4. NoStaleAuth' /\ OpeningIsCurrent'
      BY <1>0, <2>1, <2>2, <2>3, <2>6 DEF NoStaleAuth, OpeningIsCurrent, sift
    <3>5. AuthenticatedIsAccepted'
      BY <1>0, <2>1, <2>2, <3>1 DEF AuthenticatedIsAccepted, Accepted, sift, SocketsTyped
    <3>6. QED
      BY <3>3, <3>4, <3>5 DEF AuthSafe
  <2>7. CASE /\ Head(up[s])[1] = "desc" /\ UNCHANGED peer
             /\ down' = [down EXCEPT ![s] = Append(@, Head(up[s]))]
    <3>1. Head(up[s]) \in DownMessage /\ ~IsAuth(Head(up[s]))
      BY <2>2, <2>7 DEF UpMessage, DownMessage, IsAuth
    <3>2. down'[s] = Append(down[s], Head(up[s]))
      BY <1>0, <2>7 DEF SocketsTyped, WiresOK
    <3>3. AuthOnce(Tail(up[s]), down'[s], peer[s]) /\ (NoAuth(down[s]) => NoAuth(down'[s]))
      BY <1>0, <2>2, <2>3, <3>1, <3>2, ServerSaysMore
    <3>4. AuthsOnce' /\ Unopened'
      BY <1>0, <2>1, <2>2, <2>4, <2>7, <3>3 DEF AuthsOnce, Unopened
    <3>5. NoStaleAuth' /\ OpeningIsCurrent' /\ AuthenticatedIsAccepted'
      BY <1>0, <2>1, <2>2, <2>3, <2>7, <3>3
         DEF NoStaleAuth, OpeningIsCurrent, AuthenticatedIsAccepted, sift
    <3>6. QED
      BY <3>4, <3>5 DEF AuthSafe
  <2>8. QED
    BY <1>16, <2>5, <2>6, <2>7 DEF ServerTakes
<1>17. ASSUME NEW s \in Sockets, NEW type \in {"ring", "hangup", "transfer", "reset"},
              ServerSends(s, type)
       PROVE  AuthSafe'
  <2>1. /\ ws[s] = "OPEN" /\ UNCHANGED <<sift, ws, up>>
        /\ down'[s] = Append(down[s], <<type>>)
        /\ \A r \in Sockets : r # s => down'[r] = down[r] /\ peer'[r] = peer[r]
        /\ peer'[s] # peer[s] => peer[s] \in Accepted /\ peer'[s] \in Accepted
    BY <1>0, <1>17 DEF ServerSends, SocketsTyped, WiresOK, Accepted
  <2>2. <<type>> \in DownMessage /\ ~IsAuth(<<type>>)
    BY DownMessages DEF IsAuth
  <2>3. AuthOnce(up[s], down'[s], peer[s]) /\ (NoAuth(down[s]) => NoAuth(down'[s]))
    BY <1>0, <2>1, <2>2, ServerSaysMore DEF AuthsOnce
  <2>4. AuthOnce(up[s], down'[s], peer'[s])
    BY <2>1, <2>3 DEF AuthOnce
  <2>5. AuthsOnce' /\ Unopened'
    BY <1>0, <2>1, <2>4 DEF AuthsOnce, Unopened
  <2>6. NoStaleAuth' /\ OpeningIsCurrent'
    BY <1>0, <2>1, <2>3 DEF NoStaleAuth, OpeningIsCurrent, sift
  <2>7. AuthenticatedIsAccepted'
    BY <1>0, <2>1 DEF AuthenticatedIsAccepted, Accepted, sift, SocketsTyped
  <2>8. QED
    BY <2>5, <2>6, <2>7 DEF AuthSafe
<1>18. QED
  BY <1>a, <1>1, <1>2, <1>3, <1>4, <1>5, <1>6, <1>7, <1>8, <1>9, <1>10, <1>12, <1>13, <1>14,
     <1>15, <1>16, <1>17
     DEF Next, App, SocketEvent, MediaEvent, Server, vars

\* Past authentication the server behind the current socket has accepted the token, for
\* any number of sockets: no auth reply is under way but to the current one.
THEOREM AuthenticatedMeansAccepted == Spec => []AuthenticatedIsAccepted
<1>1. Init => Typed
  BY InitTyped
<1>2. Init => AuthSafe
  BY NothingUnderWay
     DEF Init, AuthSafe, AuthsOnce, Unopened, OpeningIsCurrent, NoStaleAuth, AuthenticatedIsAccepted
<1>3. AuthIInv /\ [Next]_vars => AuthIInv'
  BY TypedStays, AuthStaysSafe DEF AuthIInv, AuthSafe
<1>4. AuthIInv => AuthenticatedIsAccepted
  BY DEF AuthIInv
<1>5. Init => AuthIInv
  BY <1>1, <1>2 DEF AuthIInv, AuthSafe
<1>6. QED
  BY <1>3, <1>4, <1>5, PTL DEF Spec

-----------------------------------------------------------------------------
\* A connection that was not made yet has seen nothing; a negotiation is of one that was.
NewAreNew == \A k \in Pcs : pcs[k].at = "new" => pcs[k] = NewPc
ChainsOfMade ==
    \A j \in Pcs : chain[j].step # "idle" => chain[j].of \in Pcs /\ pcs[chain[j].of].at # "new"
PcIsOpen == pc # null => pcs[pc].at = "open"

Clean == spoilt \subseteq {"late"}

\* While a microphone is asked for, the connection that waits for it does nothing else.
QuietWhileAsking ==
    asking # {} =>
        /\ state = "connecting" /\ local = null
        /\ \A j, k \in asking : j = k
        /\ pc # null => pcs[pc].remote = "none" /\ pcs[pc].signaling = "stable" /\ ~pcs[pc].needed
        /\ \A j \in Pcs : chain[j].step # "idle" => pcs[chain[j].of].at # "open"

NothingElse ==
    /\ \A k \in Pcs : pcs[k].at = "open" => k = pc
    /\ live \subseteq {local}
    /\ state \notin {"connecting", "connected"} => pc = null /\ live = {} /\ asking = {}

CallSafe ==
    /\ NewAreNew /\ ChainsOfMade /\ PcIsOpen
    /\ Clean => NothingElse /\ QuietWhileAsking

CallIInv == Typed /\ CallSafe

LEMMA DisconnectCloses ==
    ASSUME CallIInv, _disconnect, chain' = chain
    PROVE  /\ NewAreNew' /\ ChainsOfMade' /\ PcIsOpen'
           /\ \A k \in Pcs : pcs'[k].at = "open" => pcs[k].at = "open"
           /\ Clean => live' = {} /\ \A k \in Pcs : pcs'[k].at # "open"
<1>1. /\ pc' = null /\ live' = live \ {local}
      /\ \A k \in Pcs : pcs'[k] = IF k = pc THEN ClosedPc ELSE pcs[k]
  BY DEF _disconnect
<1>2. ClosedPc.at = "closed"
  BY DEF ClosedPc, NewPc
<1>3. QED
  BY <1>1, <1>2 DEF CallIInv, CallSafe, NewAreNew, ChainsOfMade, PcIsOpen, NothingElse

\* A call begins with one connection, and one microphone at most.
LEMMA ConnectOpens ==
    ASSUME Typed, NEW given \in BOOLEAN, NEW conns \in [Pcs -> Connection], _connect(given, conns),
           \A k \in Pcs : conns[k].at = "new" => conns[k] = NewPc,
           \A j \in Pcs : chain[j].step # "idle" => chain[j].of \in Pcs /\ conns[chain[j].of].at # "new"
    PROVE  /\ NewAreNew' /\ ChainsOfMade' /\ PcIsOpen' /\ pc' # null
           /\ (\A k \in Pcs : conns[k].at # "open") /\ live = {} /\ asking = {} =>
                /\ \A k \in Pcs : pcs'[k].at = "open" => k = pc'
                /\ live' \subseteq {local'}
                /\ asking' # {} =>
                     /\ local' = null /\ asking' = {pc'}
                     /\ pcs'[pc'].remote = "none" /\ pcs'[pc'].signaling = "stable"
                     /\ ~pcs'[pc'].needed
                     /\ \A j \in Pcs : chain'[j].step # "idle" => pcs'[chain'[j].of].at # "open"
<1>1. PICK k \in Pcs :
        LET stream == IF given THEN k ELSE local IN
        /\ conns[k].at = "new"
        /\ pc' = k
        /\ pcs' = [conns EXCEPT ![k] = [@ EXCEPT !.at = "open", !.needed = stream # null]]
        /\ local' = stream
        /\ live' = IF given THEN live \cup {k} ELSE live
        /\ asking' = IF stream = null THEN asking \cup {k} ELSE asking
        /\ UNCHANGED chain
  BY DEF _connect
<1>2. conns[k] = NewPc
  BY <1>1
<1>3. /\ pcs'[k].at = "open" /\ pcs'[k].remote = "none" /\ pcs'[k].signaling = "stable"
      /\ pcs'[k].needed = (local' # null)
  BY <1>1, <1>2 DEF NewPc
<1>4. \A j \in Pcs : j # k => pcs'[j] = conns[j]
  BY <1>1
<1>5. k # null /\ chain' = chain /\ pc' = k
  BY <1>1, PcsArePositive
<1>6. NewAreNew' /\ PcIsOpen'
  BY <1>3, <1>4, <1>5 DEF NewAreNew, PcIsOpen
<1>7. \A j \in Pcs : chain'[j].step # "idle" => chain'[j].of \in Pcs /\ chain'[j].of # k
                                              /\ pcs'[chain'[j].of] = conns[chain'[j].of]
  BY <1>1, <1>4, <1>5
<1>8. ChainsOfMade'
  BY <1>5, <1>7 DEF ChainsOfMade
<1>9. ASSUME \A j \in Pcs : conns[j].at # "open", live = {}, asking = {}
      PROVE  /\ \A j \in Pcs : pcs'[j].at = "open" => j = pc'
             /\ live' \subseteq {local'}
             /\ asking' # {} =>
                  /\ local' = null /\ asking' = {pc'}
                  /\ pcs'[pc'].remote = "none" /\ pcs'[pc'].signaling = "stable"
                  /\ ~pcs'[pc'].needed
                  /\ \A j \in Pcs : chain'[j].step # "idle" => pcs'[chain'[j].of].at # "open"
  <2>1. \A j \in Pcs : pcs'[j].at = "open" => j = pc'
    BY <1>4, <1>5, <1>9
  <2>2. live' \subseteq {local'}
    BY <1>1, <1>9
  <2>3. asking' # {} => local' = null /\ asking' = {pc'}
    BY <1>1, <1>9
  <2>4. local' = null => ~pcs'[pc'].needed
    BY <1>3, <1>5
  <2>5. \A j \in Pcs : chain'[j].step # "idle" => pcs'[chain'[j].of].at # "open"
    BY <1>7, <1>9
  <2>6. QED
    BY <1>3, <1>5, <2>1, <2>2, <2>3, <2>4, <2>5
<1>10. QED
  BY <1>5, <1>6, <1>8, <1>9

\* Steps that do not touch a call.
LEMMA NoCallTouched ==
    ASSUME CallIInv, UNCHANGED <<pc, local, pcs, chain, asking, live>>, Clean' => Clean,
           \/ state' = state
           \/ {state, state'} \cap {"connecting", "connected"} = {}
    PROVE  CallSafe'
  BY DEF CallIInv, CallSafe, NewAreNew, ChainsOfMade, PcIsOpen, NothingElse, QuietWhileAsking

LEMMA CallStaysSafe ==
    ASSUME CallIInv, [Next]_vars
    PROVE  CallSafe'
<1>0. /\ MediaTyped /\ NewAreNew /\ ChainsOfMade /\ PcIsOpen
      /\ Clean => NothingElse /\ QuietWhileAsking
  BY TypedIsBoth DEF CallIInv, CallSafe
<1>a. CASE UNCHANGED <<state, media, spoilt>>
  BY <1>a, NoCallTouched DEF media, Clean
<1>1. ASSUME NEW s \in Sockets,
             authenticate(s) \/ OnRing(s) \/ Open(s) \/ Closes(s) \/ Server(s)
             \/ (\E ok \in BOOLEAN : OnAuth(s, ok))
      PROVE  CallSafe'
  <2>1. UNCHANGED <<media, spoilt>>
    BY <1>1 DEF authenticate, OnRing, Open, Closes, Server, ServerTakes, ServerSends, OnAuth
  <2>2. \/ state' = state
        \/ {state, state'} \cap {"connecting", "connected"} = {}
    BY <1>1 DEF authenticate, OnRing, Open, Closes, Server, ServerTakes, ServerSends,
                OnAuth, OnRefused, sift
  <2>3. QED
    BY <2>1, <2>2, NoCallTouched DEF media, Clean
<1>2. CASE decline
  <2>1. UNCHANGED <<media, spoilt>> /\ {state, state'} \cap {"connecting", "connected"} = {}
    BY <1>2 DEF decline
  <2>2. QED
    BY <2>1, NoCallTouched DEF media, Clean
<1>3. CASE \E m \in BOOLEAN : setMuted(m)
  BY <1>3, NoCallTouched DEF setMuted, Clean
<1>4. ASSUME \/ state \notin {"connecting", "connected"} /\ UNCHANGED spoilt
             \/ state \notin {"connecting", "connected"} /\ spoilt' = Muted,
             state' = "connecting",
             NEW given \in BOOLEAN, _connect(given, pcs)
      PROVE  CallSafe'
  <2>1. /\ \A k \in Pcs : pcs[k].at = "new" => pcs[k] = NewPc
        /\ \A j \in Pcs : chain[j].step # "idle" => chain[j].of \in Pcs /\ pcs[chain[j].of].at # "new"
        /\ pcs \in [Pcs -> Connection]
    BY <1>0 DEF NewAreNew, ChainsOfMade, MediaTyped
  <2>2. Clean' => Clean
    BY <1>4 DEF Clean, Muted
  <2>3. Clean => (\A k \in Pcs : pcs[k].at # "open") /\ live = {} /\ asking = {}
    BY <1>0, <1>4, PcsArePositive DEF NothingElse
  <2>4. NewAreNew' /\ ChainsOfMade' /\ PcIsOpen'
    BY <1>4, <2>1, ConnectOpens DEF CallIInv
  <2>5. Clean => /\ \A k \in Pcs : pcs'[k].at = "open" => k = pc'
                 /\ live' \subseteq {local'}
                 /\ asking' # {} =>
                      /\ local' = null /\ asking' = {pc'}
                      /\ pcs'[pc'].remote = "none" /\ pcs'[pc'].signaling = "stable"
                      /\ ~pcs'[pc'].needed
                      /\ \A j \in Pcs : chain'[j].step # "idle" => pcs'[chain'[j].of].at # "open"
    BY <1>4, <2>1, <2>3, ConnectOpens DEF CallIInv
  <2>6. Clean' => NothingElse'
    BY <1>4, <2>2, <2>5 DEF NothingElse
  <2>7. Clean' => QuietWhileAsking'
    BY <1>4, <2>2, <2>5 DEF QuietWhileAsking
  <2>8. QED
    BY <2>4, <2>6, <2>7 DEF CallSafe
<1>5. ASSUME NEW given \in BOOLEAN, connect(given) PROVE CallSafe'
  <2>1. /\ state \notin {"connecting", "connected"} /\ state' = "connecting" /\ _connect(given, pcs)
        /\ spoilt' = spoilt \/ spoilt' = Muted
    BY <1>5 DEF connect
  <2>2. QED
    BY <1>4, <2>1
<1>6. CASE answer
  <2>1. /\ state \notin {"connecting", "connected"} /\ state' = "connecting" /\ _connect(FALSE, pcs)
        /\ spoilt' = spoilt
    BY <1>6 DEF answer
  <2>2. QED
    BY <1>4, <2>1
<1>7. ASSUME _disconnect, UNCHANGED <<chain, asking, spoilt>>,
             state' = state \/ state = "connected"
      PROVE  CallSafe'
  <2>1. pc' = null /\ local' = null
    BY <1>7 DEF _disconnect
  <2>2. /\ NewAreNew' /\ ChainsOfMade' /\ PcIsOpen'
        /\ \A k \in Pcs : pcs'[k].at = "open" => pcs[k].at = "open"
        /\ Clean => live' = {} /\ \A k \in Pcs : pcs'[k].at # "open"
    BY <1>7, DisconnectCloses
  <2>3. Clean => (asking # {} => state = "connecting")
    BY <1>0 DEF QuietWhileAsking
  <2>4. Clean' => NothingElse'
    BY <1>0, <1>7, <2>1, <2>2, <2>3 DEF NothingElse, Clean
  <2>5. Clean' => QuietWhileAsking'
    <3>1. SUFFICES ASSUME Clean, asking # {} PROVE QuietWhileAsking'
      BY <1>7 DEF Clean, QuietWhileAsking
    <3>2. state' = "connecting"
      BY <1>7, <2>3, <3>1
    <3>3. \A j, k \in asking' : j = k
      BY <1>0, <1>7, <3>1 DEF QuietWhileAsking
    <3>4. \A j \in Pcs : chain'[j].step # "idle" => pcs'[chain'[j].of].at # "open"
      BY <1>0, <1>7, <2>2, <3>1 DEF ChainsOfMade
    <3>5. QED
      BY <2>1, <3>2, <3>3, <3>4 DEF QuietWhileAsking
  <2>6. QED
    BY <2>2, <2>4, <2>5 DEF CallSafe
<1>8. CASE hangUp
  BY <1>7, <1>8 DEF hangUp
<1>9. ASSUME NEW s \in Sockets, Fails(s) PROVE CallSafe'
  <2>1. CASE state # "uninitialized"
    BY <1>7, <1>9, <2>1 DEF Fails, sift
  <2>2. CASE state = "uninitialized"
    BY <1>9, <2>2, NoCallTouched DEF Fails, sift, Clean
  <2>3. QED
    BY <2>1, <2>2
<1>10. ASSUME NEW s \in Sockets, OnHangup(s) PROVE CallSafe'
  <2>1. CASE state = "connected"
    BY <1>7, <1>10, <2>1 DEF OnHangup
  <2>2. CASE state # "connected"
    BY <1>10, <2>2, NoCallTouched DEF OnHangup, Clean
  <2>3. QED
    BY <2>1, <2>2
<1>11. ASSUME NEW wire, Reset(wire) PROVE CallSafe'
  <2>1. CASE state = "connected"
    BY <1>7, <1>11, <2>1 DEF Reset
  <2>2. CASE state = "connecting"
    <3>1. "abort" \in spoilt' /\ UNCHANGED <<pc, local, pcs, chain>>
      BY <1>11, <2>2 DEF Reset
    <3>2. QED
      BY <1>0, <3>1 DEF CallSafe, Clean, NewAreNew, ChainsOfMade, PcIsOpen
  <2>3. CASE state \notin {"connecting", "connected"}
    <3>1. /\ UNCHANGED <<pc, local, pcs, chain, asking, live, spoilt>>
          /\ {state, state'} \cap {"connecting", "connected"} = {}
      BY <1>11, <2>3 DEF Reset
    <3>2. QED
      BY <3>1, NoCallTouched DEF Clean
  <2>4. QED
    BY <2>1, <2>2, <2>3
<1>12. CASE reset \/ \E s \in Sockets : OnReset(s)
  BY <1>11, <1>12 DEF reset, OnReset
<1>13. ASSUME NEW s \in Sockets, NEW k \in Pcs, OnDesc(s, k) PROVE CallSafe'
  <2>1. CASE UNCHANGED pcs
    BY <1>13, <2>1, NoCallTouched DEF OnDesc, sift, Clean
  <2>2. CASE /\ pc # null /\ pcs[pc].signaling = "have-local-offer"
             /\ pcs' = [pcs EXCEPT ![pc].signaling = "stable",
                                   ![pc].remote = IF @ = "none" THEN "coming" ELSE @]
    <3>1. /\ pc \in Pcs /\ pcs[pc].at = "open" /\ pcs'[pc].at = "open"
          /\ \A j \in Pcs : j # pc => pcs'[j] = pcs[j]
      BY <1>0, <2>2 DEF MediaTyped, PcIsOpen, Connection
    <3>2. UNCHANGED <<state, pc, local, chain, asking, live, spoilt>>
      BY <1>13 DEF OnDesc, sift
    <3>3. Clean => asking = {}
      BY <1>0, <2>2 DEF QuietWhileAsking
    <3>4. NewAreNew' /\ ChainsOfMade' /\ PcIsOpen'
      BY <1>0, <3>1, <3>2 DEF NewAreNew, ChainsOfMade, PcIsOpen
    <3>5. QED
      BY <1>0, <3>1, <3>2, <3>3, <3>4 DEF CallSafe, NothingElse, QuietWhileAsking, Clean
  <2>3. QED
    BY <1>13, <2>1, <2>2 DEF OnDesc
<1>14. ASSUME NEW s \in Sockets, OnTransfer(s) PROVE CallSafe'
  <2>1. CASE state # "connected"
    BY <1>14, <2>1, NoCallTouched DEF OnTransfer, sift, Clean
  <2>2. CASE state = "connected"
    <3>1. _connect(FALSE, WithoutPc) /\ "transfer" \in spoilt'
      BY <1>14, <2>2 DEF OnTransfer
    <3>2. /\ \A k \in Pcs : WithoutPc[k] = IF k = pc THEN ClosedPc ELSE pcs[k]
          /\ ClosedPc.at = "closed" /\ WithoutPc \in [Pcs -> Connection]
      BY <1>0, ConnectionKinds DEF WithoutPc, ClosedPc, NewPc, MediaTyped
    <3>3. /\ \A k \in Pcs : WithoutPc[k].at = "new" => WithoutPc[k] = NewPc
          /\ \A j \in Pcs : chain[j].step # "idle" =>
                chain[j].of \in Pcs /\ WithoutPc[chain[j].of].at # "new"
      BY <1>0, <3>2 DEF NewAreNew, ChainsOfMade
    <3>4. NewAreNew' /\ ChainsOfMade' /\ PcIsOpen'
      BY <3>1, <3>2, <3>3, ConnectOpens DEF CallIInv
    <3>5. QED
      BY <3>1, <3>4 DEF CallSafe, Clean
  <2>3. QED
    BY <2>1, <2>2
<1>15. ASSUME NEW k \in Pcs, MediaGranted(k) PROVE CallSafe'
  <2>1. CASE ~StillWanted
    <3>1. Clean => FALSE
      BY <1>0, <1>15, <2>1 DEF MediaGranted, StillWanted, NothingElse
    <3>2. UNCHANGED <<pc, pcs, chain, spoilt>>
      BY <1>15, <2>1 DEF MediaGranted
    <3>3. QED
      BY <1>0, <3>1, <3>2 DEF CallSafe, Clean, NewAreNew, ChainsOfMade, PcIsOpen
  <2>2. CASE StillWanted
    <3>1. /\ k \in asking /\ asking' = asking \ {k} /\ live' = live \cup {k} /\ local' = k
          /\ UNCHANGED <<state, pc, chain>>
          /\ \A j \in Pcs : pcs'[j] = IF j = pc THEN [pcs[j] EXCEPT !.needed = TRUE] ELSE pcs[j]
          /\ Clean' => Clean
      BY <1>15, <2>2 DEF MediaGranted, sift, Clean, Muted
    <3>2. /\ \A j \in Pcs : pcs'[j].at = pcs[j].at
          /\ \A j \in Pcs : j # pc => pcs'[j] = pcs[j]
      BY <1>0, <3>1 DEF MediaTyped, Connection
    <3>3. NewAreNew' /\ ChainsOfMade' /\ PcIsOpen'
      <4>1. \A j \in Pcs : pcs[j].at = "new" => j # pc
        BY <1>0, PcsArePositive DEF PcIsOpen
      <4>2. NewAreNew'
        BY <1>0, <3>2, <4>1 DEF NewAreNew
      <4>3. PcIsOpen'
        BY <1>0, <3>1, <3>2 DEF PcIsOpen, MediaTyped
      <4>4. QED
        BY <1>0, <3>1, <3>2, <4>2, <4>3 DEF ChainsOfMade
    <3>4. Clean => asking' = {} /\ live' \subseteq {local'} /\ state = "connecting"
      BY <1>0, <3>1, PcsArePositive DEF QuietWhileAsking, NothingElse, MediaTyped
    <3>5. QED
      BY <1>0, <3>1, <3>2, <3>3, <3>4 DEF CallSafe, NothingElse, QuietWhileAsking
  <2>3. QED
    BY <2>1, <2>2
<1>16. ASSUME NEW k \in Pcs, MediaRefused(k) PROVE CallSafe'
  BY <1>0, <1>16
     DEF MediaRefused, CallSafe, NewAreNew, ChainsOfMade, PcIsOpen, Clean, NothingElse,
         QuietWhileAsking, sift
<1>17. ASSUME NEW k \in Pcs, NegotiationNeeded(k) PROVE CallSafe'
  <2>1. /\ pcs[k].at = "open" /\ pcs[k].needed
        /\ pcs' = [pcs EXCEPT ![k].needed = FALSE]
        /\ UNCHANGED <<state, pc, local, asking, live, spoilt>>
    BY <1>17 DEF NegotiationNeeded, sift
  <2>2. /\ \A j \in Pcs : pcs'[j].at = pcs[j].at
        /\ \A j \in Pcs : j # k => pcs'[j] = pcs[j]
    BY <1>0, <2>1 DEF MediaTyped, Connection
  <2>3. \A j \in Pcs : chain'[j] = chain[j] \/ (chain'[j].of = pc /\ pc \in Pcs)
    <3>1. CASE pc = null
      <4>1. chain' = chain
        BY <1>17, <3>1 DEF NegotiationNeeded
      <4>2. QED
        BY <4>1
    <3>2. CASE pc # null
      <4>1. chain' = [chain EXCEPT ![k] = [step |-> "creating", of |-> pc]]
        BY <1>17, <3>2 DEF NegotiationNeeded
      <4>2. pc \in Pcs /\ chain \in [Pcs -> Negotiation]
        BY <1>0, <3>2 DEF MediaTyped
      <4>3. \A j \in Pcs : chain'[j] = IF j = k THEN [step |-> "creating", of |-> pc] ELSE chain[j]
        BY <4>1, <4>2
      <4>4. [step |-> "creating", of |-> pc].of = pc
        OBVIOUS
      <4>5. QED
        BY <4>2, <4>3, <4>4
    <3>3. QED
      BY <3>1, <3>2
  <2>4. NewAreNew' /\ ChainsOfMade' /\ PcIsOpen'
    <3>1. NewAreNew' /\ PcIsOpen'
      BY <1>0, <2>1, <2>2 DEF NewAreNew, PcIsOpen, MediaTyped
    <3>2. pc \in Pcs => pcs[pc].at # "new"
      BY <1>0, PcsArePositive DEF PcIsOpen
    <3>3. ChainsOfMade'
      BY <1>0, <2>2, <2>3, <3>2 DEF ChainsOfMade
    <3>4. QED
      BY <3>1, <3>3
  <2>5. Clean => asking = {}
    BY <1>0, <2>1, PcsArePositive DEF NothingElse, QuietWhileAsking
  <2>6. QED
    BY <1>0, <2>1, <2>2, <2>4, <2>5 DEF CallSafe, NothingElse, QuietWhileAsking, Clean
<1>18. ASSUME NEW k \in Pcs, OfferCreated(k) \/ OfferFails(k) PROVE CallSafe'
  <2>1. UNCHANGED <<state, pc, local, pcs, asking, live, spoilt>>
    BY <1>18 DEF OfferCreated, OfferFails, sift
  <2>2. \A j \in Pcs : chain'[j].step # "idle" => chain[j].step # "idle" /\ chain'[j].of = chain[j].of
    BY <1>0, <1>18 DEF OfferCreated, OfferFails, Running, Idle, MediaTyped, Negotiation
  <2>3. QED
    BY <1>0, <2>1, <2>2
       DEF CallSafe, NewAreNew, ChainsOfMade, PcIsOpen, NothingElse, QuietWhileAsking, Clean
<1>19. ASSUME NEW k \in Pcs, OfferSet(k) PROVE CallSafe'
  <2>1. /\ chain[k].step # "idle" /\ pcs[chain[k].of].at = "open"
        /\ chain' = [chain EXCEPT ![k] = Idle]
        /\ pcs' = [pcs EXCEPT ![chain[k].of].signaling = "have-local-offer"]
        /\ UNCHANGED <<state, pc, local, asking, live, spoilt>>
    BY <1>19 DEF OfferSet, Running, sift
  <2>2. chain[k].of \in Pcs
    BY <1>0, <2>1 DEF ChainsOfMade
  <2>3. /\ \A j \in Pcs : pcs'[j].at = pcs[j].at
        /\ \A j \in Pcs : j # chain[k].of => pcs'[j] = pcs[j]
    BY <1>0, <2>1, <2>2 DEF MediaTyped, Connection
  <2>4. \A j \in Pcs : chain'[j].step # "idle" => chain'[j] = chain[j]
    BY <1>0, <2>1 DEF MediaTyped, Idle
  <2>5. NewAreNew' /\ ChainsOfMade' /\ PcIsOpen'
    BY <1>0, <2>1, <2>3, <2>4 DEF NewAreNew, ChainsOfMade, PcIsOpen, MediaTyped
  <2>6. Clean => asking = {}
    BY <1>0, <2>1 DEF QuietWhileAsking
  <2>7. QED
    BY <1>0, <2>1, <2>3, <2>5, <2>6 DEF CallSafe, NothingElse, QuietWhileAsking, Clean
<1>20. ASSUME NEW k \in Pcs, OnAddStream(k) PROVE CallSafe'
  <2>1. CASE state # "connecting"
    BY <1>7, <1>20, <2>1 DEF OnAddStream
  <2>2. CASE state = "connecting"
    <3>1. /\ state' = "connected" /\ pcs[k].at = "open" /\ pcs[k].remote = "coming"
          /\ pcs' = [pcs EXCEPT ![k].remote = "there"]
          /\ UNCHANGED <<pc, local, chain, asking, live, spoilt>>
      BY <1>20, <2>2 DEF OnAddStream
    <3>2. /\ \A j \in Pcs : pcs'[j].at = pcs[j].at
          /\ \A j \in Pcs : j # k => pcs'[j] = pcs[j]
      BY <1>0, <3>1 DEF MediaTyped, Connection
    <3>3. NewAreNew' /\ ChainsOfMade' /\ PcIsOpen'
      BY <1>0, <3>1, <3>2 DEF NewAreNew, ChainsOfMade, PcIsOpen, MediaTyped
    <3>4. Clean => asking = {}
      BY <1>0, <3>1, PcsArePositive DEF NothingElse, QuietWhileAsking
    <3>5. QED
      BY <1>0, <3>1, <3>2, <3>3, <3>4 DEF CallSafe, NothingElse, QuietWhileAsking, Clean
  <2>3. QED
    BY <2>1, <2>2
<1>21. QED
  BY <1>a, <1>1, <1>2, <1>3, <1>5, <1>6, <1>8, <1>9, <1>10, <1>12, <1>13, <1>14, <1>15, <1>16,
     <1>17, <1>18, <1>19, <1>20
     DEF Next, App, SocketEvent, MediaEvent, vars, sift

\* Nothing is left of a call that was neither reset while connecting nor transferred,
\* for any number of calls and sockets, and whatever fails.
THEOREM CallsLeaveNothing == Spec => []NothingLeftOfACall
<1>1. Init => CallSafe
  BY DEF Init, CallSafe, NewAreNew, ChainsOfMade, PcIsOpen, Clean, NothingElse, QuietWhileAsking,
         NewPc, Idle
<1>2. Init => CallIInv
  BY <1>1, InitTyped DEF CallIInv
<1>3. CallIInv /\ [Next]_vars => CallIInv'
  BY TypedStays, CallStaysSafe DEF CallIInv
<1>4. CallIInv => NothingLeftOfACall
  <2>1. SUFFICES ASSUME CallIInv, Clean PROVE NothingElse => NothingLeftOfACall
    BY DEF CallIInv, CallSafe, NothingLeftOfACall, Clean
  <2>2. QED
    BY DEF NothingElse, NothingLeftOfACall
<1>5. QED
  BY <1>2, <1>3, <1>4, PTL DEF Spec

-----------------------------------------------------------------------------
\* A microphone is silenced only while it is the local stream of a call.
MuteSafe ==
    /\ "abort" \notin spoilt => (local # null => state \in {"connecting", "connected"})
    /\ MuteHolds
    /\ local # null => pcs[local].at # "new" /\ local \notin asking
    /\ \A k \in Pcs : pcs[k].at = "new" => k \notin asking /\ k \notin silenced
    /\ silenced \cap asking = {}

MuteIInv == Typed /\ MuteSafe

\* Steps that leave a microphone's tracks alone, keep or drop the local stream, and make
\* no connection.
LEMMA TracksUntouched ==
    ASSUME MuteIInv, UNCHANGED <<muted, silenced>>, spoilt \subseteq spoilt',
           asking' \subseteq asking, \A k \in Pcs : pcs'[k].at = "new" <=> pcs[k].at = "new",
           \/ local' = null
           \/ local' = local /\ (state' = state \/ state \notin {"connecting", "connected"}
                                   \/ state' \in {"connecting", "connected"} \/ "abort" \in spoilt')
    PROVE  MuteSafe'
<1>1. /\ MuteSafe /\ local \in Pcs \cup {null} /\ spoilt \subseteq {"abort", "transfer", "late"}
  BY DEF MuteIInv, Typed, TypeOK
<1>2. CASE local' = null
  BY <1>1, <1>2 DEF MuteSafe, MuteHolds
<1>3. CASE /\ local' = local
           /\ \/ state' = state \/ state \notin {"connecting", "connected"}
              \/ state' \in {"connecting", "connected"} \/ "abort" \in spoilt'
  BY <1>1, <1>3 DEF MuteSafe, MuteHolds
<1>4. QED
  BY <1>2, <1>3

\* A call begins with the stream that is given, which no one has silenced, or with
\* what was there.
LEMMA ConnectKeepsTracks ==
    ASSUME MuteIInv, NEW given \in BOOLEAN, NEW conns \in [Pcs -> Connection],
           _connect(given, conns), silenced' = silenced,
           \A j \in Pcs : conns[j].at = "new" => pcs[j].at = "new"
    PROVE  /\ IF given THEN local' \in Pcs /\ local' \notin silenced ELSE local' = local
           /\ local' # null => pcs'[local'].at # "new" /\ local' \notin asking'
           /\ \A j \in Pcs : pcs'[j].at = "new" => j \notin asking' /\ j \notin silenced'
           /\ silenced' \cap asking' = {}
<1>1. MuteSafe /\ local \in Pcs \cup {null}
  BY DEF MuteIInv, Typed, TypeOK
<1>2. PICK k \in Pcs :
        LET stream == IF given THEN k ELSE local IN
        /\ conns[k].at = "new"
        /\ pcs' = [conns EXCEPT ![k] = [@ EXCEPT !.at = "open", !.needed = stream # null]]
        /\ local' = stream
        /\ asking' = IF stream = null THEN asking \cup {k} ELSE asking
  BY DEF _connect
<1>3. pcs'[k].at = "open" /\ \A j \in Pcs : j # k => pcs'[j] = conns[j]
  BY <1>2 DEF Connection
<1>4. k \notin asking /\ k \notin silenced /\ k # null
  BY <1>1, <1>2, PcsArePositive DEF MuteSafe
<1>5. \A j \in Pcs : pcs'[j].at = "new" => j # k /\ pcs[j].at = "new"
  BY <1>3
<1>6. QED
  BY <1>1, <1>2, <1>3, <1>4, <1>5 DEF MuteSafe

LEMMA MuteStaysSafe ==
    ASSUME MuteIInv, [Next]_vars
    PROVE  MuteSafe'
<1>0. MediaTyped /\ MuteSafe
  BY TypedIsBoth DEF MuteIInv
<1>1. ASSUME UNCHANGED <<muted, local, pcs, asking, silenced, spoilt>>,
             state' = state \/ state \notin {"connecting", "connected"}
      PROVE  MuteSafe'
  BY <1>1, TracksUntouched
<1>2. CASE UNCHANGED vars
  BY <1>1, <1>2 DEF vars, sift, media
<1>3. ASSUME NEW s \in Sockets,
             authenticate(s) \/ OnRing(s) \/ Open(s) \/ Closes(s) \/ Server(s)
             \/ (\E ok \in BOOLEAN : OnAuth(s, ok))
      PROVE  MuteSafe'
  <2>1. UNCHANGED <<muted, media, spoilt>>
    BY <1>3 DEF authenticate, OnRing, Open, Closes, Server, ServerTakes, ServerSends,
                OnAuth, sift
  <2>2. state' = state \/ state \notin {"connecting", "connected"}
    BY <1>3 DEF authenticate, OnRing, Open, Closes, Server, ServerTakes, ServerSends,
                OnAuth, OnRefused, sift
  <2>3. QED
    BY <1>1, <2>1, <2>2 DEF media
<1>4. CASE decline
  BY <1>1, <1>4 DEF decline, media
\* Wherever the connection is closed, the local stream is dropped.
<1>5. ASSUME _disconnect, UNCHANGED <<muted, silenced, asking>>, spoilt \subseteq spoilt'
      PROVE  MuteSafe'
  <2>1. local' = null /\ \A k \in Pcs : pcs'[k].at = "new" => pcs[k].at = "new"
    BY <1>5 DEF _disconnect, ClosedPc, NewPc
  <2>2. QED
    BY <1>0, <1>5, <2>1 DEF MuteSafe, MuteHolds
<1>6. CASE hangUp
  BY <1>5, <1>6 DEF hangUp
<1>7. ASSUME NEW wire, Reset(wire) PROVE MuteSafe'
  <2>1. UNCHANGED <<muted, silenced, asking>> /\ spoilt \subseteq spoilt'
    BY <1>7 DEF Reset
  <2>2. CASE state = "connected"
    BY <1>5, <1>7, <2>1, <2>2 DEF Reset
  <2>3. CASE state # "connected"
    <3>1. UNCHANGED <<local, pcs>> /\ (state = "connecting" => "abort" \in spoilt')
      BY <1>7, <2>3 DEF Reset
    <3>2. QED
      BY <2>1, <2>3, <3>1, TracksUntouched
  <2>4. QED
    BY <2>2, <2>3
<1>8. ASSUME NEW s \in Sockets, Fails(s) \/ OnHangup(s) \/ OnReset(s) PROVE MuteSafe'
  <2>1. CASE OnReset(s)
    BY <1>7, <2>1 DEF OnReset
  <2>2. CASE Fails(s)
    <3>1. _disconnect \/ UNCHANGED <<pc, local, pcs, live>>
      BY <2>2 DEF Fails
    <3>2. QED
      BY <1>1, <1>5, <2>2, <3>1 DEF Fails, sift
  <2>3. CASE OnHangup(s)
    BY <1>1, <1>5, <2>3 DEF OnHangup
  <2>4. QED
    BY <1>8, <2>1, <2>2, <2>3
<1>9. ASSUME NEW given \in BOOLEAN, connect(given) PROVE MuteSafe'
  <2>1. /\ state = "authenticated" /\ state' = "connecting" /\ _connect(given, pcs)
        /\ spoilt' = IF given THEN Muted ELSE spoilt
        /\ muted' = muted /\ silenced' = silenced
    BY <1>9 DEF connect
  <2>2. /\ IF given THEN local' \in Pcs /\ local' \notin silenced ELSE local' = local
        /\ local' # null => pcs'[local'].at # "new" /\ local' \notin asking'
        /\ \A j \in Pcs : pcs'[j].at = "new" => j \notin asking' /\ j \notin silenced'
        /\ silenced' \cap asking' = {}
    BY <1>0, <2>1, ConnectKeepsTracks DEF MediaTyped
  <2>3. CASE given
    <3>1. muted => "late" \in spoilt'
      BY <2>1, <2>3 DEF Muted
    <3>2. QED
      BY <2>1, <2>2, <2>3, <3>1 DEF MuteSafe, MuteHolds
  <2>4. CASE ~given
    <3>1. "abort" \notin spoilt => local' = null
      BY <1>0, <2>1, <2>2, <2>4 DEF MuteSafe
    <3>2. QED
      BY <2>1, <2>2, <2>4, <3>1 DEF MuteSafe, MuteHolds
  <2>5. QED
    BY <2>3, <2>4
<1>10. CASE answer
  <2>1. /\ state = "ringing" /\ state' = "connecting" /\ _connect(FALSE, pcs)
        /\ UNCHANGED <<silenced, spoilt>>
    BY <1>10 DEF answer
  <2>2. /\ local' = local
        /\ local' # null => pcs'[local'].at # "new" /\ local' \notin asking'
        /\ \A j \in Pcs : pcs'[j].at = "new" => j \notin asking' /\ j \notin silenced'
        /\ silenced' \cap asking' = {}
    BY <1>0, <2>1, ConnectKeepsTracks DEF MediaTyped
  <2>3. "abort" \notin spoilt => local' = null
    BY <1>0, <2>1, <2>2 DEF MuteSafe
  <2>4. QED
    BY <2>1, <2>2, <2>3 DEF MuteSafe, MuteHolds
<1>11. ASSUME NEW s \in Sockets, OnTransfer(s) PROVE MuteSafe'
  <2>1. CASE state # "connected"
    BY <1>1, <1>11, <2>1 DEF OnTransfer, sift
  <2>2. CASE state = "connected"
    <3>1. /\ _connect(FALSE, WithoutPc) /\ spoilt \subseteq spoilt'
          /\ UNCHANGED <<state, muted, silenced>>
      BY <1>11, <2>2 DEF OnTransfer, sift
    <3>2. WithoutPc \in [Pcs -> Connection]
      BY <1>0, ConnectionKinds DEF WithoutPc, MediaTyped
    <3>3. \A j \in Pcs : WithoutPc[j].at = "new" => pcs[j].at = "new"
      BY DEF WithoutPc, ClosedPc, NewPc
    <3>4. /\ local' = local
          /\ local' # null => pcs'[local'].at # "new" /\ local' \notin asking'
          /\ \A j \in Pcs : pcs'[j].at = "new" => j \notin asking' /\ j \notin silenced'
          /\ silenced' \cap asking' = {}
      BY <3>1, <3>2, <3>3, ConnectKeepsTracks
    <3>5. QED
      BY <1>0, <2>2, <3>1, <3>4 DEF MuteSafe, MuteHolds
  <2>3. QED
    BY <2>1, <2>2
<1>12. ASSUME NEW m \in BOOLEAN, setMuted(m) PROVE MuteSafe'
  <2>1. /\ muted' = m /\ UNCHANGED <<state, local, pcs, asking, spoilt>>
        /\ silenced' = IF local = null THEN silenced ELSE Silenced(m)
    BY <1>12 DEF setMuted
  <2>2. local # null => \A k \in Pcs : k # local => (k \in silenced' <=> k \in silenced)
    BY <2>1 DEF Silenced
  <2>3. local # null => (m <=> local \in silenced')
    BY <2>1 DEF Silenced
  <2>4. \A k \in Pcs : pcs'[k].at = "new" => k \notin asking' /\ k \notin silenced'
    BY <1>0, <2>1, <2>2 DEF MuteSafe
  <2>5. silenced' \cap asking' = {}
    BY <1>0, <2>1 DEF MuteSafe, Silenced
  <2>6. QED
    BY <1>0, <2>1, <2>3, <2>4, <2>5 DEF MuteSafe, MuteHolds
<1>13. ASSUME NEW k \in Pcs, MediaGranted(k) PROVE MuteSafe'
  <2>1. /\ k \in asking /\ asking' = asking \ {k} /\ UNCHANGED <<state, muted, silenced>>
    BY <1>13 DEF MediaGranted, sift
  <2>2. CASE ~StillWanted
    <3>1. UNCHANGED <<local, pcs, spoilt>>
      BY <1>13, <2>2 DEF MediaGranted
    <3>2. QED
      BY <2>1, <3>1, TracksUntouched
  <2>3. CASE StillWanted
    <3>1. /\ local' = k /\ spoilt' = Muted
          /\ \A j \in Pcs : pcs'[j] = IF j = pc THEN [pcs[j] EXCEPT !.needed = TRUE] ELSE pcs[j]
      BY <1>13, <2>3 DEF MediaGranted
    <3>2. \A j \in Pcs : pcs'[j].at = pcs[j].at
      <4>1. \A j \in Pcs : pcs[j] \in Connection
        BY <1>0 DEF MediaTyped
      <4>2. QED
        BY <3>1, <4>1 DEF Connection
    <3>3. k \notin silenced /\ pcs[k].at # "new"
      BY <1>0, <2>1 DEF MuteSafe
    <3>4. (muted => "late" \in spoilt') /\ spoilt \subseteq spoilt'
      BY <3>1 DEF Muted
    <3>5. QED
      BY <1>0, <2>1, <2>3, <3>1, <3>2, <3>3, <3>4 DEF MuteSafe, MuteHolds, StillWanted
  <2>4. QED
    BY <2>2, <2>3
<1>14. ASSUME NEW k \in Pcs, MediaRefused(k) PROVE MuteSafe'
  BY <1>14, TracksUntouched DEF MediaRefused, sift
\* What the negotiation does to a connection makes and closes none.
<1>15. ASSUME NEW k \in Pcs,
              NegotiationNeeded(k) \/ OfferCreated(k) \/ OfferSet(k) \/ OfferFails(k)
       PROVE  MuteSafe'
  <2>1. UNCHANGED <<state, muted, local, asking, silenced, spoilt>>
    BY <1>15 DEF NegotiationNeeded, OfferCreated, OfferSet, OfferFails, sift
  <2>2. \/ pcs' = pcs
        \/ pcs' = [pcs EXCEPT ![k].needed = FALSE]
        \/ pcs' = [pcs EXCEPT ![chain[k].of].signaling = "have-local-offer"]
    BY <1>15 DEF NegotiationNeeded, OfferCreated, OfferSet, OfferFails
  <2>3. \A j \in Pcs : pcs'[j].at = pcs[j].at
    BY <1>0, <2>2 DEF MediaTyped, Connection
  <2>4. QED
    BY <2>1, <2>3, TracksUntouched
<1>16. ASSUME NEW s \in Sockets, NEW k \in Pcs, OnDesc(s, k) PROVE MuteSafe'
  <2>1. UNCHANGED <<state, muted, local, asking, silenced, spoilt>>
    BY <1>16 DEF OnDesc, sift
  <2>2. \A j \in Pcs : pcs'[j].at = pcs[j].at
    BY <1>0, <1>16 DEF OnDesc, MediaTyped, Connection
  <2>3. QED
    BY <2>1, <2>2, TracksUntouched
<1>17. ASSUME NEW k \in Pcs, OnAddStream(k) PROVE MuteSafe'
  <2>1. CASE state # "connecting"
    BY <1>5, <1>17, <2>1 DEF OnAddStream
  <2>2. CASE state = "connecting"
    <3>1. /\ state' = "connected" /\ pcs' = [pcs EXCEPT ![k].remote = "there"]
          /\ UNCHANGED <<muted, local, asking, silenced, spoilt>>
      BY <1>17, <2>2 DEF OnAddStream
    <3>2. \A j \in Pcs : pcs'[j].at = pcs[j].at
      BY <1>0, <3>1 DEF MediaTyped, Connection
    <3>3. QED
      BY <3>1, <3>2, TracksUntouched
  <2>3. QED
    BY <2>1, <2>2
<1>18. CASE App
  BY <1>3, <1>6, <1>7, <1>9, <1>10, <1>12, <1>18, <1>4 DEF App, reset
<1>19. CASE \E s \in Sockets : SocketEvent(s) \/ Server(s)
  BY <1>3, <1>8, <1>11, <1>16, <1>19 DEF SocketEvent
<1>20. CASE \E k \in Pcs : MediaEvent(k)
  BY <1>13, <1>14, <1>15, <1>17, <1>20 DEF MediaEvent
<1>21. QED
  BY <1>2, <1>18, <1>19, <1>20 DEF Next

\* The tracks of the local stream say what muted says, for any number of calls, unless
\* the stream came muted or a call was reset while it was connecting.
THEOREM MuteIsHeeded == Spec => []MuteHolds
<1>1. Init => MuteIInv
  BY InitTyped DEF Init, MuteIInv, MuteSafe, MuteHolds
<1>2. MuteIInv /\ [Next]_vars => MuteIInv'
  BY TypedStays, MuteStaysSafe DEF MuteIInv
<1>3. MuteIInv => MuteHolds
  BY DEF MuteIInv, MuteSafe
<1>4. QED
  BY <1>1, <1>2, <1>3, PTL DEF Spec
=============================================================================
