------------------------ MODULE RumorTransportProofs ------------------------
(***************************************************************************)
(* The safety of the Rumor transport for any set of calls: every pending   *)
(* call is watched, CONNECT is the first message the server sees, no reply *)
(* comes too early, and the transport implements RpcCalls. And of the      *)
(* bytes of its messages, for any strings: what fits reads back.           *)
(***************************************************************************)
EXTENDS MCRumorTransport, TLAPS, SequenceTheorems, FiniteSetTheorems, FunctionTheorems,
        WellFoundedInduction

-----------------------------------------------------------------------------
\* A sequence grows by its last element.
LEMMA AppendFacts ==
    ASSUME NEW S, NEW s \in Seq(S), NEW e \in S
    PROVE  /\ Append(s, e) \in Seq(S)
           /\ Append(s, e) # <<>>
           /\ Len(Append(s, e)) = Len(s) + 1
           /\ \A i \in 1..Len(s) : Append(s, e)[i] = s[i]
           /\ Append(s, e)[Len(s) + 1] = e
           /\ s # <<>> => Head(Append(s, e)) = Head(s)
           /\ s = <<>> => Head(Append(s, e)) = e
    OBVIOUS

\* A sequence shrinks by its first element.
LEMMA TailFacts ==
    ASSUME NEW S, NEW s \in Seq(S), s # <<>>
    PROVE  /\ Tail(s) \in Seq(S)
           /\ Len(s) \in Nat /\ Len(s) > 0
           /\ Len(Tail(s)) = Len(s) - 1
           /\ \A i \in 1..Len(Tail(s)) : Tail(s)[i] = s[i + 1]
           /\ Head(s) = s[1]
           /\ Head(s) \in S
    OBVIOUS

-----------------------------------------------------------------------------
\* A continuation is queued once for a call, and to register it exactly when the
\* call was put on the wire.
QueuedOnce ==
    /\ \A i, j \in 1..Len(microtasks) : microtasks[i][2] = microtasks[j][2] => i = j
    /\ \A i \in 1..Len(microtasks) :
          microtasks[i][1] = "register" <=> microtasks[i][2] \in requested

\* Only calls that were put on the wire are registered, and none before it is made.
SentFirst ==
    /\ transactions \subseteq requested
    /\ \A c \in Calls : call[c] = "idle" => c \notin requested

\* A request on the wire is there once, and has not been taken yet; a taken one is
\* held or answered, not both; only an answered call has a reply on its way.
RequestsUp ==
    /\ \A i \in 1..Len(up) : up[i].kind = "request" =>
          up[i].call \in requested \ (held \cup answered)
    /\ \A i, j \in 1..Len(up) : up[i].kind = "request" /\ up[i] = up[j] => i = j
RequestsTaken == held \cap answered = {} /\ held \cup answered \subseteq requested
RepliesDown == \A i \in 1..Len(down) : down[i].kind = "reply" => down[i].call \in answered
OnePlace == RequestsUp /\ RequestsTaken /\ RepliesDown

\* Nothing precedes the opening, which puts CONNECT at the head of the wire.
Opening ==
    /\ readyState = "CONNECTING" => up = <<>> /\ ~greeted
    /\ readyState = "OPEN" /\ ~greeted => up # <<>>
    /\ ConnectGoesFirst

RumorIInv ==
    TypeOK /\ PendingIsWatched /\ QueuedOnce /\ SentFirst /\ OnePlace /\ Opening

-----------------------------------------------------------------------------
\* The messages of the wires, and what their kinds say.
LEMMA MessageFacts ==
    /\ Connect \in UpMessage /\ Ping \in UpMessage
    /\ Connect.kind # "request" /\ Ping.kind # "request" /\ Connect # Ping
    /\ \A c \in Calls : /\ Request(c) \in UpMessage
                        /\ Request(c).kind = "request" /\ Request(c).call = c
                        /\ Request(c) # Connect /\ Request(c) # Ping
                        /\ Reply(c) \in DownMessage
                        /\ Reply(c).kind = "reply" /\ Reply(c).call = c
    /\ Pong \in DownMessage /\ Event \in DownMessage
    /\ Pong.kind # "reply" /\ Event.kind # "reply"
    /\ \A m \in UpMessage : m.kind = "request" => m.call \in Calls
    /\ \A m \in DownMessage : m.kind = "reply" => m.call \in Calls
<1>1. /\ Connect.kind = "connect" /\ Ping.kind = "ping"
      /\ Pong.kind = "pong" /\ Event.kind = "event"
  BY DEF Connect, Ping, Pong, Event
<1>2. \A c \in Calls : /\ Request(c).kind = "request" /\ Request(c).call = c
                       /\ Reply(c).kind = "reply" /\ Reply(c).call = c
  BY DEF Request, Reply
<1>3. /\ \A m \in UpMessage : m.kind = "request" => m.call \in Calls
      /\ \A m \in DownMessage : m.kind = "reply" => m.call \in Calls
  BY <1>1, <1>2 DEF UpMessage, DownMessage
<1>4. /\ Connect \in UpMessage /\ Ping \in UpMessage
      /\ Pong \in DownMessage /\ Event \in DownMessage
      /\ \A c \in Calls : Request(c) \in UpMessage /\ Reply(c) \in DownMessage
  BY DEF UpMessage, DownMessage
<1>5. "connect" # "ping" /\ "connect" # "request" /\ "ping" # "request"
      /\ "pong" # "reply" /\ "event" # "reply"
  OBVIOUS
<1> QED
  BY <1>1, <1>2, <1>3, <1>4, <1>5

\* The oldest microtask leaves the queue when it runs.
LEMMA HeadTaskFacts ==
    ASSUME microtasks \in Seq({"register", "reject"} \X Calls), microtasks # <<>>,
           QueuedOnce, microtasks' = Tail(microtasks)
    PROVE  /\ Head(microtasks)[2] \in Calls
           /\ Head(microtasks)[1] = "register" <=> Head(microtasks)[2] \in requested
           /\ Head(microtasks)[2] \in Queued
           /\ Queued' = Queued \ {Head(microtasks)[2]}
           /\ microtasks' \in Seq({"register", "reject"} \X Calls)
           /\ \A i \in 1..Len(microtasks') : /\ i + 1 \in 1..Len(microtasks)
                                             /\ microtasks'[i] = microtasks[i + 1]
<1> DEFINE T == {"register", "reject"} \X Calls
<1>1. /\ Tail(microtasks) \in Seq(T)
      /\ Len(microtasks) \in Nat /\ Len(microtasks) > 0
      /\ Len(Tail(microtasks)) = Len(microtasks) - 1
      /\ \A i \in 1..Len(Tail(microtasks)) : Tail(microtasks)[i] = microtasks[i + 1]
      /\ Head(microtasks) = microtasks[1]
      /\ Head(microtasks) \in T
  BY TailFacts
<1>2. 1 \in 1..Len(microtasks)
  BY <1>1
<1>3. /\ Head(microtasks)[2] \in Calls
      /\ Head(microtasks)[1] = "register" <=> Head(microtasks)[2] \in requested
      /\ Head(microtasks)[2] \in Queued
  BY <1>1, <1>2 DEF QueuedOnce, Queued
<1>4. Queued' = Queued \ {Head(microtasks)[2]}
  <2>1. Queued' = {microtasks[i + 1][2] : i \in 1..(Len(microtasks) - 1)}
    BY <1>1 DEF Queued
  <2>2. ASSUME NEW i \in 1..Len(microtasks)
        PROVE  /\ i = 1 => microtasks[i][2] = Head(microtasks)[2]
               /\ i # 1 => /\ microtasks[i][2] # Head(microtasks)[2]
                           /\ i - 1 \in 1..(Len(microtasks) - 1) /\ (i - 1) + 1 = i
    BY <1>1, <1>2 DEF QueuedOnce
  <2>3. ASSUME NEW i \in 1..(Len(microtasks) - 1)
        PROVE  i + 1 \in 1..Len(microtasks) /\ i + 1 # 1
    BY <1>1
  <2>4. Queued' \subseteq Queued \ {Head(microtasks)[2]}
    BY <2>1, <2>2, <2>3 DEF Queued
  <2>5. ASSUME NEW c \in Queued, c # Head(microtasks)[2] PROVE c \in Queued'
    <3>1. PICK i \in 1..Len(microtasks) : c = microtasks[i][2]
      BY <2>5 DEF Queued
    <3> QED
      BY <2>1, <2>2, <2>5, <3>1
  <2> QED
    BY <2>4, <2>5
<1>5. \A i \in 1..Len(microtasks') : /\ i + 1 \in 1..Len(microtasks)
                                    /\ microtasks'[i] = microtasks[i + 1]
  BY <1>1
<1> QED
  BY <1>1, <1>3, <1>4, <1>5

\* The queue without its head is still in order.
LEMMA QueueShrinks ==
    ASSUME QueuedOnce, requested' = requested, Len(microtasks') \in Nat,
           \A i \in 1..Len(microtasks') : /\ i + 1 \in 1..Len(microtasks)
                                         /\ microtasks'[i] = microtasks[i + 1]
    PROVE  QueuedOnce'
<1>1. ASSUME NEW i \in 1..Len(microtasks'), NEW j \in 1..Len(microtasks'),
             microtasks'[i][2] = microtasks'[j][2]
      PROVE  i = j
  <2>1. i + 1 = j + 1
    BY <1>1 DEF QueuedOnce
  <2> QED
    BY <2>1
<1>2. ASSUME NEW i \in 1..Len(microtasks')
      PROVE  microtasks'[i][1] = "register" <=> microtasks'[i][2] \in requested'
  BY DEF QueuedOnce
<1> QED
  BY <1>1, <1>2 DEF QueuedOnce

\* A new continuation joins the end of the queue.
LEMMA NewTaskFacts ==
    ASSUME microtasks \in Seq({"register", "reject"} \X Calls),
           NEW k \in {"register", "reject"}, NEW c \in Calls,
           microtasks' = Append(microtasks, <<k, c>>)
    PROVE  /\ microtasks' \in Seq({"register", "reject"} \X Calls)
           /\ Len(microtasks) \in Nat /\ Len(microtasks') = Len(microtasks) + 1
           /\ \A i \in 1..Len(microtasks) : microtasks'[i] = microtasks[i]
           /\ microtasks'[Len(microtasks) + 1] = <<k, c>>
           /\ Queued' = Queued \cup {c}
<1> DEFINE T == {"register", "reject"} \X Calls
<1>1. <<k, c>> \in T
  OBVIOUS
<1>2. /\ Append(microtasks, <<k, c>>) \in Seq(T)
      /\ Len(Append(microtasks, <<k, c>>)) = Len(microtasks) + 1
      /\ \A i \in 1..Len(microtasks) : Append(microtasks, <<k, c>>)[i] = microtasks[i]
      /\ Append(microtasks, <<k, c>>)[Len(microtasks) + 1] = <<k, c>>
  BY <1>1, AppendFacts
<1>3. Len(microtasks) \in Nat
  BY LenProperties
<1>4. Queued' = Queued \cup {c}
  <2>1. Queued' = {Append(microtasks, <<k, c>>)[i][2] : i \in 1..(Len(microtasks) + 1)}
    BY <1>2 DEF Queued
  <2>2. 1..(Len(microtasks) + 1) = 1..Len(microtasks) \cup {Len(microtasks) + 1}
    BY <1>3
  <2>3. <<k, c>>[2] = c
    OBVIOUS
  <2> QED
    BY <1>2, <2>1, <2>2, <2>3 DEF Queued
<1> QED
  BY <1>2, <1>3, <1>4

-----------------------------------------------------------------------------
\* The types hold at the start.
LEMMA TypedInit == Init => TypeOK
<1> SUFFICES ASSUME Init PROVE TypeOK
  OBVIOUS
<1>1. <<>> \in Seq({"register", "reject"} \X Calls)
      /\ <<>> \in Seq(UpMessage) /\ <<>> \in Seq(DownMessage)
  BY EmptySeq
<1>2. FALSE \in BOOLEAN /\ TRUE \in BOOLEAN
  BY Zenon
<1> QED
  BY <1>1, <1>2 DEF Init, TypeOK

\* Every step keeps the types; a task that runs is one that was queued.
LEMMA TypedStep == TypeOK /\ QueuedOnce /\ [Next]_vars => TypeOK'
<1> SUFFICES ASSUME TypeOK, QueuedOnce, [Next]_vars PROVE TypeOK'
  OBVIOUS
<1> USE DEF TypeOK
<1>1. CASE Open
  <2>1. up' \in Seq(UpMessage)
    BY <1>1, MessageFacts, AppendFacts DEF Open
  <2>2. keepalive' \in BOOLEAN
    BY <1>1, Zenon DEF Open
  <2> QED
    BY <1>1, <2>1, <2>2 DEF Open, server
<1>2. CASE Register
  <2>1. Head(microtasks)[2] \in Calls
        /\ microtasks' \in Seq({"register", "reject"} \X Calls)
    BY <1>2, HeadTaskFacts DEF Register
  <2> QED
    BY <1>2, <2>1 DEF Register, server
<1>3. CASE Reject
  <2>1. Head(microtasks)[2] \in Calls
        /\ microtasks' \in Seq({"register", "reject"} \X Calls)
    BY <1>3, HeadTaskFacts DEF Reject
  <2> QED
    BY <1>3, <2>1 DEF Reject, server
<1>4. CASE Message
  <2>1. down' \in Seq(DownMessage)
    BY <1>4, TailFacts DEF Message
  <2> QED
    BY <1>4, <2>1 DEF Message, Settle, server
<1>5. CASE KeepaliveTick
  <2>1. up' \in Seq(UpMessage)
    BY <1>5, MessageFacts, AppendFacts DEF KeepaliveTick
  <2> QED
    BY <1>5, <2>1 DEF KeepaliveTick, client, server
<1>6. CASE Close
  <2>1. keepalive' \in BOOLEAN /\ alive' \in BOOLEAN
    BY <1>6, Zenon DEF Close
  <2> QED
    BY <1>6, <2>1 DEF Close, server
<1>7. CASE Closed
  <2>1. up' \in Seq(UpMessage) /\ down' \in Seq(DownMessage)
    BY <1>7, EmptySeq DEF Closed
  <2> QED
    BY <1>7, <2>1 DEF Closed, server
<1>8. CASE SocketError
  <2>1. alive' \in BOOLEAN
    BY <1>8, Zenon DEF SocketError
  <2> QED
    BY <1>8, <2>1 DEF SocketError, server
<1>9. CASE ServerTakes
  <2>1. up' \in Seq(UpMessage) /\ Head(up) \in UpMessage
    BY <1>9, TailFacts DEF ServerTakes
  <2>2. down' \in Seq(DownMessage)
    BY <1>9, MessageFacts, AppendFacts DEF ServerTakes
  <2>3. greeted' \in BOOLEAN
    BY <1>9, Zenon DEF ServerTakes
  <2>4. held' \subseteq Calls
    BY <1>9, <2>1, MessageFacts DEF ServerTakes
  <2> QED
    BY <1>9, <2>1, <2>2, <2>3, <2>4 DEF ServerTakes, client
<1>10. CASE ServerEvent
  <2>1. down' \in Seq(DownMessage)
    BY <1>10, MessageFacts, AppendFacts DEF ServerEvent
  <2> QED
    BY <1>10, <2>1 DEF ServerEvent, client, server
<1>11. ASSUME NEW c \in Calls, Send(c) PROVE TypeOK'
  <2>1. CASE MaySend(readyState)
    <3>1. Request(c) \in UpMessage
      BY MessageFacts
    <3>2. up' = Append(up, Request(c))
      BY <1>11, <2>1 DEF Send
    <3>3. up' \in Seq(UpMessage)
      BY <3>1, <3>2, AppendFacts
    <3>4. microtasks' \in Seq({"register", "reject"} \X Calls)
      BY <1>11, <2>1, NewTaskFacts DEF Send
    <3> QED
      BY <1>11, <2>1, <3>3, <3>4 DEF Send, server
  <2>2. CASE ~MaySend(readyState)
    <3>1. microtasks' \in Seq({"register", "reject"} \X Calls)
      BY <1>11, <2>2, NewTaskFacts DEF Send
    <3> QED
      BY <1>11, <2>2, <3>1 DEF Send, server
  <2> QED
    BY <2>1, <2>2
<1>12. ASSUME NEW c \in Calls, Timeout(c) PROVE TypeOK'
  BY <1>12 DEF Timeout, Settle, server
<1>13. ASSUME NEW c \in Calls, ServerAnswers(c) PROVE TypeOK'
  <2>1. down' \in Seq(DownMessage)
    BY <1>13, MessageFacts, AppendFacts DEF ServerAnswers
  <2> QED
    BY <1>13, <2>1 DEF ServerAnswers, client
<1>14. CASE UNCHANGED vars
  BY <1>14 DEF vars, client, server
<1> QED
  BY <1>1, <1>2, <1>3, <1>4, <1>5, <1>6, <1>7, <1>8, <1>9, <1>10, <1>11, <1>12,
     <1>13, <1>14 DEF Next

-----------------------------------------------------------------------------
\* Continuations, transactions and calls keep in step.
LEMMA BookkeepingInit == Init => PendingIsWatched /\ QueuedOnce /\ SentFirst
  BY DEF Init, PendingIsWatched, QueuedOnce, SentFirst, Queued

\* Only the five actions that touch the bookkeeping have to be looked at.
LEMMA BookkeepingStep ==
    TypeOK /\ PendingIsWatched /\ QueuedOnce /\ SentFirst /\ [Next]_vars
        => PendingIsWatched' /\ QueuedOnce' /\ SentFirst'
<1> SUFFICES ASSUME TypeOK, PendingIsWatched, QueuedOnce, SentFirst, [Next]_vars
             PROVE  PendingIsWatched' /\ QueuedOnce' /\ SentFirst'
  OBVIOUS
<1> DEFINE Kept == PendingIsWatched' /\ QueuedOnce' /\ SentFirst'
           Untouched == UNCHANGED <<call, microtasks, transactions, timers, requested>>
<1>1. Untouched => Kept
  BY DEF PendingIsWatched, QueuedOnce, SentFirst, Queued
<1>2. Open \/ KeepaliveTick \/ Close \/ Closed \/ SocketError \/ ServerTakes \/ ServerEvent
      \/ (\E c \in Calls : ServerAnswers(c)) \/ UNCHANGED vars => Untouched
  BY DEF Open, KeepaliveTick, Close, Closed, SocketError, ServerTakes, ServerEvent,
         ServerAnswers, client, vars
<1>3. CASE Register
  <2> DEFINE r == Head(microtasks)[2]
  <2>1. /\ r \in Calls /\ r \in requested /\ r \in Queued
        /\ Queued' = Queued \ {r}
        /\ \A i \in 1..Len(microtasks') : /\ i + 1 \in 1..Len(microtasks)
                                          /\ microtasks'[i] = microtasks[i + 1]
        /\ Len(microtasks') \in Nat
    BY <1>3, HeadTaskFacts, LenProperties DEF Register, TypeOK
  <2>2. /\ transactions' = transactions \cup {r} /\ timers' = timers \cup {r}
        /\ UNCHANGED <<call, requested>>
    BY <1>3 DEF Register
  <2>3. PendingIsWatched'
    BY <2>1, <2>2 DEF PendingIsWatched
  <2>4. QueuedOnce'
    BY <2>1, <2>2, QueueShrinks
  <2>5. SentFirst'
    BY <2>1, <2>2 DEF SentFirst
  <2> QED
    BY <2>3, <2>4, <2>5
<1>4. CASE Reject
  <2> DEFINE r == Head(microtasks)[2]
  <2>1. /\ r \in Calls /\ r \notin requested /\ r \in Queued
        /\ Queued' = Queued \ {r}
        /\ \A i \in 1..Len(microtasks') : /\ i + 1 \in 1..Len(microtasks)
                                          /\ microtasks'[i] = microtasks[i + 1]
        /\ Len(microtasks') \in Nat
    BY <1>4, HeadTaskFacts, LenProperties DEF Reject, TypeOK
  <2>2. /\ call' = [call EXCEPT ![r] = "disconnected"]
        /\ UNCHANGED <<transactions, timers, requested>>
    BY <1>4 DEF Reject
  <2>3. \A c \in Calls : call'[c] = IF c = r THEN "disconnected" ELSE call[c]
    BY <2>2 DEF TypeOK
  <2>4. PendingIsWatched'
    BY <2>1, <2>2, <2>3 DEF PendingIsWatched
  <2>5. QueuedOnce'
    BY <2>1, <2>2, QueueShrinks
  <2>6. SentFirst'
    BY <2>2, <2>3 DEF SentFirst
  <2> QED
    BY <2>4, <2>5, <2>6
<1>5. ASSUME NEW S \in SUBSET transactions, NEW o \in {"resolved", "timeout"},
             Settle(S, o), UNCHANGED <<microtasks, requested>>,
             timers \cap (transactions \ S) \subseteq timers'
      PROVE  Kept
  <2>1. /\ \A c \in Calls : call'[c] = IF c \in S THEN o ELSE call[c]
        /\ transactions' = transactions \ S
    BY <1>5 DEF Settle
  <2>2. Queued' = Queued
    BY <1>5 DEF Queued
  <2>3. \A c \in S : c \in Calls /\ call[c] = "pending" /\ c \notin Queued
    BY DEF PendingIsWatched, TypeOK
  <2>4. \A c \in transactions \ S : c \in timers => c \in timers'
    BY <1>5
  <2>5. PendingIsWatched'
    BY <1>5, <2>1, <2>2, <2>3, <2>4 DEF PendingIsWatched
  <2>6. QueuedOnce'
    BY <1>5 DEF QueuedOnce
  <2>7. SentFirst'
    BY <1>5, <2>1 DEF SentFirst
  <2> QED
    BY <2>5, <2>6, <2>7
<1>6. CASE Message
  <2>1. Matching(Head(down)) \in SUBSET transactions
    BY DEF Matching
  <2> QED
    BY <1>5, <1>6, <2>1 DEF Message
<1>7. ASSUME NEW c \in Calls, Timeout(c) PROVE Kept
  <2>1. {c} \cap transactions \in SUBSET transactions
    OBVIOUS
  <2> QED
    BY <1>5, <1>7, <2>1 DEF Timeout
<1>8. ASSUME NEW c \in Calls, Send(c) PROVE Kept
  <2>1. PICK k \in {"register", "reject"} :
            /\ microtasks' = Append(microtasks, <<k, c>>)
            /\ requested' = IF k = "register" THEN requested \cup {c} ELSE requested
    BY <1>8 DEF Send
  <2>2. /\ Len(microtasks) \in Nat /\ Len(microtasks') = Len(microtasks) + 1
        /\ \A i \in 1..Len(microtasks) : microtasks'[i] = microtasks[i]
        /\ microtasks'[Len(microtasks) + 1] = <<k, c>>
        /\ Queued' = Queued \cup {c}
    BY <2>1, NewTaskFacts DEF TypeOK
  <2>3. /\ \A d \in Calls : call'[d] = IF d = c THEN "pending" ELSE call[d]
        /\ call[c] = "idle"
        /\ UNCHANGED <<transactions, timers>>
    BY <1>8 DEF Send, TypeOK
  <2>4. c \notin Queued /\ c \notin transactions /\ c \notin requested
    BY <2>3 DEF PendingIsWatched, SentFirst
  <2>5. PendingIsWatched'
    BY <2>2, <2>3, <2>4 DEF PendingIsWatched
  <2>6. QueuedOnce'
    <3>1. \A i \in 1..Len(microtasks) : microtasks[i][2] \in Queued
      BY DEF Queued
    <3>2. \A i \in 1..Len(microtasks') :
              \/ i \in 1..Len(microtasks) /\ microtasks'[i] = microtasks[i]
                 /\ microtasks'[i][2] # c
              \/ i = Len(microtasks) + 1 /\ microtasks'[i] = <<k, c>>
      BY <2>2, <2>4, <3>1
    <3> QED
      BY <2>1, <2>4, <3>2 DEF QueuedOnce
  <2>7. SentFirst'
    BY <2>1, <2>3 DEF SentFirst
  <2> QED
    BY <2>5, <2>6, <2>7
<1> QED
  BY <1>1, <1>2, <1>3, <1>4, <1>6, <1>7, <1>8 DEF Next

-----------------------------------------------------------------------------
\* A message joins the wire to the server; a request only if it is new.
LEMMA UpGrows ==
    ASSUME up \in Seq(UpMessage), NEW m \in UpMessage, up' = Append(up, m),
           RequestsUp, RequestsTaken,
           UNCHANGED <<held, answered>>, requested \subseteq requested',
           m.kind = "request" => m.call \in requested' /\ m.call \notin requested
    PROVE  RequestsUp'
<1>1. /\ Len(up) \in Nat /\ Len(up') = Len(up) + 1
      /\ \A i \in 1..Len(up) : up'[i] = up[i]
      /\ up'[Len(up) + 1] = m
  BY AppendFacts, LenProperties
<1>2. \A i \in 1..Len(up') : \/ i \in 1..Len(up) /\ up'[i] = up[i]
                             \/ i = Len(up) + 1 /\ up'[i] = m
  BY <1>1
<1>3. \A i \in 1..Len(up) : up[i].kind = "request" => up[i] # m
  BY DEF RequestsUp
<1>4. m.kind = "request" => m.call \notin held \cup answered
  BY DEF RequestsTaken
<1>5. ASSUME NEW i \in 1..Len(up'), up'[i].kind = "request"
      PROVE  up'[i].call \in requested' \ (held' \cup answered')
  BY <1>2, <1>4, <1>5 DEF RequestsUp
<1>6. ASSUME NEW i \in 1..Len(up'), NEW j \in 1..Len(up'),
             up'[i].kind = "request", up'[i] = up'[j]
      PROVE  i = j
  BY <1>2, <1>3, <1>6 DEF RequestsUp
<1> QED
  BY <1>5, <1>6 DEF RequestsUp

\* The oldest message is taken from the wire: a request moves to held.
LEMMA UpShrinks ==
    ASSUME up \in Seq(UpMessage), up # <<>>, up' = Tail(up), RequestsUp, RequestsTaken,
           held' = IF Head(up).kind = "request" THEN held \cup {Head(up).call} ELSE held,
           UNCHANGED <<answered, requested>>
    PROVE  RequestsUp' /\ RequestsTaken'
<1>1. /\ Len(up) \in Nat /\ Len(up') \in Nat
      /\ Head(up) = up[1] /\ 1 \in 1..Len(up)
      /\ \A i \in 1..Len(up') : i + 1 \in 1..Len(up) /\ i + 1 # 1 /\ up'[i] = up[i + 1]
  <2>1. /\ Tail(up) \in Seq(UpMessage)
        /\ Len(up) \in Nat /\ Len(up) > 0
        /\ Len(Tail(up)) = Len(up) - 1
        /\ \A i \in 1..Len(Tail(up)) : Tail(up)[i] = up[i + 1]
        /\ Head(up) = up[1]
    BY TailFacts
  <2> QED
    BY <2>1
<1>2. RequestsTaken'
  BY <1>1 DEF RequestsTaken, RequestsUp
<1>3. ASSUME NEW i \in 1..Len(up'), up'[i].kind = "request"
      PROVE  up'[i].call \in requested' \ (held' \cup answered')
  <2>1. up[i + 1].call \in requested \ (held \cup answered)
    BY <1>1, <1>3 DEF RequestsUp
  <2>2. up[i + 1] # Head(up)
    BY <1>1, <1>3 DEF RequestsUp
  <2>3. Head(up).kind = "request" => up[i + 1].call # Head(up).call
    <3>1. up[i + 1] \in UpMessage /\ Head(up) \in UpMessage
      BY <1>1, ElementOfSeq
    <3> QED
      BY <1>1, <1>3, <2>2, <3>1 DEF UpMessage, Connect, Ping, Request
  <2> QED
    BY <1>1, <2>1, <2>3
<1>4. ASSUME NEW i \in 1..Len(up'), NEW j \in 1..Len(up'),
             up'[i].kind = "request", up'[i] = up'[j]
      PROVE  i = j
  <2>1. i + 1 = j + 1
    BY <1>1, <1>4 DEF RequestsUp
  <2> QED
    BY <2>1
<1> QED
  BY <1>2, <1>3, <1>4 DEF RequestsUp

\* A message joins the wire from the server; a reply only to an answered call.
LEMMA DownGrows ==
    ASSUME down \in Seq(DownMessage), NEW m \in DownMessage, down' = Append(down, m),
           RepliesDown, answered \subseteq answered',
           m.kind = "reply" => m.call \in answered'
    PROVE  RepliesDown'
<1>1. /\ Len(down) \in Nat /\ Len(down') = Len(down) + 1
      /\ \A i \in 1..Len(down) : down'[i] = down[i]
      /\ down'[Len(down) + 1] = m
  BY AppendFacts, LenProperties
<1>2. \A i \in 1..Len(down') : \/ i \in 1..Len(down) /\ down'[i] = down[i]
                               \/ i = Len(down) + 1 /\ down'[i] = m
  BY <1>1
<1> QED
  BY <1>2 DEF RepliesDown

\* Nothing is on the wires at the start.
LEMMA WireInit == Init => OnePlace /\ Opening
  BY DEF Init, OnePlace, RequestsUp, RequestsTaken, RepliesDown, Opening, ConnectGoesFirst

\* No step puts a request in two places, or a reply before its answer.
LEMMA OnePlaceStep ==
    TypeOK /\ SentFirst /\ OnePlace /\ [Next]_vars => OnePlace'
<1> SUFFICES ASSUME TypeOK, SentFirst, OnePlace, [Next]_vars PROVE OnePlace'
  OBVIOUS
<1> USE DEF OnePlace
<1> DEFINE SameUp == UNCHANGED <<up, requested, held, answered>>
           SameDown == UNCHANGED <<down, answered>>
<1>1. SameUp => RequestsUp' /\ RequestsTaken'
  BY DEF RequestsUp, RequestsTaken
<1>2. SameDown => RepliesDown'
  BY DEF RepliesDown
<1>3. up \in Seq(UpMessage) /\ down \in Seq(DownMessage)
  BY DEF TypeOK
<1>4. Register \/ Reject \/ Close \/ SocketError \/ (\E c \in Calls : Timeout(c))
      \/ UNCHANGED vars => SameUp /\ SameDown
  BY DEF Register, Reject, Close, SocketError, Timeout, vars, client, server
<1>5. CASE Open
  <2>1. up' = Append(up, Connect) /\ UNCHANGED <<requested, held, answered>> /\ SameDown
    BY <1>5 DEF Open, server
  <2>2. RequestsUp'
    BY <1>3, <2>1, UpGrows, MessageFacts
  <2> QED
    BY <1>2, <2>1, <2>2 DEF RequestsTaken
<1>6. CASE KeepaliveTick
  <2>1. up' = Append(up, Ping) /\ UNCHANGED <<requested, held, answered>> /\ SameDown
    BY <1>6 DEF KeepaliveTick, client, server
  <2>2. RequestsUp'
    BY <1>3, <2>1, UpGrows, MessageFacts
  <2> QED
    BY <1>2, <2>1, <2>2 DEF RequestsTaken
<1>7. CASE Message
  <2>1. down' = Tail(down) /\ down # <<>> /\ SameUp
    BY <1>7 DEF Message, server
  <2>2. /\ Tail(down) \in Seq(DownMessage)
        /\ Len(down) \in Nat /\ Len(down) > 0
        /\ Len(Tail(down)) = Len(down) - 1
        /\ \A i \in 1..Len(Tail(down)) : Tail(down)[i] = down[i + 1]
    BY <1>3, <2>1, TailFacts
  <2>3. \A i \in 1..Len(down') : i + 1 \in 1..Len(down) /\ down'[i] = down[i + 1]
    BY <2>1, <2>2
  <2>4. RepliesDown'
    BY <2>1, <2>3 DEF RepliesDown
  <2> QED
    BY <1>1, <2>1, <2>4
<1>8. CASE Closed
  <2>1. up' = <<>> /\ down' = <<>> /\ UNCHANGED <<requested, held, answered>>
    BY <1>8 DEF Closed, server
  <2> QED
    BY <2>1 DEF RequestsUp, RequestsTaken, RepliesDown
<1>9. CASE ServerTakes
  <2>1. /\ up # <<>> /\ up' = Tail(up)
        /\ held' = IF Head(up).kind = "request" THEN held \cup {Head(up).call} ELSE held
        /\ down' = IF Head(up) = Ping THEN Append(down, Pong) ELSE down
        /\ UNCHANGED <<answered, requested>>
    BY <1>9 DEF ServerTakes, client
  <2>2. RequestsUp' /\ RequestsTaken'
    BY <1>3, <2>1, UpShrinks
  <2>3. RepliesDown'
    BY <1>2, <1>3, <2>1, DownGrows, MessageFacts
  <2> QED
    BY <2>2, <2>3
<1>10. CASE ServerEvent
  <2>1. down' = Append(down, Event) /\ SameUp
    BY <1>10 DEF ServerEvent, client, server
  <2>2. RepliesDown'
    BY <1>3, <2>1, DownGrows, MessageFacts
  <2> QED
    BY <1>1, <2>1, <2>2
<1>11. ASSUME NEW c \in Calls, ServerAnswers(c) PROVE OnePlace'
  <2>1. /\ c \in held /\ held' = held \ {c} /\ answered' = answered \cup {c}
        /\ down' = Append(down, Reply(c)) /\ UNCHANGED <<up, requested>>
    BY <1>11 DEF ServerAnswers, client
  <2>2. RequestsUp' /\ RequestsTaken'
    BY <2>1 DEF RequestsUp, RequestsTaken
  <2>3. Reply(c) \in DownMessage /\ Reply(c).call = c
    BY MessageFacts
  <2>4. RepliesDown'
    BY <1>3, <2>1, <2>3, DownGrows
  <2> QED
    BY <2>2, <2>4
<1>12. ASSUME NEW c \in Calls, Send(c) PROVE OnePlace'
  <2>1. c \notin requested /\ UNCHANGED <<held, answered>> /\ SameDown
    BY <1>12 DEF Send, SentFirst, server
  <2>2. CASE MaySend(readyState)
    <3>1. up' = Append(up, Request(c)) /\ requested' = requested \cup {c}
      BY <1>12, <2>2 DEF Send
    <3>2. Request(c) \in UpMessage /\ Request(c).call = c
      BY MessageFacts
    <3>3. RequestsUp'
      BY <1>3, <2>1, <3>1, <3>2, UpGrows
    <3> QED
      BY <1>2, <2>1, <3>1, <3>3 DEF RequestsTaken
  <2>3. CASE ~MaySend(readyState)
    <3>1. SameUp
      BY <1>12, <2>1, <2>3 DEF Send
    <3> QED
      BY <1>1, <1>2, <2>1, <3>1
  <2> QED
    BY <2>2, <2>3
<1> QED
  BY <1>1, <1>2, <1>4, <1>5, <1>6, <1>7, <1>8, <1>9, <1>10, <1>11, <1>12 DEF Next

\* Only the opening writes first, and it writes CONNECT.
LEMMA OpeningStep == TypeOK /\ Opening /\ [Next]_vars => Opening'
<1> SUFFICES ASSUME TypeOK, Opening, [Next]_vars PROVE Opening'
  OBVIOUS
<1>1. up \in Seq(UpMessage)
  BY DEF TypeOK
<1>2. UNCHANGED <<readyState, up, greeted>> => Opening'
  BY DEF Opening, ConnectGoesFirst
<1>3. ASSUME NEW m \in UpMessage, up' = Append(up, m), greeted' = greeted,
             \/ readyState = "OPEN" /\ readyState' = "OPEN"
             \/ readyState = "CONNECTING" /\ readyState' = "OPEN" /\ m = Connect
      PROVE  Opening'
  <2>1. /\ up' # <<>>
        /\ up # <<>> => Head(up') = Head(up)
        /\ up = <<>> => Head(up') = m
    BY <1>1, <1>3, AppendFacts
  <2> QED
    BY <1>3, <2>1 DEF Opening, ConnectGoesFirst
<1>4. Register \/ Reject \/ Message \/ SocketError \/ ServerEvent
      \/ (\E c \in Calls : Timeout(c) \/ ServerAnswers(c)) \/ UNCHANGED vars
      => UNCHANGED <<readyState, up, greeted>>
  BY DEF Register, Reject, Message, SocketError, ServerEvent, Timeout, ServerAnswers,
         vars, client, server
<1>5. CASE Open
  BY <1>3, <1>5, MessageFacts DEF Open, server
<1>6. CASE KeepaliveTick
  BY <1>3, <1>6, MessageFacts DEF KeepaliveTick, client, server
<1>7. CASE Close
  BY <1>7 DEF Close, server, Opening, ConnectGoesFirst
<1>8. CASE Closed
  BY <1>8 DEF Closed, server, Opening, ConnectGoesFirst
<1>9. CASE ServerTakes
  BY <1>9 DEF ServerTakes, client, Opening, ConnectGoesFirst
<1>10. ASSUME NEW c \in Calls, Send(c) PROVE Opening'
  <2>1. CASE MaySend(readyState)
    <3>1. /\ up' = Append(up, Request(c)) /\ UNCHANGED <<greeted, readyState>>
          /\ readyState = "OPEN"
      BY <1>10, <2>1 DEF Send, MaySend, server
    <3>2. Request(c) \in UpMessage
      BY MessageFacts
    <3>3. /\ up' # <<>>
          /\ up # <<>> => Head(up') = Head(up)
      BY <1>1, <3>1, <3>2, AppendFacts
    <3> QED
      BY <3>1, <3>3 DEF Opening, ConnectGoesFirst
  <2>2. CASE ~MaySend(readyState)
    BY <1>2, <1>10, <2>2 DEF Send, server
  <2> QED
    BY <2>1, <2>2
<1> QED
  BY <1>2, <1>4, <1>5, <1>6, <1>7, <1>8, <1>9, <1>10 DEF Next

-----------------------------------------------------------------------------
\* The inductive invariant.
LEMMA RumorInvariant == Spec => []RumorIInv
<1>1. Init => RumorIInv
  BY TypedInit, BookkeepingInit, WireInit DEF RumorIInv
<1>2. RumorIInv /\ [Next]_vars => RumorIInv'
  BY TypedStep, BookkeepingStep, OnePlaceStep, OpeningStep DEF RumorIInv
<1> QED
  BY <1>1, <1>2, PTL DEF Spec

\* The variables of the transport keep their types.
THEOREM TransportTyped == Spec => []TypeOK
<1>1. RumorIInv => TypeOK
  BY DEF RumorIInv
<1> QED
  BY <1>1, RumorInvariant, PTL

\* A pending call always has its continuation queued, or a transaction with a timer.
THEOREM PendingCallsAreWatched == Spec => []PendingIsWatched
<1>1. RumorIInv => PendingIsWatched
  BY DEF RumorIInv
<1> QED
  BY <1>1, RumorInvariant, PTL

\* Until the server has taken a CONNECT, a CONNECT heads the wire.
THEOREM TheServerSeesConnectFirst == Spec => []ConnectGoesFirst
<1>1. RumorIInv => ConnectGoesFirst
  BY DEF RumorIInv, Opening
<1> QED
  BY <1>1, RumorInvariant, PTL

\* A message is taken only when no continuation is queued: a call that is pending
\* then has been registered, and its reply settles it.
THEOREM RepliesAreNeverMissed == Spec => ReplyIsNeverMissed
<1> DEFINE Settles(c) == Message /\ Head(down) = Reply(c) /\ call[c] = "pending"
                            => call'[c] = "resolved"
<1>1. RumorIInv /\ [Next]_vars => \A c \in Calls : Settles(c)
  <2> SUFFICES ASSUME RumorIInv, NEW c \in Calls, Message, Head(down) = Reply(c),
                      call[c] = "pending"
               PROVE  call'[c] = "resolved"
    OBVIOUS
  <2>1. Queued = {}
    <3>1. Len(microtasks) = 0
      BY DEF Message, EventLoopFree
    <3> QED
      BY <3>1 DEF Queued
  <2>2. c \in transactions
    BY <2>1 DEF RumorIInv, PendingIsWatched
  <2>3. Matching(Head(down)) = {c}
    BY <2>2, MessageFacts DEF Matching
  <2> QED
    BY <2>3 DEF Message, Settle
<1>2. RumorIInv /\ [Next]_vars => [\A c \in Calls : Settles(c)]_vars
  BY <1>1
<1> QED
  BY <1>2, RumorInvariant, PTL DEF Spec, ReplyIsNeverMissed

-----------------------------------------------------------------------------
\* A step of the transport settles one call, puts a call on the wire, answers one, or
\* leaves what RpcCalls sees alone.
LEMMA StepRefines ==
    RumorIInv /\ [Next]_vars => [Rpc!Next]_<<call, requested, answered>>
<1> SUFFICES ASSUME RumorIInv, [Next]_vars
             PROVE  Rpc!Next \/ UNCHANGED <<call, requested, answered>>
  OBVIOUS
<1>t. TypeOK /\ PendingIsWatched /\ QueuedOnce /\ SentFirst /\ OnePlace
  BY DEF RumorIInv
<1>1. Open \/ Register \/ KeepaliveTick \/ Close \/ Closed \/ SocketError \/ ServerTakes
      \/ ServerEvent \/ UNCHANGED vars => UNCHANGED <<call, requested, answered>>
  BY DEF Open, Register, KeepaliveTick, Close, Closed, SocketError, ServerTakes,
         ServerEvent, vars, client, server
<1>2. ASSUME NEW c \in Calls, NEW o \in Rpc!Outcomes, call[c] = "pending",
             Rpc!MayEnd(c, o), \A d \in Calls : call'[d] = IF d = c THEN o ELSE call[d],
             call' = [d \in Calls |-> call'[d]], UNCHANGED <<requested, answered>>
      PROVE  Rpc!Next
  <2>1. call' = [call EXCEPT ![c] = o]
    BY <1>t, <1>2 DEF TypeOK
  <2> QED
    BY <1>2, <2>1 DEF Rpc!Next, Rpc!Settle
<1>3. CASE Reject
  <2> DEFINE r == Head(microtasks)[2]
  <2>1. r \in Calls /\ r \notin requested /\ r \in Queued
    BY <1>t, <1>3, HeadTaskFacts DEF Reject, TypeOK
  <2>2. call[r] = "pending"
    BY <1>t, <2>1 DEF PendingIsWatched
  <2>3. call' = [call EXCEPT ![r] = "disconnected"] /\ UNCHANGED <<requested, answered>>
    BY <1>3 DEF Reject, server
  <2>4. "disconnected" \in Rpc!Outcomes /\ Rpc!MayEnd(r, "disconnected")
    BY <2>1 DEF Rpc!Outcomes, Rpc!MayEnd
  <2> QED
    BY <2>1, <2>2, <2>3, <2>4 DEF Rpc!Next, Rpc!Settle
<1>4. ASSUME NEW c \in Calls, NEW o \in Rpc!Outcomes, Settle({c}, o), c \in transactions,
             Rpc!MayEnd(c, o), UNCHANGED <<requested, answered>>
      PROVE  Rpc!Next
  <2>1. call[c] = "pending"
    BY <1>t, <1>4 DEF PendingIsWatched
  <2>2. call' = [d \in Calls |-> IF d \in {c} THEN o ELSE call[d]]
    BY <1>4 DEF Settle
  <2> QED
    BY <1>2, <1>4, <2>1, <2>2
<1>5. ASSUME NEW o, Settle({}, o), UNCHANGED <<requested, answered>>
      PROVE  UNCHANGED <<call, requested, answered>>
  BY <1>t, <1>5 DEF Settle, TypeOK
<1>6. CASE Message
  <2> DEFINE m == Head(down)
  <2>1. Settle(Matching(m), "resolved") /\ down # <<>> /\ UNCHANGED <<requested, answered>>
    BY <1>6 DEF Message, server
  <2>2. CASE Matching(m) = {}
    BY <1>5, <2>1, <2>2
  <2>3. CASE Matching(m) # {}
    <3>1. m.kind = "reply" /\ m.call \in transactions /\ Matching(m) = {m.call}
      BY <2>3 DEF Matching
    <3>2. m = down[1] /\ 1 \in 1..Len(down)
      <4>1. Len(down) > 0 /\ Len(down) \in Nat /\ m = down[1]
        BY <1>t, <2>1, TailFacts DEF TypeOK
      <4> QED
        BY <4>1
    <3>3. m.call \in answered /\ m.call \in Calls
      BY <1>t, <3>1, <3>2 DEF OnePlace, RepliesDown, TypeOK
    <3>4. "resolved" \in Rpc!Outcomes /\ Rpc!MayEnd(m.call, "resolved")
      BY <3>3 DEF Rpc!Outcomes, Rpc!MayEnd
    <3> QED
      BY <1>4, <2>1, <3>1, <3>3, <3>4
  <2> QED
    BY <2>2, <2>3
<1>7. ASSUME NEW c \in Calls, Timeout(c)
      PROVE  Rpc!Next \/ UNCHANGED <<call, requested, answered>>
  <2>1. Settle({c} \cap transactions, "timeout") /\ UNCHANGED <<requested, answered>>
    BY <1>7 DEF Timeout, server
  <2>2. CASE c \in transactions
    <3>1. {c} \cap transactions = {c} /\ c \in requested
      BY <1>t, <2>2 DEF SentFirst
    <3>2. "timeout" \in Rpc!Outcomes /\ Rpc!MayEnd(c, "timeout")
      BY <3>1 DEF Rpc!Outcomes, Rpc!MayEnd
    <3> QED
      BY <1>4, <2>1, <2>2, <3>1, <3>2
  <2>3. CASE c \notin transactions
    <3>1. {c} \cap transactions = {}
      BY <2>3
    <3> QED
      BY <1>5, <2>1, <3>1
  <2> QED
    BY <2>2, <2>3
<1>8. ASSUME NEW c \in Calls, Send(c) PROVE Rpc!Next
  <2>1. /\ call[c] = "idle" /\ call' = [call EXCEPT ![c] = "pending"]
        /\ requested' \in {requested, requested \cup {c}} /\ UNCHANGED answered
    BY <1>8 DEF Send, server
  <2> QED
    BY <2>1 DEF Rpc!Next, Rpc!Request
<1>9. ASSUME NEW c \in Calls, ServerAnswers(c) PROVE Rpc!Next
  <2>1. /\ c \in held /\ answered' = answered \cup {c} /\ UNCHANGED <<call, requested>>
    BY <1>9 DEF ServerAnswers, client
  <2>2. c \in requested \ answered
    BY <1>t, <2>1 DEF OnePlace, RequestsTaken
  <2> QED
    BY <2>1, <2>2 DEF Rpc!Next, Rpc!Answer
<1> QED
  BY <1>1, <1>3, <1>6, <1>7, <1>8, <1>9 DEF Next

\* The transport keeps the promise of RpcCalls, for any set of calls: every call ends
\* at most once, and in the way its fate on the wire allows.
THEOREM TransportImplementsRpcCalls == Spec => ImplementsRpcCalls
<1>1. Init => Rpc!Init
  BY DEF Init, Rpc!Init
<1> QED
  BY <1>1, StepRefines, RumorInvariant, PTL DEF Spec, ImplementsRpcCalls, Rpc!Spec

-----------------------------------------------------------------------------
(***************************************************************************)
(* The bytes. What is written lies in the message part behind part         *)
(* (PartsLie), so each list is a row of counted strings of known places    *)
(* (FlattenAt), and reading a row takes one string after the other         *)
(* (ReadsAll). Keys and values lie in turn. Counting is done with sets of  *)
(* naturals that hold 0 and the next of each (NatSet).                     *)
(***************************************************************************)
\* A set of naturals with 0 and the next of each is all of them.
LEMMA NatSet ==
    ASSUME NEW S \in SUBSET Nat, 0 \in S, \A n \in S : n + 1 \in S
    PROVE  S = Nat
<1> SUFFICES ASSUME NEW x \in Nat \ S PROVE FALSE
  OBVIOUS
<1>1. \E m \in Nat \ S : \A y \in Nat \ S : ~(<<y, m>> \in OpToRel(<, Nat))
  BY NatLessThanWellFounded, WFMin
<1>2. PICK m \in Nat \ S : \A y \in Nat \ S : ~(<<y, m>> \in OpToRel(<, Nat))
  BY <1>1
<1>3. \A y \in Nat \ S : ~(y < m)
  BY <1>2 DEF OpToRel
<1>4. m # 0 /\ m - 1 \in Nat /\ m - 1 < m /\ (m - 1) + 1 = m
  <2>1. m \in Nat /\ m # 0
    BY <1>2
  <2> QED
    BY <2>1
<1>5. m - 1 \in S
  BY <1>3, <1>4
<1> QED
  BY <1>2, <1>4, <1>5

LEMMA DivisionOf ==
    ASSUME NEW n \in Nat, NEW d \in Nat \ {0}
    PROVE  /\ n \div d \in Nat /\ n % d \in Nat /\ n % d < d
           /\ n = d * (n \div d) + (n % d)
<1>1. n % d \in 0..(d - 1)
  OBVIOUS
<1>2. \A x, y \in Int : y > 0 => x = y * (x \div y) + (x % y)
  BY Z3
<1>3. n = d * (n \div d) + (n % d)
  BY <1>2
<1>4. n \div d \in Nat
  OBVIOUS
<1> QED
  BY <1>1, <1>3, <1>4

\* A quotient is what is left of a multiple and a rest.
LEMMA DivisionIs ==
    ASSUME NEW d \in Nat \ {0}, NEW q \in Nat, NEW r \in Nat, r < d
    PROVE  (d * q + r) \div d = q /\ (d * q + r) % d = r
<1> DEFINE n == d * q + r
           Q == n \div d
           R == n % d
<1>1. n \in Nat
  OBVIOUS
<1>2. Q \in Nat /\ R \in Nat /\ R < d /\ n = d * Q + R
  BY <1>1, DivisionOf
<1>3. n = d * q + r
  OBVIOUS
<1> HIDE DEF n, Q, R
<1>4. q = Q
  <2>1. ASSUME NEW x \in Nat, NEW y \in Nat, x < y PROVE d * x + d <= d * y
    <3>1. PICK z \in Nat : y = x + 1 + z
      <4>1. y - x - 1 \in Nat /\ y = x + 1 + (y - x - 1)
        BY <2>1
      <4> QED
        BY <4>1
    <3>2. d * y = d * x + d + d * z /\ d * z \in Nat /\ d * x \in Nat
      BY <3>1
    <3> QED
      BY <3>2
  <2>2. d * q \in Nat /\ d * Q \in Nat
    BY <1>2
  <2>3. ~(q < Q)
    <3> SUFFICES ASSUME q < Q PROVE FALSE
      OBVIOUS
    <3>1. d * q + d <= d * Q
      BY <1>2, <2>1
    <3> QED
      BY <1>2, <1>3, <2>2, <3>1
  <2>4. ~(Q < q)
    <3> SUFFICES ASSUME Q < q PROVE FALSE
      OBVIOUS
    <3>1. d * Q + d <= d * q
      BY <1>2, <2>1
    <3> QED
      BY <1>2, <1>3, <2>2, <3>1
  <2> QED
    BY <1>2, <2>3, <2>4
<1>5. r = R
  <2>1. d * q \in Nat /\ d * q + r = d * q + R
    BY <1>2, <1>3, <1>4
  <2> QED
    BY <1>2, <2>1
<1> QED
  BY <1>4, <1>5 DEF n, Q, R

LEMMA SmallQuotient ==
    ASSUME NEW n \in Nat, NEW d \in Nat \ {0}, NEW e \in Nat, n < d * e
    PROVE  n \div d < e
  BY DivisionOf

LEMMA DivisionTwice ==
    ASSUME NEW n \in Nat, NEW d \in Nat \ {0}, NEW e \in Nat \ {0}
    PROVE  n \div (d * e) = (n \div d) \div e
  OBVIOUS

\* Two bytes hold any number below Base2, and four any below Base2 * Base2.
LEMMA TwoBytes ==
    ASSUME NEW n \in Nat, n < Base2
    PROVE  /\ Uint8(n \div Base) * Base + Uint8(n) = n
           /\ Uint8(n \div Base) \in Nat /\ Uint8(n) \in Nat
<1>1. Base \in Nat \ {0}
  BY BaseAssumption
<1>2. n \div Base \in Nat /\ n \div Base < Base
  BY <1>1, DivisionOf, SmallQuotient DEF Base2
<1>3. (n \div Base) % Base = n \div Base
  BY <1>1, <1>2
<1>4. n % Base \in Nat /\ n = Base * (n \div Base) + (n % Base)
  BY <1>1, DivisionOf
<1>5. (n \div Base) * Base = Base * (n \div Base)
  BY <1>1, <1>2
<1> QED
  BY <1>2, <1>3, <1>4, <1>5 DEF Uint8

LEMMA FourBytes ==
    ASSUME NEW n \in Nat, n < Base2 * Base2
    PROVE  ((Uint8(n \div (Base2 * Base)) * Base + Uint8(n \div Base2)) * Base
                + Uint8(n \div Base)) * Base + Uint8(n) = n
<1>1. Base \in Nat \ {0} /\ Base2 \in Nat \ {0} /\ Base2 * Base \in Nat \ {0}
  BY BaseAssumption DEF Base2
<1> DEFINE a == n \div Base
           b == a \div Base
           c == b \div Base
<1>2. a \in Nat /\ b \in Nat /\ c \in Nat
  BY <1>1, DivisionOf
<1>3. n \div Base2 = b
  BY <1>1, DivisionTwice DEF Base2
<1>4. n \div (Base2 * Base) = c
  <2>1. n \div (Base2 * Base) = (n \div Base2) \div Base
    BY <1>1, DivisionTwice
  <2> QED
    BY <1>3, <2>1
<1>5. c < Base
  <2>1. n < (Base2 * Base) * Base
    BY <1>1 DEF Base2
  <2> QED
    BY <1>1, <1>4, <2>1, SmallQuotient
<1>6. c % Base = c
  BY <1>1, <1>2, <1>5
<1>7. n = a * Base + (n % Base) /\ a = b * Base + (a % Base) /\ b = c * Base + (b % Base)
  <2>1. \A x \in Nat : x = (x \div Base) * Base + (x % Base)
    <3> SUFFICES ASSUME NEW x \in Nat PROVE x = (x \div Base) * Base + (x % Base)
      OBVIOUS
    <3>1. x \div Base \in Nat /\ x % Base \in Nat /\ x = Base * (x \div Base) + (x % Base)
      BY <1>1, DivisionOf
    <3>2. (x \div Base) * Base = Base * (x \div Base)
      BY <1>1, <3>1
    <3> QED
      BY <3>1, <3>2
  <2> QED
    BY <1>2, <2>1
<1> HIDE DEF a, b, c
<1>8. Uint8(n \div (Base2 * Base)) = c /\ Uint8(n \div Base2) = b % Base
      /\ Uint8(n \div Base) = a % Base /\ Uint8(n) = n % Base
  BY <1>3, <1>4, <1>6 DEF Uint8, a
<1>9. ((c * Base + (b % Base)) * Base + (a % Base)) * Base + (n % Base) = n
  BY <1>7, Zenon
<1> QED
  BY <1>8, <1>9

-----------------------------------------------------------------------------
Bytes == Seq(Nat)

\* The bytes s lie in b from o on.
At(b, o, s) ==
    /\ o + Len(s) <= Len(b) + 1
    /\ \A i \in 1..Len(s) : b[o + i - 1] = s[i]

LEMMA AtWhole ==
    ASSUME NEW b \in Bytes
    PROVE  At(b, 1, b)
<1>1. Len(b) \in Nat
  BY DEF Bytes
<1> QED
  BY <1>1 DEF At

LEMMA AtConcat ==
    ASSUME NEW b \in Bytes, NEW s \in Bytes, NEW t \in Bytes, NEW o \in Nat \ {0}, At(b, o, s \o t)
    PROVE  At(b, o, s) /\ At(b, o + Len(s), t) /\ s \o t \in Bytes /\ Len(s \o t) = Len(s) + Len(t)
<1>1. Len(s) \in Nat /\ Len(t) \in Nat /\ Len(b) \in Nat
  BY DEF Bytes
<1>2. /\ s \o t \in Bytes
      /\ Len(s \o t) = Len(s) + Len(t)
      /\ \A i \in 1..(Len(s) + Len(t)) :
            (s \o t)[i] = IF i <= Len(s) THEN s[i] ELSE t[i - Len(s)]
  BY ConcatProperties DEF Bytes
<1>3. \A i \in 1..Len(s) : b[o + i - 1] = s[i]
  BY <1>1, <1>2 DEF At
<1>4. ASSUME NEW i \in 1..Len(t) PROVE b[o + Len(s) + i - 1] = t[i]
  <2>1. Len(s) + i \in 1..(Len(s) + Len(t)) /\ ~(Len(s) + i <= Len(s)) /\ (Len(s) + i) - Len(s) = i
    BY <1>1
  <2>2. (s \o t)[Len(s) + i] = t[i]
    BY <1>2, <2>1
  <2>3. b[o + (Len(s) + i) - 1] = (s \o t)[Len(s) + i]
    BY <1>2, <2>1 DEF At
  <2>4. o + (Len(s) + i) - 1 = o + Len(s) + i - 1
    BY <1>1
  <2> QED
    BY <2>2, <2>3, <2>4
<1>5. o + Len(s) <= Len(b) + 1 /\ (o + Len(s)) + Len(t) <= Len(b) + 1
  BY <1>1, <1>2 DEF At
<1> QED
  BY <1>2, <1>3, <1>4, <1>5 DEF At

LEMMA CountedIs ==
    ASSUME NEW str \in Bytes
    PROVE  /\ Counted(str) \in Bytes /\ Len(Counted(str)) = Len(str) + 2
           /\ Counted(str)[1] = Uint8(Len(str) \div Base)
           /\ Counted(str)[2] = Uint8(Len(str))
           /\ \A i \in 1..Len(str) : Counted(str)[i + 2] = str[i]
<1>1. Len(str) \in Nat /\ Base \in Nat \ {0}
  BY BaseAssumption DEF Bytes
<1>2. Uint8(Len(str) \div Base) \in Nat /\ Uint8(Len(str)) \in Nat
  BY <1>1, DivisionOf DEF Uint8
<1> DEFINE u == Uint8(Len(str) \div Base)
           v == Uint8(Len(str))
<1> HIDE DEF u, v
<1>3. <<u, v>> \in Seq(Nat) /\ Len(<<u, v>>) = 2 /\ <<u, v>>[1] = u /\ <<u, v>>[2] = v
  BY <1>2 DEF u, v
<1>4. /\ <<u, v>> \o str \in Seq(Nat) /\ Len(<<u, v>> \o str) = 2 + Len(str)
      /\ \A i \in 1..(2 + Len(str)) :
            (<<u, v>> \o str)[i] = IF i <= 2 THEN <<u, v>>[i] ELSE str[i - 2]
  BY <1>3, ConcatProperties DEF Bytes
<1>5. (<<u, v>> \o str)[1] = u /\ (<<u, v>> \o str)[2] = v
  BY <1>1, <1>3, <1>4
<1>6. ASSUME NEW i \in 1..Len(str) PROVE (<<u, v>> \o str)[i + 2] = str[i]
  <2>1. i + 2 \in 1..(2 + Len(str)) /\ ~(i + 2 <= 2) /\ (i + 2) - 2 = i
    BY <1>1
  <2> QED
    BY <1>4, <2>1
<1>7. Counted(str) = <<u, v>> \o str
  BY DEF Counted, u, v
<1> QED
  BY <1>1, <1>4, <1>5, <1>6, <1>7 DEF Bytes, u, v

\* A string that lies in b is read.
LEMMA ReadsOne ==
    ASSUME NEW b \in Bytes, NEW o \in Nat \ {0}, NEW strs, NEW str \in Bytes, Len(str) < Base2,
           At(b, o, Counted(str))
    PROVE  Read1([bytes |-> b, offset |-> o, strs |-> strs])
           = [bytes |-> b, offset |-> o + 2 + Len(str), strs |-> Append(strs, str)]
<1>1. Len(str) \in Nat /\ Len(b) \in Nat
  BY DEF Bytes
<1> DEFINE c == Counted(str)
           n == Len(str)
<1>2. /\ c \in Bytes /\ Len(c) = n + 2
      /\ c[1] = Uint8(n \div Base) /\ c[2] = Uint8(n)
      /\ \A i \in 1..n : c[i + 2] = str[i]
  BY CountedIs
<1> HIDE DEF c
<1>3. o + (n + 2) <= Len(b) + 1 /\ \A i \in 1..(n + 2) : b[o + i - 1] = c[i]
  BY <1>2 DEF At, c
<1>4. b[o] = c[1] /\ b[o + 1] = c[2]
  <2>1. 1 \in 1..(n + 2) /\ 2 \in 1..(n + 2) /\ o + 1 - 1 = o /\ o + 2 - 1 = o + 1
    BY <1>1
  <2> QED
    BY <1>3, <2>1
<1>5. b[o] * Base + b[o + 1] = n
  BY <1>1, <1>2, <1>4, TwoBytes
<1>6. \A i \in 1..n : b[o + 2 + i - 1] = str[i]
  <2> SUFFICES ASSUME NEW i \in 1..n PROVE b[o + 2 + i - 1] = str[i]
    OBVIOUS
  <2>1. i + 2 \in 1..(n + 2) /\ o + (i + 2) - 1 = o + 2 + i - 1
    BY <1>1
  <2> QED
    BY <1>2, <1>3, <2>1
<1>7. SubSeq(b, o + 2, o + 1 + n) = str
  <2> DEFINE s == SubSeq(b, o + 2, o + 1 + n)
  <2>1. \A i \in (o + 2)..(o + 1 + n) : b[i] \in Nat
    <3> SUFFICES ASSUME NEW i \in (o + 2)..(o + 1 + n) PROVE b[i] \in Nat
      OBVIOUS
    <3>1. i \in 1..Len(b)
      BY <1>1, <1>3
    <3> QED
      BY <3>1, ElementOfSeq DEF Bytes
  <2>2. o + 2 \in Int /\ o + 1 + n \in Int /\ (o + 1 + n) - (o + 2) + 1 = n
    BY <1>1
  <2>3. /\ s \in Seq(Nat)
        /\ Len(s) = IF o + 2 <= o + 1 + n THEN (o + 1 + n) - (o + 2) + 1 ELSE 0
        /\ \A i \in 1..((o + 1 + n) - (o + 2) + 1) : s[i] = b[(o + 2) + i - 1]
    BY <2>1, <2>2, SubSeqProperties
  <2> HIDE DEF s
  <2>4. Len(s) = n
    BY <1>1, <2>2, <2>3
  <2>5. \A i \in 1..n : s[i] = str[i]
    BY <1>6, <2>2, <2>3
  <2>6. s = str
    BY <2>3, <2>4, <2>5, SeqEqual DEF Bytes
  <2> QED
    BY <2>6 DEF s
<1> DEFINE r == [bytes |-> b, offset |-> o, strs |-> strs]
<1>8. r.bytes = b /\ r.offset = o /\ r.strs = strs
  OBVIOUS
<1>9. Read1(r) = [r EXCEPT !.strs = Append(@, SubSeq(b, o + 2, o + 1 + n)), !.offset = @ + 2 + n]
  BY <1>5, <1>8 DEF Read1
<1>10. Read1(r) = [r EXCEPT !.strs = Append(strs, str), !.offset = o + 2 + n]
  BY <1>7, <1>8, <1>9
<1> QED
  BY <1>10

-----------------------------------------------------------------------------
\* What FlattenSeq computes on its way: the first sequences, joined.
Joins(f, q, k) ==
    /\ f \in [1..k -> Bytes]
    /\ \A i \in 1..k : f[i] = IF i = 1 THEN q[i] ELSE f[i - 1] \o q[i]

LEMMA JoinsExist ==
    ASSUME NEW q \in Seq(Bytes)
    PROVE  \A k \in 0..Len(q) : \E f : Joins(f, q, k)
<1>0. Len(q) \in Nat /\ \A i \in 1..Len(q) : q[i] \in Bytes
  BY ElementOfSeq
<1> DEFINE S == {k \in Nat : k <= Len(q) => \E f : Joins(f, q, k)}
<1>1. 0 \in S
  <2> DEFINE f == [i \in 1..0 |-> <<>>]
  <2>1. Joins(f, q, 0)
    BY DEF Joins
  <2> QED
    BY <2>1
<1>2. ASSUME NEW k \in S PROVE k + 1 \in S
  <2> SUFFICES ASSUME k + 1 <= Len(q) PROVE \E f : Joins(f, q, k + 1)
    OBVIOUS
  <2>1. k \in Nat /\ k <= Len(q)
    BY <1>0
  <2>2. PICK f : Joins(f, q, k)
    BY <2>1
  <2> DEFINE g == [i \in 1..(k + 1) |-> IF i <= k THEN f[i] ELSE
                                          IF k = 0 THEN q[1] ELSE f[k] \o q[k + 1]]
  <2>3. \A i \in 1..k : g[i] = f[i] /\ f[i] \in Bytes
    BY <2>1, <2>2 DEF Joins
  <2>4. g[k + 1] = IF k = 0 THEN q[1] ELSE f[k] \o q[k + 1]
    BY <2>1
  <2>5. g[k + 1] \in Bytes
    <3>1. q[k + 1] \in Bytes
      BY <1>0, <2>1
    <3>2. k # 0 => f[k] \o q[k + 1] \in Bytes
      <4> SUFFICES ASSUME k # 0 PROVE f[k] \o q[k + 1] \in Bytes
        OBVIOUS
      <4>1. k \in 1..k
        BY <2>1
      <4>2. f[k] \in Bytes
        BY <2>3, <4>1
      <4> QED
        BY <3>1, <4>2, ConcatProperties DEF Bytes
    <3>3. q[1] \in Bytes
      BY <1>0, <2>1
    <3> QED
      BY <2>4, <3>2, <3>3
  <2>6. g \in [1..(k + 1) -> Bytes]
    <3> HIDE DEF g
    <3>1. \A i \in 1..(k + 1) : g[i] \in Bytes
      <4> SUFFICES ASSUME NEW i \in 1..(k + 1) PROVE g[i] \in Bytes
        OBVIOUS
      <4>1. i \in 1..k \/ i = k + 1
        BY <2>1
      <4> QED
        BY <2>3, <2>5, <4>1
    <3>2. DOMAIN g = 1..(k + 1) /\ g = [i \in 1..(k + 1) |-> g[i]]
      BY DEF g
    <3> QED
      BY <3>1, <3>2
  <2>7. \A i \in 1..(k + 1) : g[i] = IF i = 1 THEN q[i] ELSE g[i - 1] \o q[i]
    <3> SUFFICES ASSUME NEW i \in 1..(k + 1)
                 PROVE  g[i] = IF i = 1 THEN q[i] ELSE g[i - 1] \o q[i]
      OBVIOUS
    <3> HIDE DEF g
    <3>1. CASE i <= k
      <4>1. i \in 1..k /\ (i # 1 => i - 1 \in 1..k)
        BY <2>1, <3>1
      <4>2. f[i] = IF i = 1 THEN q[i] ELSE f[i - 1] \o q[i]
        BY <2>2, <4>1 DEF Joins
      <4> QED
        BY <2>3, <4>1, <4>2
    <3>2. CASE i = k + 1
      <4>1. CASE k = 0
        BY <2>4, <3>2, <4>1
      <4>2. CASE k # 0
        <5>1. k \in 1..k /\ i # 1 /\ i - 1 = k
          BY <2>1, <3>2, <4>2
        <5> QED
          BY <2>3, <2>4, <3>2, <4>2, <5>1
      <4> QED
        BY <4>1, <4>2
    <3> QED
      BY <2>1, <3>1, <3>2
  <2> HIDE DEF g
  <2> QED
    BY <2>6, <2>7 DEF Joins
<1> HIDE DEF S
<1>3. S = Nat
  <2>1. S \in SUBSET Nat
    BY DEF S
  <2> QED
    BY <1>1, <1>2, <2>1, NatSet
<1> QED
  BY <1>0, <1>3 DEF S

LEMMA FlattenIs ==
    ASSUME NEW q \in Seq(Bytes), Len(q) # 0
    PROVE  \E f : Joins(f, q, Len(q)) /\ FlattenSeq(q) = f[Len(q)]
<1>0. Len(q) \in Nat
  OBVIOUS
<1> DEFINE Is(f) == f = [i \in 1..Len(q) |-> IF i = 1 THEN q[i] ELSE f[i - 1] \o q[i]]
           F == CHOOSE f : Is(f)
<1>1. FlattenSeq(q) = F[Len(q)]
  BY DEF FlattenSeq
<1>2. PICK f : Joins(f, q, Len(q))
  BY <1>0, JoinsExist
<1>3. Is(f)
  BY <1>2 DEF Joins
<1> HIDE DEF Is
<1>4. Is(F)
  BY <1>3
<1>5. Joins(F, q, Len(q))
  <2>1. F = [i \in 1..Len(q) |-> IF i = 1 THEN q[i] ELSE F[i - 1] \o q[i]]
    BY <1>4 DEF Is
  <2> HIDE DEF F
  <2>2. DOMAIN F = 1..Len(q)
        /\ \A i \in 1..Len(q) : F[i] = IF i = 1 THEN q[i] ELSE F[i - 1] \o q[i]
    BY <2>1
  <2> DEFINE S == {k \in Nat : k \in 1..Len(q) => F[k] \in Bytes}
  <2>3. 0 \in S
    OBVIOUS
  <2>4. ASSUME NEW k \in S PROVE k + 1 \in S
    <3> SUFFICES ASSUME k + 1 \in 1..Len(q) PROVE F[k + 1] \in Bytes
      OBVIOUS
    <3>1. q[k + 1] \in Bytes
      BY ElementOfSeq
    <3>2. CASE k = 0
      <4>1. k + 1 = 1
        BY <3>2
      <4>2. F[k + 1] = q[k + 1]
        BY <2>2, <4>1
      <4> QED
        BY <3>1, <4>2
    <3>3. CASE k # 0
      <4>1. k \in Nat /\ k \in 1..Len(q) /\ k + 1 # 1 /\ (k + 1) - 1 = k
        BY <1>0, <3>3
      <4>2. F[k] \in Bytes /\ F[k + 1] = F[k] \o q[k + 1]
        BY <2>2, <4>1
      <4> QED
        BY <3>1, <4>2, ConcatProperties DEF Bytes
    <3> QED
      BY <3>2, <3>3
  <2> HIDE DEF S
  <2>5. S = Nat
    <3>1. S \in SUBSET Nat
      BY DEF S
    <3> QED
      BY <2>3, <2>4, <3>1, NatSet
  <2>6. \A i \in 1..Len(q) : F[i] \in Bytes
    BY <2>5 DEF S
  <2>7. F \in [1..Len(q) -> Bytes]
    BY <2>1, <2>2, <2>6
  <2> QED
    BY <2>2, <2>7 DEF Joins
<1> QED
  BY <1>1, <1>5

LEMMA FlattenType ==
    ASSUME NEW q \in Seq(Bytes)
    PROVE  FlattenSeq(q) \in Bytes
<1>1. CASE Len(q) = 0
  <2>1. q = <<>>
    BY <1>1, EmptySeq
  <2>2. FlattenSeq(q) = q
    BY <1>1 DEF FlattenSeq
  <2> QED
    BY <2>1, <2>2, EmptySeq DEF Bytes
<1>2. CASE Len(q) # 0
  <2>1. PICK f : Joins(f, q, Len(q)) /\ FlattenSeq(q) = f[Len(q)]
    BY <1>2, FlattenIs
  <2>2. Len(q) \in 1..Len(q)
    BY <1>2
  <2> QED
    BY <2>1, <2>2 DEF Joins
<1> QED
  BY <1>1, <1>2

\* Where each of the sequences lies: p[i] is the place of the i-th.
Places(b, p, q) ==
    /\ p \in [1..(Len(q) + 1) -> Nat \ {0}]
    /\ \A i \in 1..Len(q) : p[i + 1] = p[i] + Len(q[i]) /\ At(b, p[i], q[i])

LEMMA FlattenAt ==
    ASSUME NEW b \in Bytes, NEW o \in Nat \ {0}, NEW q \in Seq(Bytes), At(b, o, FlattenSeq(q))
    PROVE  \E p : Places(b, p, q) /\ p[1] = o /\ p[Len(q) + 1] = o + Len(FlattenSeq(q))
<1>0. Len(q) \in Nat /\ \A i \in 1..Len(q) : q[i] \in Bytes /\ Len(q[i]) \in Nat
  <2>1. \A i \in 1..Len(q) : q[i] \in Bytes
    BY ElementOfSeq
  <2> QED
    BY <2>1 DEF Bytes
<1>1. CASE Len(q) = 0
  <2> DEFINE p == [i \in 1..1 |-> o]
  <2>1. FlattenSeq(q) = q
    BY <1>1 DEF FlattenSeq
  <2>2. Places(b, p, q) /\ p[1] = o /\ p[Len(q) + 1] = o + Len(q)
    BY <1>1 DEF Places
  <2> QED
    BY <2>1, <2>2
<1>2. CASE Len(q) # 0
  <2>1. PICK f : Joins(f, q, Len(q)) /\ FlattenSeq(q) = f[Len(q)]
    BY <1>2, FlattenIs
  <2>2. /\ \A i \in 1..Len(q) : f[i] \in Bytes /\ Len(f[i]) \in Nat
        /\ \A i \in 1..Len(q) : f[i] = IF i = 1 THEN q[i] ELSE f[i - 1] \o q[i]
    <3>1. \A i \in 1..Len(q) : f[i] \in Bytes
      BY <2>1 DEF Joins
    <3>2. \A s \in Bytes : Len(s) \in Nat
      BY DEF Bytes
    <3> QED
      BY <2>1, <3>1, <3>2 DEF Joins
  <2> DEFINE n == Len(q)
             p == [i \in 1..(n + 1) |-> IF i = 1 THEN o ELSE o + Len(f[i - 1])]
  <2>3. \A i \in 1..(n + 1) : p[i] = IF i = 1 THEN o ELSE o + Len(f[i - 1])
    OBVIOUS
  <2>4. p \in [1..(n + 1) -> Nat \ {0}]
    <3> SUFFICES ASSUME NEW i \in 1..(n + 1)
                 PROVE  (IF i = 1 THEN o ELSE o + Len(f[i - 1])) \in Nat \ {0}
      OBVIOUS
    <3>1. i # 1 => i - 1 \in 1..n
      BY <1>0
    <3> QED
      BY <2>2, <3>1
  <2> HIDE DEF p
  <2> DEFINE S == {k \in Nat : k < n => At(b, o, f[n - k])}
  <2>5. 0 \in S
    BY <1>0, <2>1
  <2>6. ASSUME NEW k \in S PROVE k + 1 \in S
    <3> SUFFICES ASSUME k + 1 < n PROVE At(b, o, f[n - (k + 1)])
      OBVIOUS
    <3>1. k \in Nat /\ k < n /\ n - k \in 1..n /\ n - k # 1 /\ (n - k) - 1 = n - (k + 1)
          /\ n - (k + 1) \in 1..n
      BY <1>0
    <3>2. At(b, o, f[n - k]) /\ f[n - k] = f[n - (k + 1)] \o q[n - k]
      BY <2>2, <3>1
    <3>3. f[n - (k + 1)] \in Bytes /\ q[n - k] \in Bytes
      BY <1>0, <2>2, <3>1
    <3> QED
      BY <3>2, <3>3, AtConcat
  <2> HIDE DEF S
  <2>7. S = Nat
    <3>1. S \in SUBSET Nat
      BY DEF S
    <3> QED
      BY <2>5, <2>6, <3>1, NatSet
  <2>8. ASSUME NEW i \in 1..n PROVE At(b, o, f[i])
    <3>1. n - i \in Nat /\ n - i < n /\ n - (n - i) = i
      BY <1>0
    <3> QED
      BY <2>7, <3>1 DEF S
  <2>9. ASSUME NEW i \in 1..n PROVE p[i + 1] = p[i] + Len(q[i]) /\ At(b, p[i], q[i])
    <3>0. i + 1 \in 1..(n + 1) /\ i + 1 # 1 /\ (i + 1) - 1 = i /\ i \in 1..(n + 1)
      BY <1>0
    <3>1. p[i + 1] = o + Len(f[i])
      BY <2>3, <3>0
    <3>2. CASE i = 1
      BY <2>2, <2>3, <2>8, <3>0, <3>1, <3>2
    <3>3. CASE i # 1
      <4>1. i - 1 \in 1..n
        BY <1>0, <3>3
      <4>2. p[i] = o + Len(f[i - 1]) /\ f[i] = f[i - 1] \o q[i]
        BY <2>2, <2>3, <3>0, <3>3
      <4>3. At(b, o, f[i - 1] \o q[i]) /\ f[i - 1] \in Bytes /\ q[i] \in Bytes
        BY <1>0, <2>2, <2>8, <4>1, <4>2
      <4>4. \A s, t \in Bytes : At(b, o, s \o t) =>
               At(b, o + Len(s), t) /\ Len(s \o t) = Len(s) + Len(t)
        BY AtConcat
      <4>5. At(b, o + Len(f[i - 1]), q[i]) /\ Len(f[i]) = Len(f[i - 1]) + Len(q[i])
        BY <4>2, <4>3, <4>4
      <4>6. Len(f[i - 1]) \in Nat /\ Len(q[i]) \in Nat
        BY <1>0, <2>2, <4>1
      <4>7. o + Len(f[i]) = (o + Len(f[i - 1])) + Len(q[i])
        <5>1. \A x, y, z \in Nat : z = x + y => o + z = (o + x) + y
          OBVIOUS
        <5>2. Len(f[i]) \in Nat
          BY <2>2
        <5> QED
          BY <4>5, <4>6, <5>1, <5>2
      <4> QED
        BY <3>1, <4>2, <4>5, <4>7
    <3> QED
      BY <3>2, <3>3
  <2>10. p[1] = o /\ p[n + 1] = o + Len(FlattenSeq(q))
    <3>1. 1 \in 1..(n + 1) /\ n + 1 \in 1..(n + 1) /\ n + 1 # 1 /\ (n + 1) - 1 = n
      BY <1>0, <1>2
    <3> QED
      BY <2>1, <2>3, <3>1
  <2> QED
    BY <2>4, <2>9, <2>10 DEF Places
<1> QED
  BY <1>1, <1>2

-----------------------------------------------------------------------------
\* The strings strs, each with its length.
AllCounted(strs) == [i \in 1..Len(strs) |-> Counted(strs[i])]

LEMMA AllCountedType ==
    ASSUME NEW strs \in Seq(Bytes)
    PROVE  AllCounted(strs) \in Seq(Bytes) /\ Len(AllCounted(strs)) = Len(strs)
<1>1. Len(strs) \in Nat
  OBVIOUS
<1>2. ASSUME NEW i \in 1..Len(strs) PROVE Counted(strs[i]) \in Bytes
  <2>1. strs[i] \in Bytes
    BY ElementOfSeq
  <2> QED
    BY <2>1, CountedIs
<1>3. AllCounted(strs) \in [1..Len(strs) -> Bytes]
  BY <1>2 DEF AllCounted
<1> QED
  BY <1>1, <1>3

\* Strings that lie one behind the other are all read.
LEMMA ReadsAll ==
    ASSUME NEW b \in Bytes, NEW strs \in Seq(Bytes), \A i \in 1..Len(strs) : Len(strs[i]) < Base2,
           NEW p, Places(b, p, AllCounted(strs))
    PROVE  ReadStrings(b, p[1], Len(strs)) = [bytes |-> b, offset |-> p[Len(strs) + 1], strs |-> strs]
<1> DEFINE n == Len(strs)
           start == [bytes |-> b, offset |-> p[1], strs |-> <<>>]
           Is(r) == r = [i \in 0..n |-> IF i = 0 THEN start ELSE Read1(r[i - 1])]
           R == CHOOSE r : Is(r)
           g == [i \in 0..n |-> [bytes |-> b, offset |-> p[i + 1], strs |-> SubSeq(strs, 1, i)]]
<1>0. n \in Nat /\ \A i \in 1..n : strs[i] \in Bytes
  BY ElementOfSeq
<1>1. ReadStrings(b, p[1], n) = R[n]
  BY DEF ReadStrings
<1>2. p \in [1..(n + 1) -> Nat \ {0}]
      /\ \A i \in 1..n : p[i + 1] = p[i] + Len(Counted(strs[i])) /\ At(b, p[i], Counted(strs[i]))
  <2>1. Len(AllCounted(strs)) = n /\ \A i \in 1..n : AllCounted(strs)[i] = Counted(strs[i])
    BY AllCountedType DEF AllCounted
  <2> QED
    BY <2>1 DEF Places
<1>3. g[0] = start
  <2>1. SubSeq(strs, 1, 0) = <<>>
    BY SubSeqEmpty
  <2>2. 0 \in 0..n /\ 0 + 1 = 1
    BY <1>0
  <2> QED
    BY <2>1, <2>2
<1>4. ASSUME NEW i \in 1..n PROVE g[i] = Read1(g[i - 1])
  <2>1. i \in 0..n /\ i - 1 \in 0..n /\ (i - 1) + 1 = i /\ i \in 1..(n + 1) /\ i + 1 \in 1..(n + 1)
    BY <1>0
  <2>2. g[i - 1] = [bytes |-> b, offset |-> p[i], strs |-> SubSeq(strs, 1, i - 1)]
    BY <2>1
  <2>3. g[i] = [bytes |-> b, offset |-> p[i + 1], strs |-> SubSeq(strs, 1, i)]
    BY <2>1
  <2> HIDE DEF g
  <2>4. strs[i] \in Bytes /\ Len(strs[i]) < Base2 /\ p[i] \in Nat \ {0}
    BY <1>0, <1>2, <2>1
  <2>5. Read1(g[i - 1]) = [bytes |-> b, offset |-> p[i] + 2 + Len(strs[i]),
                           strs |-> Append(SubSeq(strs, 1, i - 1), strs[i])]
    <3>1. \A o \in Nat \ {0} : \A ss, str : str \in Bytes /\ Len(str) < Base2 /\ At(b, o, Counted(str)) =>
             Read1([bytes |-> b, offset |-> o, strs |-> ss])
             = [bytes |-> b, offset |-> o + 2 + Len(str), strs |-> Append(ss, str)]
      BY ReadsOne
    <3>2. At(b, p[i], Counted(strs[i]))
      BY <1>2
    <3>3. Read1([bytes |-> b, offset |-> p[i], strs |-> SubSeq(strs, 1, i - 1)])
          = [bytes |-> b, offset |-> p[i] + 2 + Len(strs[i]),
             strs |-> Append(SubSeq(strs, 1, i - 1), strs[i])]
      BY <2>4, <3>1, <3>2, Zenon
    <3> QED
      BY <2>2, <3>3, Zenon
  <2>6. p[i + 1] = p[i] + 2 + Len(strs[i])
    <3>1. Len(Counted(strs[i])) = Len(strs[i]) + 2
      BY <2>4, CountedIs
    <3>2. Len(strs[i]) \in Nat
      BY <2>4 DEF Bytes
    <3>3. \A x, y \in Nat : x + (y + 2) = x + 2 + y
      OBVIOUS
    <3>4. p[i + 1] = p[i] + (Len(strs[i]) + 2)
      BY <1>2, <3>1
    <3> QED
      BY <2>4, <3>2, <3>3, <3>4
  <2>7. SubSeq(strs, 1, i) = Append(SubSeq(strs, 1, i - 1), strs[i])
    <3>1. 1 \in 1..Len(strs) /\ i \in 1..Len(strs)
      BY <1>0
    <3>2. SubSeq(strs, 1, i) = SubSeq(strs, 1, i - 1) \o <<strs[i]>>
      BY <3>1, SubSeqRecursiveSecond
    <3>3. SubSeq(strs, 1, i - 1) \in Seq(Bytes)
      <4>1. \A j \in 1..(i - 1) : strs[j] \in Bytes
        BY <1>0
      <4> QED
        BY <4>1, SubSeqProperties
    <3>4. Append(SubSeq(strs, 1, i - 1), strs[i]) = SubSeq(strs, 1, i - 1) \o <<strs[i]>>
      BY <2>4, <3>3, AppendIsConcat
    <3> QED
      BY <3>2, <3>4
  <2> QED
    BY <2>3, <2>5, <2>6, <2>7
<1>5. Is(g)
  <2> SUFFICES ASSUME NEW i \in 0..n
               PROVE  g[i] = IF i = 0 THEN start ELSE Read1(g[i - 1])
    OBVIOUS
  <2> HIDE DEF g, start
  <2>1. i = 0 \/ i \in 1..n
    BY <1>0
  <2> QED
    BY <1>3, <1>4, <2>1
<1>6. Is(R)
  <2> HIDE DEF Is
  <2> QED
    BY <1>5
<1>7. g[n] = [bytes |-> b, offset |-> p[n + 1], strs |-> strs]
  <2>1. SubSeq(strs, 1, n) = strs
    BY SubSeqFull
  <2> QED
    BY <1>0, <2>1
<1> HIDE DEF g, R, start
<1>8. \A i \in 0..n : R[i] = IF i = 0 THEN start ELSE Read1(R[i - 1])
  BY <1>6
<1> DEFINE S == {k \in Nat : k <= n => R[k] = g[k]}
<1>9. 0 \in S
  <2>1. R[0] = start
    BY <1>0, <1>8
  <2> QED
    BY <1>3, <2>1
<1>10. ASSUME NEW k \in S PROVE k + 1 \in S
  <2> SUFFICES ASSUME k + 1 <= n PROVE R[k + 1] = g[k + 1]
    OBVIOUS
  <2>1. k \in Nat /\ k <= n /\ k + 1 \in 1..n /\ k + 1 \in 0..n /\ (k + 1) - 1 = k /\ k + 1 # 0
    BY <1>0
  <2>2. R[k] = g[k]
    BY <2>1
  <2>3. R[k + 1] = Read1(R[k])
    BY <1>8, <2>1
  <2>4. g[k + 1] = Read1(g[k])
    BY <1>4, <2>1
  <2> QED
    BY <2>2, <2>3, <2>4
<1> HIDE DEF S
<1>11. S = Nat
  <2>1. S \in SUBSET Nat
    BY DEF S
  <2> QED
    BY <1>9, <1>10, <2>1, NatSet
<1>12. R[n] = g[n]
  BY <1>0, <1>11 DEF S
<1> QED
  BY <1>1, <1>7, <1>12

-----------------------------------------------------------------------------
\* Keys and values in turn.
InTurn(keys, vals) == [j \in 1..(2 * Len(keys)) |-> IF j % 2 = 1 THEN keys[(j + 1) \div 2]
                                                              ELSE vals[j \div 2]]
Pairs(keys, vals) == [i \in 1..Len(keys) |-> Counted(keys[i]) \o Counted(vals[i])]

LEMMA PairsType ==
    ASSUME NEW keys \in Seq(Bytes), NEW vals \in Seq(Bytes), Len(vals) = Len(keys)
    PROVE  /\ Pairs(keys, vals) \in Seq(Bytes) /\ Len(Pairs(keys, vals)) = Len(keys)
           /\ InTurn(keys, vals) \in Seq(Bytes) /\ Len(InTurn(keys, vals)) = 2 * Len(keys)
           /\ \A i \in 1..Len(keys) : /\ InTurn(keys, vals)[2 * i - 1] = keys[i]
                                      /\ InTurn(keys, vals)[2 * i] = vals[i]
<1> DEFINE n == Len(keys)
<1>0. n \in Nat /\ \A i \in 1..n : keys[i] \in Bytes /\ vals[i] \in Bytes
  BY ElementOfSeq
<1>1. ASSUME NEW i \in 1..n PROVE Counted(keys[i]) \o Counted(vals[i]) \in Bytes
  <2>1. Counted(keys[i]) \in Bytes /\ Counted(vals[i]) \in Bytes
    BY <1>0, CountedIs
  <2> QED
    BY <2>1, ConcatProperties DEF Bytes
<1>2. Pairs(keys, vals) \in [1..n -> Bytes]
  BY <1>1 DEF Pairs
<1>3. ASSUME NEW j \in 1..(2 * n) PROVE (IF j % 2 = 1 THEN keys[(j + 1) \div 2] ELSE vals[j \div 2]) \in Bytes
  <2>1. CASE j % 2 = 1
    <3>1. (j + 1) \div 2 \in 1..n
      BY <1>0, <2>1
    <3> QED
      BY <1>0, <2>1, <3>1
  <2>2. CASE j % 2 # 1
    <3>1. j \div 2 \in 1..n
      BY <1>0, <2>2
    <3> QED
      BY <1>0, <2>2, <3>1
  <2> QED
    BY <2>1, <2>2
<1>4. InTurn(keys, vals) \in [1..(2 * n) -> Bytes]
  BY <1>3 DEF InTurn
<1>5. ASSUME NEW i \in 1..n
      PROVE  InTurn(keys, vals)[2 * i - 1] = keys[i] /\ InTurn(keys, vals)[2 * i] = vals[i]
  <2>1. 2 * i - 1 \in 1..(2 * n) /\ 2 * i \in 1..(2 * n)
    BY <1>0
  <2>2. (2 * i - 1) % 2 = 1 /\ (2 * i) % 2 # 1 /\ ((2 * i - 1) + 1) \div 2 = i /\ (2 * i) \div 2 = i
    OBVIOUS
  <2> QED
    BY <2>1, <2>2 DEF InTurn
<1> HIDE DEF n
<1>6. \A m \in Nat : \A f \in [1..m -> Bytes] : f \in Seq(Bytes) /\ Len(f) = m
  OBVIOUS
<1>7. 2 * n \in Nat
  BY <1>0
<1> QED
  BY <1>0, <1>2, <1>4, <1>5, <1>6, <1>7 DEF n

\* Where the pairs lie, lie keys and values in turn.
LEMMA PairsInTurn ==
    ASSUME NEW b \in Bytes, NEW keys \in Seq(Bytes), NEW vals \in Seq(Bytes), Len(vals) = Len(keys),
           NEW p, Places(b, p, Pairs(keys, vals))
    PROVE  \E r : /\ Places(b, r, AllCounted(InTurn(keys, vals)))
                  /\ r[1] = p[1] /\ r[2 * Len(keys) + 1] = p[Len(keys) + 1]
<1> DEFINE n == Len(keys)
           q == InTurn(keys, vals)
           r == [j \in 1..(2 * n + 1) |-> IF j % 2 = 1 THEN p[(j + 1) \div 2]
                                          ELSE p[j \div 2] + Len(Counted(keys[j \div 2]))]
<1>0. /\ n \in Nat
      /\ \A i \in 1..n : Counted(keys[i]) \in Bytes /\ Counted(vals[i]) \in Bytes
      /\ \A i \in 1..n : Len(Counted(keys[i])) \in Nat /\ Len(Counted(vals[i])) \in Nat
  <2>1. \A i \in 1..n : keys[i] \in Bytes /\ vals[i] \in Bytes
    BY ElementOfSeq
  <2>2. \A s \in Bytes : Counted(s) \in Bytes
    BY CountedIs
  <2>3. \A s \in Bytes : Len(s) \in Nat
    BY DEF Bytes
  <2> QED
    BY <2>1, <2>2, <2>3
<1>1. /\ p \in [1..(n + 1) -> Nat \ {0}]
      /\ \A i \in 1..n : /\ p[i + 1] = p[i] + Len(Counted(keys[i]) \o Counted(vals[i]))
                         /\ At(b, p[i], Counted(keys[i]) \o Counted(vals[i]))
  <2>1. Len(Pairs(keys, vals)) = n
        /\ \A i \in 1..n : Pairs(keys, vals)[i] = Counted(keys[i]) \o Counted(vals[i])
    BY PairsType DEF Pairs
  <2> QED
    BY <2>1 DEF Places
<1>2. ASSUME NEW i \in 1..n
      PROVE  /\ At(b, p[i], Counted(keys[i]))
             /\ At(b, p[i] + Len(Counted(keys[i])), Counted(vals[i]))
             /\ p[i + 1] = (p[i] + Len(Counted(keys[i]))) + Len(Counted(vals[i]))
  <2>0. i \in 1..(n + 1)
    BY <1>0
  <2>1. p[i] \in Nat \ {0}
    BY <1>1, <2>0
  <2>2. \A s, t \in Bytes : At(b, p[i], s \o t) =>
           At(b, p[i], s) /\ At(b, p[i] + Len(s), t) /\ Len(s \o t) = Len(s) + Len(t)
    BY <2>1, AtConcat
  <2>3. /\ At(b, p[i], Counted(keys[i])) /\ At(b, p[i] + Len(Counted(keys[i])), Counted(vals[i]))
        /\ Len(Counted(keys[i]) \o Counted(vals[i])) = Len(Counted(keys[i])) + Len(Counted(vals[i]))
    BY <1>0, <1>1, <2>2
  <2>4. \A x, y, z \in Nat : x + (y + z) = (x + y) + z
    OBVIOUS
  <2> QED
    BY <1>0, <1>1, <2>1, <2>3, <2>4
<1>3. \A i \in 1..(n + 1) : r[2 * i - 1] = p[i]
  <2> SUFFICES ASSUME NEW i \in 1..(n + 1) PROVE r[2 * i - 1] = p[i]
    OBVIOUS
  <2>1. 2 * i - 1 \in 1..(2 * n + 1) /\ (2 * i - 1) % 2 = 1 /\ ((2 * i - 1) + 1) \div 2 = i
    BY <1>0
  <2> QED
    BY <2>1
<1>4. \A i \in 1..n : r[2 * i] = p[i] + Len(Counted(keys[i]))
  <2> SUFFICES ASSUME NEW i \in 1..n PROVE r[2 * i] = p[i] + Len(Counted(keys[i]))
    OBVIOUS
  <2>1. 2 * i \in 1..(2 * n + 1) /\ (2 * i) % 2 # 1 /\ (2 * i) \div 2 = i
    BY <1>0
  <2> QED
    BY <2>1
<1>5. DOMAIN r = 1..(2 * n + 1) /\ r = [j \in 1..(2 * n + 1) |-> r[j]]
  OBVIOUS
<1> HIDE DEF r
<1>6. \A j \in 1..(2 * n + 1) : \/ \E i \in 1..(n + 1) : j = 2 * i - 1
                                \/ \E i \in 1..n : j = 2 * i
  <2> SUFFICES ASSUME NEW j \in 1..(2 * n + 1)
               PROVE  (\E i \in 1..(n + 1) : j = 2 * i - 1) \/ (\E i \in 1..n : j = 2 * i)
    OBVIOUS
  <2>1. CASE j % 2 = 1
    <3>1. j \div 2 \in Nat /\ j = 2 * (j \div 2) + 1
      BY <2>1, DivisionOf
    <3>2. j \div 2 + 1 \in 1..(n + 1) /\ j = 2 * (j \div 2 + 1) - 1
      BY <1>0, <3>1
    <3> QED
      BY <3>2
  <2>2. CASE j % 2 # 1
    <3>1. j \div 2 \in 1..n /\ j = 2 * (j \div 2)
      BY <1>0, <2>2
    <3> QED
      BY <3>1
  <2> QED
    BY <2>1, <2>2
<1>7. r \in [1..(2 * n + 1) -> Nat \ {0}]
  <2>1. ASSUME NEW j \in 1..(2 * n + 1) PROVE r[j] \in Nat \ {0}
    <3>1. ASSUME NEW i \in 1..(n + 1), j = 2 * i - 1 PROVE r[j] \in Nat \ {0}
      BY <1>1, <1>3, <3>1
    <3>2. ASSUME NEW i \in 1..n, j = 2 * i PROVE r[j] \in Nat \ {0}
      <4>0. i \in 1..(n + 1)
        BY <1>0
      <4>1. p[i] \in Nat \ {0} /\ Len(Counted(keys[i])) \in Nat
        BY <1>0, <1>1, <4>0
      <4>2. \A x \in Nat \ {0}, y \in Nat : x + y \in Nat \ {0}
        OBVIOUS
      <4> QED
        BY <1>4, <3>2, <4>1, <4>2
    <3> QED
      BY <1>6, <3>1, <3>2
  <2> QED
    BY <1>5, <2>1
<1>8. Len(q) = 2 * n /\ \A i \in 1..n : q[2 * i - 1] = keys[i] /\ q[2 * i] = vals[i]
  BY PairsType
<1>9. Len(AllCounted(q)) = 2 * n /\ \A j \in 1..(2 * n) : AllCounted(q)[j] = Counted(q[j])
  <2>1. q \in Seq(Bytes)
    BY PairsType
  <2> QED
    BY <1>8, <2>1, AllCountedType DEF AllCounted
<1> HIDE DEF q
<1>10. ASSUME NEW j \in 1..(2 * n)
       PROVE  r[j + 1] = r[j] + Len(Counted(q[j])) /\ At(b, r[j], Counted(q[j]))
  <2>1. ASSUME NEW i \in 1..n, j = 2 * i - 1
        PROVE  r[j + 1] = r[j] + Len(Counted(q[j])) /\ At(b, r[j], Counted(q[j]))
    <3>1. r[j] = p[i] /\ q[j] = keys[i] /\ j + 1 = 2 * i
      BY <1>0, <1>3, <1>8, <2>1
    <3>2. r[j + 1] = p[i] + Len(Counted(keys[i]))
      BY <1>4, <3>1
    <3> QED
      BY <1>2, <3>1, <3>2
  <2>2. ASSUME NEW i \in 1..n, j = 2 * i
        PROVE  r[j + 1] = r[j] + Len(Counted(q[j])) /\ At(b, r[j], Counted(q[j]))
    <3>1. r[j] = p[i] + Len(Counted(keys[i])) /\ q[j] = vals[i]
      BY <1>4, <1>8, <2>2
    <3>2. i + 1 \in 1..(n + 1) /\ j + 1 = 2 * (i + 1) - 1
      BY <1>0, <2>2
    <3>3. r[j + 1] = p[i + 1]
      BY <1>3, <3>2
    <3> QED
      BY <1>2, <3>1, <3>3
  <2>3. (\E i \in 1..n : j = 2 * i - 1) \/ (\E i \in 1..n : j = 2 * i)
    <3>1. j \in 1..(2 * n + 1)
      BY <1>0
    <3>2. ASSUME NEW i \in 1..(n + 1), j = 2 * i - 1 PROVE i \in 1..n
      BY <1>0, <3>2
    <3> QED
      BY <1>6, <3>1, <3>2
  <2> QED
    BY <2>1, <2>2, <2>3
<1>11. Places(b, r, AllCounted(q))
  BY <1>7, <1>9, <1>10 DEF Places
<1>12. r[1] = p[1] /\ r[2 * n + 1] = p[n + 1]
  <2>1. 1 \in 1..(n + 1) /\ n + 1 \in 1..(n + 1) /\ 2 * 1 - 1 = 1 /\ 2 * (n + 1) - 1 = 2 * n + 1
    BY <1>0
  <2> QED
    BY <1>3, <2>1
<1> QED
  BY <1>11, <1>12 DEF q

-----------------------------------------------------------------------------
\* SetToSeq lists a finite set, each element once.
Listing(q, K) ==
    /\ q \in [1..Cardinality(K) -> K]
    /\ \A i, j \in 1..Cardinality(K) : q[i] = q[j] => i = j
    /\ \A x \in K : \E i \in 1..Cardinality(K) : q[i] = x

LEMMA SetToSeqLists ==
    ASSUME NEW K, IsFiniteSet(K)
    PROVE  Listing(SetToSeq(K), K)
<1> DEFINE n == Cardinality(K)
           q == SetToSeq(K)
<1>1. n \in Nat /\ ExistsBijection(1..n, K)
  BY FS_CardinalityType
<1>2. \E f \in [1..n -> K] : IsInjective(f)
  BY <1>1 DEF ExistsBijection, Bijection, Injection
<1>3. q \in [1..n -> K] /\ IsInjective(q)
  BY <1>2 DEF SetToSeq
<1> HIDE DEF q
<1>4. q \in Injection(1..n, K)
  BY <1>3 DEF Injection
<1>5. Cardinality(1..n) = n
  BY <1>1, FS_Interval
<1>6. q \in Surjection(1..n, K)
  BY <1>4, <1>5, FS_Injection
<1> QED
  BY <1>3, <1>6 DEF Listing, Surjection, IsInjective, q

\* The last key is the only one of its name, so its value is the header's.
LEMMA HeadersRead ==
    ASSUME NEW K \in SUBSET Bytes, IsFiniteSet(K), NEW h \in [K -> Bytes],
           NEW q, Listing(q, K), NEW strs,
           \A i \in 1..Cardinality(K) : strs[2 * i - 1] = q[i] /\ strs[2 * i] = h[q[i]]
    PROVE  HeadersOf(strs, Cardinality(K)) = h
<1> DEFINE n == Cardinality(K)
           Of(k) == {i \in 1..n : strs[2 * i - 1] = k}
<1>1. {strs[2 * i - 1] : i \in 1..n} = K
  <2>1. {strs[2 * i - 1] : i \in 1..n} = {q[i] : i \in 1..n}
    OBVIOUS
  <2>2. {q[i] : i \in 1..n} = K
    BY DEF Listing
  <2> QED
    BY <2>1, <2>2
<1>2. ASSUME NEW k \in K PROVE strs[2 * Max(Of(k))] = h[k]
  <2>1. PICK i \in 1..n : q[i] = k
    BY DEF Listing
  <2>2. Of(k) = {i}
    BY <2>1 DEF Listing
  <2>3. Max({i}) = i
    BY DEF Max
  <2> QED
    BY <2>1, <2>2, <2>3
<1>3. HeadersOf(strs, n) = [k \in K |-> h[k]]
  BY <1>1, <1>2 DEF HeadersOf
<1> QED
  BY <1>3

-----------------------------------------------------------------------------
\* Any message: no byte of a string is looked at.
Headers == UNION {[K -> Bytes] : K \in {X \in SUBSET Bytes : IsFiniteSet(X)}}
Messages == [type : Nat, toAddress : Seq(Bytes), headers : Headers, data : Bytes]

\* The parts of the bytes of m.
Keys(m) == SetToSeq(DOMAIN m.headers)
Values(m) == [i \in 1..Len(Keys(m)) |-> m.headers[Keys(m)[i]]]
Addresses(m) == FlattenSeq(AllCounted(m.toAddress))
Params(m) == FlattenSeq(Pairs(Keys(m), Values(m)))
Prefix(m) == <<0, 0, Uint8(m.type), Uint8(Len(m.toAddress))>>
Rest(m) == Prefix(m) \o Addresses(m) \o <<Uint8(Len(Keys(m)))>> \o Params(m) \o m.data

LEMMA HeadersAre ==
    ASSUME NEW m \in Messages
    PROVE  /\ DOMAIN m.headers \in SUBSET Bytes /\ IsFiniteSet(DOMAIN m.headers)
           /\ m.headers \in [DOMAIN m.headers -> Bytes]
<1>1. m.headers \in Headers
  BY DEF Messages
<1>2. PICK K \in {X \in SUBSET Bytes : IsFiniteSet(X)} : m.headers \in [K -> Bytes]
  BY <1>1 DEF Headers
<1>3. DOMAIN m.headers = K
  BY <1>2
<1> QED
  BY <1>2, <1>3

LEMMA KeysAre ==
    ASSUME NEW m \in Messages
    PROVE  /\ Keys(m) \in Seq(Bytes) /\ Len(Keys(m)) = Cardinality(DOMAIN m.headers)
           /\ Listing(Keys(m), DOMAIN m.headers)
           /\ Values(m) \in Seq(Bytes) /\ Len(Values(m)) = Len(Keys(m))
           /\ \A i \in 1..Len(Keys(m)) : /\ Values(m)[i] = m.headers[Keys(m)[i]]
                                         /\ Keys(m)[i] \in DOMAIN m.headers
<1> DEFINE K == DOMAIN m.headers
           n == Cardinality(K)
<1>1. K \in SUBSET Bytes /\ IsFiniteSet(K) /\ m.headers \in [K -> Bytes]
  BY HeadersAre
<1>2. n \in Nat
  BY <1>1, FS_CardinalityType
<1>3. Listing(Keys(m), K)
  BY <1>1, SetToSeqLists DEF Keys
<1> HIDE DEF n
<1>4. Keys(m) \in [1..n -> Bytes] /\ \A i \in 1..n : Keys(m)[i] \in K
  BY <1>1, <1>3 DEF Listing, n
<1>5. Keys(m) \in Seq(Bytes) /\ Len(Keys(m)) = n
  BY <1>2, <1>4
<1>6. Values(m) = [i \in 1..n |-> m.headers[Keys(m)[i]]]
  BY <1>5 DEF Values
<1>7. Values(m) \in [1..n -> Bytes]
  BY <1>1, <1>4, <1>6
<1>8. Values(m) \in Seq(Bytes) /\ Len(Values(m)) = n
  BY <1>2, <1>7
<1> QED
  BY <1>3, <1>4, <1>5, <1>6, <1>8 DEF n

LEMMA SerializeIs ==
    ASSUME NEW m \in Messages
    PROVE  serialize(m) = Size(Rest(m)) \o Rest(m)
<1>1. Addresses(m) = FlattenSeq([i \in 1..Len(m.toAddress) |-> Counted(m.toAddress[i])])
  BY DEF Addresses, AllCounted
<1>2. Pairs(Keys(m), Values(m))
      = [i \in 1..Len(Keys(m)) |-> Counted(Keys(m)[i]) \o Counted(m.headers[Keys(m)[i]])]
  BY KeysAre DEF Pairs
<1>3. Params(m) = FlattenSeq([i \in 1..Len(Keys(m)) |->
                     Counted(Keys(m)[i]) \o Counted(m.headers[Keys(m)[i]])])
  BY <1>2 DEF Params
<1> QED
  BY <1>1, <1>3 DEF serialize, Rest, Keys, Prefix

\* Where the parts lie.
LEMMA PartsLie ==
    ASSUME NEW m \in Messages
    PROVE  LET b == serialize(m)
               a == 9 + Len(Addresses(m))
               d == a + 1 + Len(Params(m))
           IN  /\ b \in Bytes /\ Len(Rest(m)) \in Nat /\ Len(b) = 4 + Len(Rest(m))
               /\ Len(Addresses(m)) \in Nat /\ Len(Params(m)) \in Nat
               /\ At(b, 1, Size(Rest(m)))
               /\ At(b, 5, Prefix(m))
               /\ At(b, 9, Addresses(m))
               /\ At(b, a, <<Uint8(Len(Keys(m)))>>)
               /\ At(b, a + 1, Params(m))
               /\ At(b, d, m.data)
               /\ Len(b) + 1 = d + Len(m.data)
<1> DEFINE b == serialize(m)
           one == <<Uint8(Len(Keys(m)))>>
<1>0. \A n \in Nat : Uint8(n) \in Nat
  BY BaseAssumption, DivisionOf DEF Uint8
<1>1. m.type \in Nat /\ m.toAddress \in Seq(Bytes) /\ m.data \in Bytes /\ Len(m.toAddress) \in Nat
  BY DEF Messages
<1>2. Addresses(m) \in Bytes /\ Params(m) \in Bytes
  <2>1. AllCounted(m.toAddress) \in Seq(Bytes)
    BY <1>1, AllCountedType
  <2>2. Pairs(Keys(m), Values(m)) \in Seq(Bytes)
    BY KeysAre, PairsType
  <2> QED
    BY <2>1, <2>2, FlattenType DEF Addresses, Params
<1>3. Prefix(m) \in Bytes /\ Len(Prefix(m)) = 4
  <2>1. Uint8(m.type) \in Nat /\ Uint8(Len(m.toAddress)) \in Nat
    BY <1>0, <1>1
  <2> QED
    BY <2>1 DEF Prefix, Bytes
<1>4. one \in Bytes /\ Len(one) = 1
  <2>1. Len(Keys(m)) \in Nat
    BY KeysAre
  <2>2. Uint8(Len(Keys(m))) \in Nat
    BY <1>0, <2>1
  <2> QED
    BY <2>2 DEF Bytes
<1> HIDE DEF one
<1> DEFINE r1 == Prefix(m) \o Addresses(m)
           r2 == r1 \o one
           r3 == r2 \o Params(m)
<1>5. \A s, t \in Bytes : s \o t \in Bytes /\ Len(s \o t) = Len(s) + Len(t)
  BY ConcatProperties DEF Bytes
<1>6. /\ r1 \in Bytes /\ Len(r1) = 4 + Len(Addresses(m))
      /\ r2 \in Bytes /\ Len(r2) = Len(r1) + 1
      /\ r3 \in Bytes /\ Len(r3) = Len(r2) + Len(Params(m))
      /\ Rest(m) \in Bytes /\ Len(Rest(m)) = Len(r3) + Len(m.data)
  <2>1. r1 \in Bytes /\ Len(r1) = 4 + Len(Addresses(m))
    BY <1>2, <1>3, <1>5
  <2>2. r2 \in Bytes /\ Len(r2) = Len(r1) + 1
    BY <1>4, <1>5, <2>1
  <2>3. r3 \in Bytes /\ Len(r3) = Len(r2) + Len(Params(m))
    BY <1>2, <1>5, <2>2
  <2>4. Rest(m) = r3 \o m.data
    BY DEF Rest, one
  <2> QED
    BY <1>1, <1>5, <2>1, <2>2, <2>3, <2>4
<1>7. /\ Len(Addresses(m)) \in Nat /\ Len(Params(m)) \in Nat /\ Len(m.data) \in Nat
      /\ Len(r1) \in Nat /\ Len(r2) \in Nat /\ Len(r3) \in Nat /\ Len(Rest(m)) \in Nat
  <2>1. \A s \in Bytes : Len(s) \in Nat
    BY DEF Bytes
  <2> QED
    BY <1>1, <1>2, <1>6, <2>1
<1>8. Size(Rest(m)) \in Bytes /\ Len(Size(Rest(m))) = 4
  <2> DEFINE n == Len(Rest(m))
  <2>1. Base \in Nat \ {0} /\ Base2 \in Nat \ {0} /\ Base2 * Base \in Nat \ {0}
    BY BaseAssumption DEF Base2
  <2>2. n \div (Base2 * Base) \in Nat /\ n \div Base2 \in Nat /\ n \div Base \in Nat
    BY <1>7, <2>1, DivisionOf
  <2>3. Uint8(n \div (Base2 * Base)) \in Nat /\ Uint8(n \div Base2) \in Nat
        /\ Uint8(n \div Base) \in Nat /\ Uint8(n) \in Nat
    BY <1>0, <1>7, <2>2
  <2> QED
    BY <2>3 DEF Size, Bytes
<1>9. b = Size(Rest(m)) \o Rest(m) /\ Rest(m) = r3 \o m.data
  BY SerializeIs DEF Rest, one
<1>10. b \in Bytes /\ Len(b) = 4 + Len(Rest(m))
  BY <1>5, <1>6, <1>8, <1>9
<1> HIDE DEF b, r1, r2, r3
<1>11. \A s, t \in Bytes : \A o \in Nat \ {0} : At(b, o, s \o t) => At(b, o, s) /\ At(b, o + Len(s), t)
  BY <1>10, AtConcat
<1>12. At(b, 1, Size(Rest(m))) /\ At(b, 5, Rest(m))
  <2>1. At(b, 1, Size(Rest(m)) \o Rest(m))
    BY <1>9, <1>10, AtWhole
  <2>2. At(b, 1, Size(Rest(m))) /\ At(b, 1 + Len(Size(Rest(m))), Rest(m))
    <3>1. \A s, t \in Bytes : At(b, 1, s \o t) => At(b, 1, s) /\ At(b, 1 + Len(s), t)
      BY <1>11
    <3> QED
      BY <1>6, <1>8, <2>1, <3>1, Zenon
  <2>3. 1 + Len(Size(Rest(m))) = 5
    BY <1>8
  <2> QED
    BY <2>2, <2>3
<1>13. At(b, 5, r3) /\ At(b, 5 + Len(r3), m.data)
  BY <1>1, <1>6, <1>9, <1>11, <1>12
<1>14. At(b, 5, r2) /\ At(b, 5 + Len(r2), Params(m))
  BY <1>2, <1>6, <1>11, <1>13 DEF r3
<1>15. At(b, 5, r1) /\ At(b, 5 + Len(r1), one)
  BY <1>4, <1>6, <1>11, <1>14 DEF r2
<1>16. At(b, 5, Prefix(m)) /\ At(b, 5 + 4, Addresses(m))
  <2>1. At(b, 5, Prefix(m) \o Addresses(m))
    BY <1>15 DEF r1
  <2>2. At(b, 5, Prefix(m)) /\ At(b, 5 + Len(Prefix(m)), Addresses(m))
    <3>1. \A s, t \in Bytes : At(b, 5, s \o t) => At(b, 5, s) /\ At(b, 5 + Len(s), t)
      BY <1>11
    <3> QED
      BY <1>2, <1>3, <2>1, <3>1, Zenon
  <2> QED
    BY <1>3, <2>2
<1>17. /\ 5 + Len(r1) = 9 + Len(Addresses(m))
       /\ 5 + Len(r2) = (9 + Len(Addresses(m))) + 1
       /\ 5 + Len(r3) = (9 + Len(Addresses(m))) + 1 + Len(Params(m))
       /\ Len(b) + 1 = (9 + Len(Addresses(m))) + 1 + Len(Params(m)) + Len(m.data)
  <2>1. \A x, y \in Nat : x = 4 + y => 5 + x = 9 + y
    OBVIOUS
  <2>2. 5 + Len(r1) = 9 + Len(Addresses(m))
    BY <1>6, <1>7, <2>1
  <2>3. \A x, y, e \in Nat : y = x + e => 5 + y = (5 + x) + e
    OBVIOUS
  <2>4. 5 + Len(r2) = (9 + Len(Addresses(m))) + 1
    BY <1>6, <1>7, <2>2, <2>3
  <2>5. 5 + Len(r3) = (9 + Len(Addresses(m))) + 1 + Len(Params(m))
    BY <1>6, <1>7, <2>3, <2>4
  <2>6. 5 + Len(Rest(m)) = (9 + Len(Addresses(m))) + 1 + Len(Params(m)) + Len(m.data)
    <3>1. 5 + Len(Rest(m)) = (5 + Len(r3)) + Len(m.data)
      BY <1>6, <1>7, <2>3
    <3> QED
      BY <2>5, <3>1
  <2>7. (4 + Len(Rest(m))) + 1 = 5 + Len(Rest(m))
    BY <1>7
  <2> QED
    BY <1>10, <2>2, <2>4, <2>5, <2>6, <2>7
<1>18. 5 + 4 = 9
  OBVIOUS
<1> HIDE DEF one
<1> QED
  BY <1>7, <1>10, <1>12, <1>13, <1>14, <1>15, <1>16, <1>17, <1>18 DEF b, one

\* The strings of a message that fits are counted in two bytes.
LEMMA StringsFit ==
    ASSUME NEW m \in Messages, Fits(m)
    PROVE  /\ \A i \in 1..Len(m.toAddress) : Len(m.toAddress[i]) < Base2
           /\ \A j \in 1..Len(InTurn(Keys(m), Values(m))) : Len(InTurn(Keys(m), Values(m))[j]) < Base2
<1> DEFINE n == Len(Keys(m))
           q == InTurn(Keys(m), Values(m))
<1>1. /\ n \in Nat /\ Len(q) = 2 * n
      /\ \A i \in 1..n : q[2 * i - 1] = Keys(m)[i] /\ q[2 * i] = m.headers[Keys(m)[i]]
  BY KeysAre, PairsType
<1>2. \A i \in 1..n : Len(Keys(m)[i]) < Base2 /\ Len(m.headers[Keys(m)[i]]) < Base2
  BY KeysAre DEF Fits
<1> HIDE DEF q, n
<1>3. ASSUME NEW j \in 1..(2 * n) PROVE Len(q[j]) < Base2
  <2>1. j \div 2 \in Nat /\ j = 2 * (j \div 2) + (j % 2) /\ j % 2 \in {0, 1}
    BY DivisionOf
  <2>2. CASE j % 2 = 1
    <3>1. j \div 2 + 1 \in 1..n /\ j = 2 * (j \div 2 + 1) - 1
      BY <1>1, <2>1, <2>2
    <3> QED
      BY <1>1, <1>2, <3>1
  <2>3. CASE j % 2 = 0
    <3>1. j \div 2 \in 1..n /\ j = 2 * (j \div 2)
      BY <1>1, <2>1, <2>3
    <3> QED
      BY <1>1, <1>2, <3>1
  <2> QED
    BY <2>1, <2>2, <2>3
<1> QED
  BY <1>1, <1>3 DEF Fits, q

\* Every message that fits reads back as it was written.
LEMMA DeserializeIs ==
    ASSUME NEW m \in Messages, Fits(m)
    PROVE  deserialize(serialize(m)) = m
<1> DEFINE b == serialize(m)
           n == Len(m.toAddress)
           k == Len(Keys(m))
           a == 9 + Len(Addresses(m))
           d == a + 1 + Len(Params(m))
           q == InTurn(Keys(m), Values(m))
<1>1. /\ b \in Bytes /\ Len(b) \in Nat /\ Len(Addresses(m)) \in Nat /\ Len(Params(m)) \in Nat
      /\ At(b, 5, Prefix(m))
      /\ At(b, 9, Addresses(m))
      /\ At(b, a, <<Uint8(k)>>)
      /\ At(b, a + 1, Params(m))
      /\ At(b, d, m.data)
      /\ Len(b) + 1 = d + Len(m.data)
  <2>1. \A s \in Bytes : Len(s) \in Nat
    BY DEF Bytes
  <2> QED
    BY <2>1, PartsLie
<1>2. /\ m.type \in Nat /\ m.toAddress \in Seq(Bytes) /\ m.data \in Bytes
      /\ n \in Nat /\ k \in Nat /\ Len(m.data) \in Nat
  BY KeysAre DEF Messages, Bytes
<1>3. Uint8(m.type) = m.type /\ Uint8(n) = n /\ Uint8(k) = k
  <2>1. m.type < Base /\ n < Base /\ k < Base
    BY KeysAre DEF Fits
  <2>2. \A x \in Nat : x < Base => x % Base = x
    BY BaseAssumption
  <2> QED
    BY <1>2, <2>1, <2>2 DEF Uint8
<1> HIDE DEF b, k
<1>4. b[7] = m.type /\ b[8] = n
  <2>1. Len(Prefix(m)) = 4 /\ Prefix(m)[3] = m.type /\ Prefix(m)[4] = n
    BY <1>3 DEF Prefix
  <2>2. 3 \in 1..4 /\ 4 \in 1..4 /\ 5 + 3 - 1 = 7 /\ 5 + 4 - 1 = 8
    OBVIOUS
  <2>3. \A i \in 1..4 : b[5 + i - 1] = Prefix(m)[i]
    BY <1>1, <2>1 DEF At
  <2> QED
    BY <2>1, <2>2, <2>3
<1>5. ReadStrings(b, 9, n) = [bytes |-> b, offset |-> a, strs |-> m.toAddress]
  <2>1. AllCounted(m.toAddress) \in Seq(Bytes) /\ Len(AllCounted(m.toAddress)) = n
    BY <1>2, AllCountedType
  <2>2. \E p : /\ Places(b, p, AllCounted(m.toAddress)) /\ p[1] = 9
               /\ p[Len(AllCounted(m.toAddress)) + 1] = 9 + Len(FlattenSeq(AllCounted(m.toAddress)))
    BY <1>1, <2>1, FlattenAt DEF Addresses
  <2>3. PICK p : Places(b, p, AllCounted(m.toAddress)) /\ p[1] = 9 /\ p[n + 1] = a
    BY <2>1, <2>2 DEF Addresses
  <2>4. ReadStrings(b, p[1], Len(m.toAddress))
        = [bytes |-> b, offset |-> p[Len(m.toAddress) + 1], strs |-> m.toAddress]
    BY <1>1, <1>2, <2>3, StringsFit, ReadsAll
  <2> QED
    BY <2>3, <2>4
<1>6. b[a] = k
  <2>1. Len(<<Uint8(k)>>) = 1 /\ <<Uint8(k)>>[1] = k /\ 1 \in 1..1
    BY <1>3
  <2>2. b[a + 1 - 1] = <<Uint8(k)>>[1]
    BY <1>1, <2>1 DEF At
  <2>3. a + 1 - 1 = a
    BY <1>1
  <2> QED
    BY <2>1, <2>2, <2>3
<1>7. ReadStrings(b, a + 1, 2 * k) = [bytes |-> b, offset |-> d, strs |-> q]
  <2>1. /\ Keys(m) \in Seq(Bytes) /\ Values(m) \in Seq(Bytes) /\ Len(Values(m)) = Len(Keys(m))
        /\ Pairs(Keys(m), Values(m)) \in Seq(Bytes) /\ Len(Pairs(Keys(m), Values(m))) = k
        /\ q \in Seq(Bytes) /\ Len(q) = 2 * k
    BY KeysAre, PairsType DEF k
  <2>2. a + 1 \in Nat \ {0}
    BY <1>1
  <2>3. \E p : /\ Places(b, p, Pairs(Keys(m), Values(m))) /\ p[1] = a + 1
               /\ p[Len(Pairs(Keys(m), Values(m))) + 1] = a + 1 + Len(FlattenSeq(Pairs(Keys(m), Values(m))))
    BY <1>1, <2>1, <2>2, FlattenAt DEF Params
  <2>4. PICK p : Places(b, p, Pairs(Keys(m), Values(m))) /\ p[1] = a + 1 /\ p[k + 1] = d
    BY <2>1, <2>3 DEF Params
  <2>5. \E r : /\ Places(b, r, AllCounted(q))
               /\ r[1] = p[1] /\ r[2 * Len(Keys(m)) + 1] = p[Len(Keys(m)) + 1]
    BY <1>1, <2>1, <2>4, PairsInTurn
  <2>6. PICK r : Places(b, r, AllCounted(q)) /\ r[1] = a + 1 /\ r[2 * k + 1] = d
    BY <2>4, <2>5 DEF k
  <2>7. \A j \in 1..Len(q) : Len(q[j]) < Base2
    BY StringsFit
  <2> HIDE DEF q
  <2>8. ReadStrings(b, r[1], Len(q)) = [bytes |-> b, offset |-> r[Len(q) + 1], strs |-> q]
    BY <1>1, <2>1, <2>6, <2>7, ReadsAll
  <2> QED
    BY <2>1, <2>6, <2>8
<1>8. HeadersOf(q, k) = m.headers
  <2> DEFINE K == DOMAIN m.headers
  <2>1. K \in SUBSET Bytes /\ IsFiniteSet(K) /\ m.headers \in [K -> Bytes]
    BY HeadersAre
  <2>2. k = Cardinality(K) /\ Listing(Keys(m), K)
    BY KeysAre DEF k
  <2>3. \A i \in 1..Cardinality(K) : q[2 * i - 1] = Keys(m)[i] /\ q[2 * i] = m.headers[Keys(m)[i]]
    BY <2>2, KeysAre, PairsType DEF k
  <2> HIDE DEF K, q
  <2> QED
    BY <2>1, <2>2, <2>3, HeadersRead
<1>9. SubSeq(b, d, Len(b)) = m.data
  <2> DEFINE s == SubSeq(b, d, Len(b))
             l == Len(m.data)
  <2>1. d \in Nat \ {0} /\ Len(b) \in Int /\ d \in Int
    BY <1>1
  <2>2. \A i \in d..Len(b) : b[i] \in Nat
    <3> SUFFICES ASSUME NEW i \in d..Len(b) PROVE b[i] \in Nat
      OBVIOUS
    <3>1. i \in 1..Len(b)
      BY <1>1, <2>1
    <3> QED
      BY <1>1, <3>1, ElementOfSeq DEF Bytes
  <2>3. /\ s \in Seq(Nat)
        /\ Len(s) = IF d <= Len(b) THEN Len(b) - d + 1 ELSE 0
        /\ \A i \in 1..(Len(b) - d + 1) : s[i] = b[d + i - 1]
    BY <2>1, <2>2, SubSeqProperties
  <2> HIDE DEF s, d
  <2>4. Len(s) = l /\ Len(b) - d + 1 = l
    <3>1. \A x, y, z \in Nat : x + 1 = y + z => /\ x - y + 1 = z
                                             /\ z = IF y <= x THEN x - y + 1 ELSE 0
      OBVIOUS
    <3>2. d \in Nat /\ Len(b) \in Nat /\ l \in Nat /\ Len(b) + 1 = d + l
      BY <1>1, <1>2, <2>1
    <3> HIDE DEF l
    <3> QED
      BY <2>3, <3>1, <3>2
  <2>5. \A i \in 1..l : b[d + i - 1] = m.data[i]
    BY <1>1 DEF At
  <2>6. \A i \in 1..l : s[i] = m.data[i]
    BY <2>3, <2>4, <2>5
  <2>7. s = m.data
    BY <1>2, <2>3, <2>4, <2>6, SeqEqual DEF Bytes
  <2> QED
    BY <2>7 DEF s
<1> HIDE DEF a, d, q, n
<1>10. deserialize(b) = [type |-> m.type, toAddress |-> m.toAddress, headers |-> m.headers,
                         data |-> m.data]
  <2>1. ReadStrings(b, 9, b[8]).offset = a /\ ReadStrings(b, 9, b[8]).strs = m.toAddress
    BY <1>4, <1>5
  <2>2. /\ ReadStrings(b, a + 1, 2 * b[a]).offset = d
        /\ ReadStrings(b, a + 1, 2 * b[a]).strs = q
    BY <1>6, <1>7
  <2> QED
    BY <1>4, <1>6, <1>8, <1>9, <2>1, <2>2 DEF deserialize
<1>11. m = [type |-> m.type, toAddress |-> m.toAddress, headers |-> m.headers, data |-> m.data]
  BY DEF Messages
<1> QED
  BY <1>10, <1>11 DEF b

\* Each message that fits the format reads back from its bytes as it was written, and its
\* first four bytes are the number of the others (Message.serialize and deserialize of
\* src/opentok/rumor.js).
THEOREM EveryMessageReadsBack == \A m \in Messages : Fits(m) => RoundTrip(m)
<1> SUFFICES ASSUME NEW m \in Messages, Fits(m) PROVE RoundTrip(m)
  OBVIOUS
<1> DEFINE b == serialize(m)
           n == Len(Rest(m))
           z == Size(Rest(m))
<1>1. /\ n \in Nat /\ Len(b) = 4 + n /\ At(b, 1, z)
  BY PartsLie
<1>2. n < Base2 * Base2
  <2>1. (4 + n) - 4 < Base2 * Base2
    BY <1>1 DEF Fits
  <2> QED
    BY <1>1, <2>1
<1>3. z = <<Uint8(n \div (Base2 * Base)), Uint8(n \div Base2), Uint8(n \div Base), Uint8(n)>>
  BY DEF Size
<1> HIDE DEF b, n, z
<1>4. /\ b[1] = Uint8(n \div (Base2 * Base)) /\ b[2] = Uint8(n \div Base2)
      /\ b[3] = Uint8(n \div Base) /\ b[4] = Uint8(n)
  <2>1. Len(z) = 4
    BY <1>3
  <2>2. \A i \in 1..4 : b[1 + i - 1] = z[i]
    BY <1>1, <2>1 DEF At
  <2>3. b[1] = z[1] /\ b[2] = z[2] /\ b[3] = z[3] /\ b[4] = z[4]
    BY <2>2
  <2> QED
    BY <1>3, <2>3
<1>5. ((b[1] * Base + b[2]) * Base + b[3]) * Base + b[4] = n
  BY <1>1, <1>2, <1>4, FourBytes
<1>6. n = Len(b) - 4
  BY <1>1
<1>7. deserialize(b) = m
  BY DeserializeIs DEF b
<1> QED
  BY <1>5, <1>6, <1>7 DEF RoundTrip, b

\* The messages the client sends are such messages.
LEMMA TheirMessages == MCMessages \subseteq Messages
<1>1. \A s, n \in Nat : Str(s, n) \in Bytes
  <2> SUFFICES ASSUME NEW s \in Nat, NEW n \in Nat PROVE Str(s, n) \in Bytes
    OBVIOUS
  <2>1. Str(s, n) \in [1..n -> Nat]
    BY DEF Str
  <2> QED
    BY <2>1 DEF Bytes
<1>2. Base \in Nat /\ Base - 1 \in Nat /\ Base + 1 \in Nat
  BY BaseAssumption
<1>3. MCStrings \subseteq Bytes
  <2>1. \A n \in {0, 1, Base - 1, Base, Base + 1} : n \in Nat
    BY <1>2
  <2> QED
    BY <1>1, <2>1 DEF MCStrings
<1>4. MCTopics \subseteq Seq(Bytes)
  <2> SUFFICES ASSUME NEW n \in 0..2, NEW q \in [1..n -> MCStrings] PROVE q \in Seq(Bytes)
    BY DEF MCTopics
  <2>1. q \in [1..n -> Bytes] /\ n \in Nat
    BY <1>3
  <2> QED
    BY <2>1
<1>5. MCHeaders \subseteq Headers
  <2> SUFFICES ASSUME NEW K \in SUBSET {Str(2, 1), Str(3, Base + 1)}, NEW h \in [K -> MCStrings]
               PROVE  h \in Headers
    BY DEF MCHeaders
  <2>1. IsFiniteSet({Str(2, 1), Str(3, Base + 1)})
    <3>1. IsFiniteSet({Str(2, 1)})
      BY FS_Singleton
    <3>2. {Str(2, 1), Str(3, Base + 1)} = {Str(2, 1)} \cup {Str(3, Base + 1)}
      OBVIOUS
    <3> QED
      BY <3>1, <3>2, FS_AddElement
  <2>2. IsFiniteSet(K) /\ K \in SUBSET Bytes
    BY <1>1, <1>2, <2>1, FS_Subset
  <2>3. h \in [K -> Bytes]
    BY <1>3
  <2> QED
    BY <2>2, <2>3 DEF Headers
<1>6. NoHeaders \in Headers
  <2>1. NoHeaders \in [{} -> Bytes]
    BY DEF NoHeaders
  <2>2. IsFiniteSet({}) /\ {} \in SUBSET Bytes
    BY FS_EmptySet
  <2> QED
    BY <2>1, <2>2 DEF Headers
<1>7. <<>> \in Bytes /\ <<>> \in Seq(Bytes) /\ Str(4, 0) \in Bytes /\ Str(4, Base + 1) \in Bytes
  BY <1>1, <1>2 DEF Bytes
<1>8. \A type \in DOMAIN MessageType, t \in Seq(Bytes), h \in Headers, data \in Bytes :
         RumorMessage(type, t, h, data) \in Messages
  BY DEF RumorMessage, MessageType, Messages
<1>9. {"CONNECT", "DISCONNECT", "SUBSCRIBE", "UNSUBSCRIBE", "MESSAGE", "PING"} \subseteq DOMAIN MessageType
  BY DEF MessageType
<1>10. ASSUME NEW t \in MCTopics, NEW data \in {Str(4, 0), Str(4, Base + 1)}, NEW h \in MCHeaders
       PROVE  MessageMessage(t, data, h) \in Messages
  BY <1>4, <1>5, <1>7, <1>8, <1>9 DEF MessageMessage
<1>11. \A t \in MCTopics : SubscribeMessage(t) \in Messages /\ UnsubscribeMessage(t) \in Messages
  BY <1>4, <1>6, <1>7, <1>8, <1>9 DEF SubscribeMessage, UnsubscribeMessage
<1>12. \A h \in MCHeaders : ConnectMessage(h) \in Messages
  BY <1>5, <1>7, <1>8, <1>9 DEF ConnectMessage
<1>13. DisconnectMessage \in Messages /\ PingMessage \in Messages
  BY <1>6, <1>7, <1>8, <1>9 DEF DisconnectMessage, PingMessage
<1> QED
  BY <1>10, <1>11, <1>12, <1>13 DEF MCMessages

\* What the run checks of the bytes, for every Base.
THEOREM ClientMessagesReadBack == MessagesReadBack
  BY EveryMessageReadsBack, TheirMessages DEF MessagesReadBack
=============================================================================
