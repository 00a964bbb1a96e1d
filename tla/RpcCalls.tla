------------------------------ MODULE RpcCalls ------------------------------
(***************************************************************************)
(* What RumorTransport.send promises its caller, with the wire, the timers *)
(* and the bookkeeping left out: a call is put on the wire or it fails as  *)
(* disconnected without ever reaching the server; a call on the wire ends  *)
(* once, with the server's answer or with a timeout.                       *)
(***************************************************************************)
CONSTANT Calls

VARIABLES
    call,       \* the promise of each call
    requested,  \* the calls that were put on the wire
    answered    \* the calls the server has answered

Outcomes == {"resolved", "timeout", "disconnected"}

Init ==
    /\ call = [c \in Calls |-> "idle"]
    /\ requested = {}
    /\ answered = {}

Request(c) ==
    /\ call[c] = "idle"
    /\ call' = [call EXCEPT ![c] = "pending"]
    /\ requested' \in {requested, requested \cup {c}}
    /\ UNCHANGED answered

Answer(c) ==
    /\ c \in requested \ answered
    /\ answered' = answered \cup {c}
    /\ UNCHANGED <<call, requested>>

\* How a pending call may end, given what became of it on the wire.
MayEnd(c, outcome) ==
    CASE outcome = "resolved"     -> c \in answered
      [] outcome = "timeout"      -> c \in requested
      [] outcome = "disconnected" -> c \notin requested

Settle(c) ==
    /\ call[c] = "pending"
    /\ \E o \in Outcomes : MayEnd(c, o) /\ call' = [call EXCEPT ![c] = o]
    /\ UNCHANGED <<requested, answered>>

Next == \E c \in Calls : Request(c) \/ Answer(c) \/ Settle(c)

Spec == Init /\ [][Next]_<<call, requested, answered>>
=============================================================================
