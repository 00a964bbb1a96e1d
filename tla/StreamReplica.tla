---------------------------- MODULE StreamReplica ----------------------------
(***************************************************************************)
(* What an application that joins a session owes its users: a copy of the  *)
(* set of streams that may lag behind, and is wrong in no other way. The   *)
(* changes reach it in their order, among other messages; what happened    *)
(* before it listened comes in one message, its snapshot. From then on the *)
(* copy is the session as it was at some time, and goes through every      *)
(* later state of it: no change is missed, applied twice or out of order.  *)
(***************************************************************************)
EXTENDS Sequences

CONSTANTS
    Streams,
    Own        \* streams that are not copied

VARIABLES
    streams,   \* the streams there are
    listening, \* changes are sent
    changes,   \* what was sent and is not yet taken
    told,      \* the streams there were when the oldest of these was sent
    copy,
    joined     \* the snapshot was taken

replicaVars == <<streams, listening, changes, told, copy, joined>>

Change == {"created", "deleted"} \X Streams
Other == <<"other">>

Applied(S, m) == CASE m[1] = "created" -> S \cup {m[2]}
                   [] m[1] = "deleted" -> S \ {m[2]}
                   [] OTHER            -> S

Init ==
    /\ streams = {} /\ told = {} /\ copy = {}
    /\ changes = <<>>
    /\ listening = FALSE /\ joined = FALSE

\* A stream is created, or ends.
Happens(m) ==
    /\ streams' # streams /\ streams' = Applied(streams, m)
    /\ UNCHANGED <<listening, joined, copy>>
    /\ IF listening THEN changes' = Append(changes, m) /\ UNCHANGED told
       ELSE told' = Applied(told, m) /\ UNCHANGED changes

\* Something else is sent.
Says ==
    /\ UNCHANGED <<streams, listening, joined, copy>>
    /\ changes' = Append(changes, Other)
    /\ UNCHANGED told

Listen ==
    /\ ~listening /\ listening' = TRUE
    /\ UNCHANGED <<streams, joined, copy, changes, told>>

\* The oldest message is taken.
Take ==
    /\ UNCHANGED <<streams, listening, joined>>
    /\ changes # <<>> /\ changes' = Tail(changes)
    /\ copy' = Applied(copy, Head(changes)) \ Own
    /\ told' = Applied(told, Head(changes))

\* The snapshot is put into the copy, with what was taken since it came.
Join ==
    /\ ~joined /\ joined' = TRUE
    /\ listening
    /\ copy' = told \ Own
    /\ UNCHANGED <<streams, listening, changes, told>>

\* The connection is lost: nothing more is promised.
Cut ==
    /\ listening' = FALSE /\ joined' = FALSE
    /\ UNCHANGED <<streams, copy>>
    /\ changes' = <<>> /\ told' = streams

Next == Take \/ Join \/ Says \/ Listen \/ Cut \/ \E m \in Change : Happens(m)

Spec == Init /\ [][Next]_replicaVars

\* What it comes to: the copy is behind by the changes that are not yet taken, and by
\* nothing else.
IsBehind == joined => listening /\ copy = told \ Own
=============================================================================
