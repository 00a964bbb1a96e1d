------------------------------ MODULE CallOfTwo ------------------------------
(****************************************************************************)
(* What a call is to its two ends, with the messages, the authentication    *)
(* and the socket left out. The caller believes in its call as soon as it   *)
(* has asked for it, the callee once it has been asked; the callee ends it, *)
(* and the caller stops believing in it once it is told. There is one call  *)
(* at a time: a new one is asked for only when nothing is left of the last, *)
(* so that no end of one is taken for the end of another. When the line is  *)
(* lost nothing is left, and nothing begins.                                *)
(****************************************************************************)
VARIABLES
    lost,    \* the line between the two
    caller,  \* the caller believes that there is a call
    callee,  \* the callee is in a call
    asked,   \* the request for a call is under way
    ended    \* the end of a call is under way

ends == <<caller, callee, asked, ended>>
callVars == <<lost, ends>>

Nothing == ~caller /\ ~callee /\ ~asked /\ ~ended

Init == ~lost /\ Nothing

Ask ==
    /\ ~lost /\ Nothing
    /\ caller' /\ asked' /\ UNCHANGED <<lost, callee, ended>>

PickUp ==
    /\ asked /\ ~asked'
    /\ callee' /\ UNCHANGED <<lost, caller, ended>>

End ==
    /\ callee /\ ~callee'
    /\ ended' /\ UNCHANGED <<lost, caller, asked>>

Tell ==
    /\ ended /\ ~ended'
    /\ ~caller' /\ UNCHANGED <<lost, callee, asked>>

Lose ==
    /\ ~lost /\ lost'
    /\ Nothing'

Next == Ask \/ PickUp \/ End \/ Tell \/ Lose

Spec == Init /\ [][Next]_callVars
=============================================================================
