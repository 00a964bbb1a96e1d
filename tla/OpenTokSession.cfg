SPECIFICATION Spec
CONSTANTS
    Remote = {r1, r2}
    Own = {o1}
    MaxWire = 2
INVARIANTS TypeOK ViewConverges NoResurrection SubscribedOnce EveryStreamIsWatched AnswersAreNamed
PROPERTIES ImplementsReplica ConnectSettles
CHECK_DEADLOCK FALSE
