--------------------------- MODULE OperationQueue ---------------------------
(***************************************************************************)
(* What the error queue promises the sketch, without a queue, attempts or  *)
(* indices: an operation that was accepted under a queue ID is owed until  *)
(* the server performs it, and is performed at least once if the network   *)
(* stays up and the device is not restarted.                               *)
(***************************************************************************)
CONSTANT Ops

VARIABLES
    owed,      \* the operations accepted and not performed yet
    performed, \* the operations the server has performed
    up         \* the network is up

vars == <<owed, performed, up>>

Init == owed = {} /\ performed = {} /\ up \in BOOLEAN

\* An operation that failed is accepted.
Accept(o) ==
    /\ o \notin performed /\ owed' = owed \cup {o}
    /\ UNCHANGED <<performed, up>>

\* The server performs an operation, owed or not.
Perform(o) ==
    /\ up /\ performed' = performed \cup {o} /\ owed' = owed \ {o}
    /\ UNCHANGED up

\* A restart forgets what is owed.
Forget == owed' = {} /\ UNCHANGED <<performed, up>>

Network == up' = ~up /\ UNCHANGED <<owed, performed>>

Next == (\E o \in Ops : Accept(o) \/ Perform(o)) \/ Forget \/ Network

\* An operation that stays owed while the network stays up is performed.
Fairness == \A o \in Ops : WF_vars(o \in owed /\ Perform(o))

Spec == Init /\ [][Next]_vars /\ Fairness

=============================================================================
