----------------------------- MODULE TokenLease -----------------------------
(***************************************************************************)
(* What the token manager promises, without its task, JWT, timers, flags   *)
(* and status: the program holds a token under a lease.  The library asks  *)
(* for a new one when the lease is over, for one owner at a time; only the *)
(* answer to that request replaces the token, by one of that owner; and a  *)
(* request that fails changes nothing.  The program may assign a token,    *)
(* give one up, end the lease or sign in with other credentials, but not   *)
(* while it waits for a call of the library.                               *)
(***************************************************************************)
CONSTANTS
    Owners, \* the identities a token may be issued to
    App,    \* the one of tokens that the program brings along
    None    \* no identity

VARIABLES
    token,  \* the owner of the token, or None
    lease,  \* "unset" (no end is known), "valid" or "past"
    asked,  \* whom a request is under way for: none or one, who may be None
    inside  \* the program waits for a call of the library

vars == <<token, lease, asked, inside>>

Init == token = None /\ lease = "unset" /\ asked = {} /\ inside = FALSE

\* A request starts, when the lease is over; the library does not return before it ends.
Start ==
    /\ lease' # "valid" /\ inside'
    /\ \E o \in Owners \cup {None} : asked' = {o}

Ask == inside /\ asked = {} /\ Start /\ UNCHANGED <<token, lease>>

\* The token arrives.
Grant ==
    /\ asked # {} /\ asked' = {} /\ inside' \in BOOLEAN
    /\ token' \in asked \cap Owners /\ lease' = "valid"

\* It is refused, or no answer comes.
Fail == asked # {} /\ asked' = {} /\ inside' \in BOOLEAN /\ UNCHANGED <<token, lease>>

Return == inside /\ asked = {} /\ ~inside' /\ UNCHANGED <<token, lease, asked>>

Expire == lease = "valid" /\ lease' = "past" /\ UNCHANGED <<token, asked, inside>>

\* A call of the program, which may ask for a token at once.
Call == ~inside /\ inside' \in BOOLEAN /\ (asked' = {} \/ Start)

\* It brings a token, or gives up the one there is.
Assign == Call /\ token' \in {App, None} /\ lease' \in {"unset", "valid"}

\* It signs in, or asks for the token: that may end the lease, but begins none.  Some
\* credentials are a token themselves.
SignIn == Call /\ token' \in Owners \cup {token} /\ lease' \in {lease, "unset"}

Next == Ask \/ Grant \/ Fail \/ Return \/ Expire \/ Assign \/ SignIn

Spec == Init /\ [][Next]_vars

=============================================================================
