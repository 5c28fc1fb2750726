------------------------ MODULE MCAccountManagement ------------------------
(* Instances of AccountManagement for TLC. *)
EXTENDS AccountManagement

CONSTANTS u1, u2, leg, guest

\* Users, a database secret, and guest, who has no credentials.
AccountKind == [a \in Accounts |-> CASE a = guest -> "bare"
                                      [] a = leg   -> "legacy"
                                      [] OTHER     -> "user"]

=============================================================================
