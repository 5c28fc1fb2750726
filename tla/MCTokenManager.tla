-------------------------- MODULE MCTokenManager --------------------------
(* Instances of TokenManager for TLC: which credentials exist, which tokens *)
(* the sketch assigns, and the server that is assumed for liveness.         *)
EXTENDS TokenManager

CONSTANTS u1, u2, s1, s2, s3, leg, guest

\* Two users and a database secret.
UserKind == [a \in Accounts |-> IF a = leg THEN "legacy" ELSE "user"]

\* A user, a database secret, service accounts, and guest, who has only the
\* tokens the sketch assigns; s2 has a uid and asks for custom tokens.
ServiceKind == [a \in Accounts |-> CASE a = u1    -> "user"
                                      [] a = leg   -> "legacy"
                                      [] a = s2    -> "custom"
                                      [] a = guest -> "bare"
                                      [] OTHER     -> "oauth2"]

\* Tokens of each kind, with and without a refresh token, and a custom token
\* that still has to be exchanged.  The sketch assigns no empty token.
AssignedTokens ==
    { [type |-> "id", token |-> "jwt", expires |-> "valid", refresh |-> TRUE],
      [type |-> "id", token |-> "jwt", expires |-> "valid", refresh |-> FALSE],
      [type |-> "oauth2", token |-> "jwt", expires |-> "valid", refresh |-> TRUE],
      [type |-> "custom", token |-> "jwt", expires |-> "unset", refresh |-> FALSE],
      [type |-> "custom", token |-> "plain", expires |-> "unset", refresh |-> FALSE] }

\* A server that keeps being asked grants some request, and NTP answers some
\* of the polls.
LiveSpec == FairSpec /\ SF_vars(Granted) /\ SF_vars(TaskSyncClock /\ clockSet')

=============================================================================
