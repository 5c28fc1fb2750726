---------------------- MODULE AccountManagement_proofs ----------------------
(***************************************************************************)
(* Theorems of AccountManagement: what TokenManager_proofs proves of the   *)
(* token state machine alone, and that still holds when users are signed   *)
(* up and deleted and mails are asked for on the same client.              *)
(*                                                                         *)
(* The invariants are those of TokenManager_proofs.  Its lemmas cover the  *)
(* steps of Next; each lemma here adds the eight steps of the account      *)
(* calls.                                                                  *)
(***************************************************************************)
EXTENDS AccountManagement, TokenManager_proofs

-----------------------------------------------------------------------------
(* Types *)

\* The variables keep their types.
LEMMA AccountTypeNext == TypeOK /\ [AccountNext]_vars => TypeOK'
<1> SUFFICES ASSUME TypeOK, [AccountNext]_vars PROVE TypeOK'
  OBVIOUS
<1> USE DEF TypeOK, AppTypeOK, TokenTypeOK, ControlTypeOK, Types, Statuses, Owners,
        AccountRequests, Pcs, Timers, Flags, appVars, tokVars, envVars
<1>0. Notified(open) \subseteq Timers
  BY NotifiedTimers
<1>1. CASE [Next]_vars
  BY <1>1, AppTypeNext, TokenTypeNext, ControlTypeNext
<1>2. ASSUME NEW a \in Accounts, SignUp(a) PROVE TypeOK'
  BY <1>2 DEF SignUp, InitCall, StartCall
<1>3. CASE DeleteUser
  BY <1>3 DEF DeleteUser, InitCall, StartCall
<1>4. CASE SendEmail
  <2>1. pc' \in {pc, "init"} /\ req' \in {req, "email"}
    BY <1>4 DEF SendEmail, StartCall
  <2>2. AppTypeOK'
    BY <1>4 DEF SendEmail, InitCall
  <2>3. TokenTypeOK'
    BY <1>4 DEF SendEmail, InitCall
  <2>4. ControlTypeOK'
    BY <1>4, <2>1 DEF SendEmail, InitCall
  <2> QED
    BY <2>2, <2>3, <2>4
<1>5. CASE ConnectCall
  BY <1>5 DEF ConnectCall
<1>6. CASE SignedUp
  <2>1. signer' \in Signers
    BY <1>6 DEF SignedUp, Signers
  <2> QED
    BY <1>6, <2>1, ReturnPointPc DEF SignedUp, AfterRequest
<1>7. CASE Deleted
  <2>1. signer' \in Signers
    BY <1>7 DEF Deleted, Signers
  <2> QED
    BY <1>7, <2>1, ReturnPointPc DEF Deleted, AfterRequest
<1>8. CASE EmailSent
  <2>1. signer' \in Signers
    BY <1>8 DEF EmailSent, Signers
  <2>2. AppTypeOK' /\ TokenTypeOK'
    BY <1>8, <2>1 DEF EmailSent
  <2>3. ControlTypeOK'
    BY <1>8, <1>0, ReturnPointPc DEF EmailSent, AfterRequest
  <2> QED
    BY <2>2, <2>3
<1>9. CASE CallRejected
  <2>1. AppTypeOK' /\ TokenTypeOK'
    BY <1>9 DEF CallRejected, TaskError
  <2>2. ControlTypeOK'
    BY <1>9, <1>0, ReturnPointPc DEF CallRejected, TaskError, AfterRequest
  <2> QED
    BY <2>1, <2>2
<1> QED
  BY <1>1, <1>2, <1>3, <1>4, <1>5, <1>6, <1>7, <1>8, <1>9
     DEF AccountNext, AccountCalls, AccountReplies

\* Every variable keeps its type under the account calls too, for every set of
\* credentials, assigned tokens and calls.
THEOREM AccountTypeCorrect == AccountSpec => []TypeOK
  BY TypeInit, AccountTypeNext, PTL DEF AccountSpec

-----------------------------------------------------------------------------
(* Requests and valid tokens *)

\* The sketch assigns no refresh token, with or without another token.
NoRefreshAssigned ==
    \A k \in AppTokens : ~k.refresh /\ ~(k.type = "custom" /\ k.token = "plain")

\* So no refresh waits for begin().
AccountFreshInv == FreshInv /\ "rtoken" \notin flags

\* Only an assigned refresh token asks begin() for a refresh.
LEMMA NoRefreshNext ==
  ASSUME NoRefreshAssigned, "rtoken" \notin flags, [Next]_vars
  PROVE  ("rtoken" \notin flags)'
<1>1. ASSUME NEW a \in Accounts, Begin(a) PROVE ("rtoken" \notin flags)'
  BY <1>1 DEF Begin
<1>2. CASE CallReady
  BY <1>2 DEF CallReady, appVars
<1>3. CASE Reset
  BY <1>3 DEF Reset
<1>4. ASSUME NEW k \in AppTokens, SetToken(k) PROVE ("rtoken" \notin flags)'
  BY <1>4, NoRefreshAssigned, OptionsAssumption DEF NoRefreshAssigned, SetToken
<1>5. CASE ForceRefresh
  BY <1>5 DEF ForceRefresh
<1>6. CASE UseSession
  BY <1>6 DEF UseSession, appVars
<1>7. CASE HandleCustomToken
  BY <1>7 DEF HandleCustomToken, appVars
<1>8. CASE HandleAssignedToken
  BY <1>8 DEF HandleAssignedToken, appVars
<1>9. CASE HandleExpiredIdToken
  BY <1>9 DEF HandleExpiredIdToken, appVars
<1>10. CASE HandleNewIdToken
  BY <1>10 DEF HandleNewIdToken, appVars
<1>11. CASE HandleGrantRefresh
  BY <1>11 DEF HandleGrantRefresh, appVars
<1>12. CASE HandleJWT
  BY <1>12 DEF HandleJWT, appVars
<1>13. CASE HandleOther
  BY <1>13 DEF HandleOther, appVars
<1>14. CASE TaskDone
  BY <1>14 DEF TaskDone, appVars
<1>15. CASE TaskSyncClock
  BY <1>15 DEF TaskSyncClock, appVars
<1>16. CASE TaskIdToken
  BY <1>16 DEF TaskIdToken
<1>17. CASE TaskBegin
  BY <1>17 DEF TaskBegin, appVars
<1>18. CASE TaskEncode
  BY <1>18 DEF TaskEncode, appVars
<1>19. CASE TaskSign
  BY <1>19 DEF TaskSign, appVars
<1>20. CASE TaskExchange
  BY <1>20 DEF TaskExchange, appVars
<1>21. CASE TaskNet
  BY <1>21 DEF TaskNet, appVars
<1>22. CASE ConnectFail
  BY <1>22 DEF ConnectFail, appVars
<1>23. CASE Connect
  BY <1>23 DEF Connect, appVars
<1>24. CASE NoReply
  BY <1>24 DEF NoReply, appVars
<1>25. CASE Rejected
  BY <1>25 DEF Rejected, appVars
<1>26. CASE Granted
  BY <1>26 DEF Granted
<1>27. CASE ReturnReady
  BY <1>27 DEF ReturnReady, appVars
<1>28. CASE Network
  BY <1>28 DEF Network, appVars
<1>29. CASE Expire
  BY <1>29 DEF Expire, appVars
<1>30. ASSUME NEW t \in Timers, Elapse(t) PROVE ("rtoken" \notin flags)'
  BY <1>30 DEF Elapse, appVars
<1>31. CASE UNCHANGED vars
  BY <1>31 DEF vars, appVars
<1> QED
  BY <1>1, <1>2, <1>3, <1>4, <1>5, <1>6, <1>7, <1>8, <1>9, <1>10, <1>11, <1>12, <1>13,
     <1>14, <1>15, <1>16, <1>17, <1>18, <1>19, <1>20, <1>21, <1>22, <1>23, <1>24, <1>25,
     <1>26, <1>27, <1>28, <1>29, <1>30, <1>31 DEF Next, Sketch, Library, Environment,
     HandleToken, TokenTask, Request

\* It is inductive.
LEMMA AccountFreshNext ==
  ASSUME NoRefreshAssigned
  PROVE  TypeOK /\ AccountFreshInv /\ [AccountNext]_vars => AccountFreshInv'
<1> SUFFICES ASSUME TypeOK, AccountFreshInv, [AccountNext]_vars PROVE AccountFreshInv'
  OBVIOUS
<1>0. req \in TokenRequests \cup AccountRequests
  BY DEF TypeOK, ControlTypeOK
<1>1. CASE [Next]_vars
  BY <1>1, FreshNext, NoRefreshNext DEF AccountFreshInv
<1> USE DEF AccountFreshInv, FreshInv, TaskInv, TokenRequests, AccountRequests,
        appVars, tokVars
<1>2. ASSUME NEW a \in Accounts, SignUp(a) PROVE AccountFreshInv'
  BY <1>2, AccountsAssumption DEF SignUp, InitCall, StartCall
<1>3. CASE DeleteUser
  BY <1>3 DEF DeleteUser, InitCall, StartCall
<1>4. CASE SendEmail
  BY <1>4 DEF SendEmail, InitCall, StartCall
<1>5. CASE ConnectCall
  BY <1>5 DEF ConnectCall
<1>6. CASE SignedUp
  BY <1>6, ReturnPointPc DEF SignedUp, AfterRequest
<1>7. CASE Deleted
  BY <1>7, ReturnPointPc DEF Deleted, AfterRequest
<1>8. CASE EmailSent
  BY <1>8, ReturnPointPc DEF EmailSent, AfterRequest
<1>9. CASE CallRejected
  BY <1>9, ReturnPointPc DEF CallRejected, TaskError, AfterRequest
<1> QED
  BY <1>1, <1>2, <1>3, <1>4, <1>5, <1>6, <1>7, <1>8, <1>9
     DEF AccountNext, AccountCalls, AccountReplies

\* Provided the sketch assigns no refresh token, no token is requested while the
\* present one is valid, the one of a new user included.  With one that waits for
\* begin() this is not so: it is refreshed although signUp() has got a new token.
THEOREM AccountNoneRequestedWhileValid ==
  ASSUME NoRefreshAssigned
  PROVE  AccountSpec => []OnlyExpiredRequested
<1>1. Init => AccountFreshInv
  BY DEF Init, AccountFreshInv, FreshInv, TaskInv, TokenRequests, AccountRequests
<1>2. TypeOK /\ AccountFreshInv /\ [AccountNext]_vars => AccountFreshInv'
  BY NoRefreshAssigned, AccountFreshNext
<1>3. AccountFreshInv => OnlyExpiredRequested
  BY DEF AccountFreshInv, FreshInv, OnlyExpiredRequested
<1> QED
  BY <1>1, <1>2, <1>3, AccountTypeCorrect, PTL DEF AccountSpec

-----------------------------------------------------------------------------
(* Whose token it is *)

\* The sketch assigns no custom token.
NoCustomAssigned == \A k \in AppTokens : k.type # "custom"

\* So none waits to be exchanged.
AccountOwnInv == OwnInv /\ "custom" \notin flags

\* Only the assignment of a custom token makes one wait.
LEMMA NoCustomNext ==
  ASSUME NoCustomAssigned, "custom" \notin flags, [Next]_vars
  PROVE  ("custom" \notin flags)'
<1>1. ASSUME NEW a \in Accounts, Begin(a) PROVE ("custom" \notin flags)'
  BY <1>1 DEF Begin
<1>2. CASE CallReady
  BY <1>2 DEF CallReady, appVars
<1>3. CASE Reset
  BY <1>3 DEF Reset
<1>4. ASSUME NEW k \in AppTokens, SetToken(k) PROVE ("custom" \notin flags)'
  BY <1>4, NoCustomAssigned, OptionsAssumption DEF NoCustomAssigned, SetToken
<1>5. CASE ForceRefresh
  BY <1>5 DEF ForceRefresh
<1>6. CASE UseSession
  BY <1>6 DEF UseSession, appVars
<1>7. CASE HandleCustomToken
  BY <1>7 DEF HandleCustomToken, appVars
<1>8. CASE HandleAssignedToken
  BY <1>8 DEF HandleAssignedToken, appVars
<1>9. CASE HandleExpiredIdToken
  BY <1>9 DEF HandleExpiredIdToken, appVars
<1>10. CASE HandleNewIdToken
  BY <1>10 DEF HandleNewIdToken, appVars
<1>11. CASE HandleGrantRefresh
  BY <1>11 DEF HandleGrantRefresh, appVars
<1>12. CASE HandleJWT
  BY <1>12 DEF HandleJWT, appVars
<1>13. CASE HandleOther
  BY <1>13 DEF HandleOther, appVars
<1>14. CASE TaskDone
  BY <1>14 DEF TaskDone, appVars
<1>15. CASE TaskSyncClock
  BY <1>15 DEF TaskSyncClock, appVars
<1>16. CASE TaskIdToken
  BY <1>16 DEF TaskIdToken
<1>17. CASE TaskBegin
  BY <1>17 DEF TaskBegin, appVars
<1>18. CASE TaskEncode
  BY <1>18 DEF TaskEncode, appVars
<1>19. CASE TaskSign
  BY <1>19 DEF TaskSign, appVars
<1>20. CASE TaskExchange
  BY <1>20 DEF TaskExchange, appVars
<1>21. CASE TaskNet
  BY <1>21 DEF TaskNet, appVars
<1>22. CASE ConnectFail
  BY <1>22 DEF ConnectFail, appVars
<1>23. CASE Connect
  BY <1>23 DEF Connect, appVars
<1>24. CASE NoReply
  BY <1>24 DEF NoReply, appVars
<1>25. CASE Rejected
  BY <1>25 DEF Rejected, appVars
<1>26. CASE Granted
  BY <1>26 DEF Granted
<1>27. CASE ReturnReady
  BY <1>27 DEF ReturnReady, appVars
<1>28. CASE Network
  BY <1>28 DEF Network, appVars
<1>29. CASE Expire
  BY <1>29 DEF Expire, appVars
<1>30. ASSUME NEW t \in Timers, Elapse(t) PROVE ("custom" \notin flags)'
  BY <1>30 DEF Elapse, appVars
<1>31. CASE UNCHANGED vars
  BY <1>31 DEF vars, appVars
<1> QED
  BY <1>1, <1>2, <1>3, <1>4, <1>5, <1>6, <1>7, <1>8, <1>9, <1>10, <1>11, <1>12, <1>13,
     <1>14, <1>15, <1>16, <1>17, <1>18, <1>19, <1>20, <1>21, <1>22, <1>23, <1>24, <1>25,
     <1>26, <1>27, <1>28, <1>29, <1>30, <1>31 DEF Next, Sketch, Library, Environment,
     HandleToken, TokenTask, Request

\* It is inductive with the types: a new user's token belongs to the credentials
\* that signUp() has stored, and the user deleted is the signed-in one.
LEMMA AccountOwnNext ==
  ASSUME UsersOnly, NoCustomAssigned
  PROVE  TypeOK /\ AccountOwnInv /\ [AccountNext]_vars => AccountOwnInv'
<1> SUFFICES ASSUME TypeOK, AccountOwnInv, [AccountNext]_vars PROVE AccountOwnInv'
  OBVIOUS
<1>1. CASE [Next]_vars
  BY <1>1, UsersOnly, NoCustomAssigned, OwnNext, NoCustomNext DEF AccountOwnInv, CustomMarked
<1> USE DEF AccountOwnInv, OwnInv, NeverGranted, appVars, tokVars
<1>2. ASSUME NEW a \in Accounts, SignUp(a) PROVE AccountOwnInv'
  BY <1>2 DEF SignUp, InitCall, StartCall
<1>3. CASE DeleteUser
  BY <1>3 DEF DeleteUser, InitCall, StartCall
<1>4. CASE SendEmail
  BY <1>4 DEF SendEmail, InitCall, StartCall
<1>5. CASE ConnectCall
  BY <1>5 DEF ConnectCall
<1>6. CASE SignedUp
  <2>1. signer' \in Signers /\ ~signer'.signed
    BY <1>6 DEF SignedUp, Signers
  <2> QED
    BY <1>6, <2>1 DEF SignedUp
<1>7. CASE Deleted
  <2>1. signer' \in Signers /\ ~signer'.signed
    BY <1>7 DEF Deleted, Signers
  <2> QED
    BY <1>7, <2>1 DEF Deleted
<1>8. CASE EmailSent
  <2>1. signer' \in Signers /\ ~signer'.signed
    BY <1>8 DEF EmailSent, Signers
  <2> QED
    BY <1>8, <2>1 DEF EmailSent
<1>9. CASE CallRejected
  BY <1>9 DEF CallRejected, TaskError
<1> QED
  BY <1>1, <1>2, <1>3, <1>4, <1>5, <1>6, <1>7, <1>8, <1>9
     DEF AccountNext, AccountCalls, AccountReplies

\* With users, database secrets and guests, and no custom token assigned, ready()
\* never answers TRUE with a token of other credentials than those of the last
\* begin() or signUp(), whoever was signed up or deleted in between.
THEOREM AccountReadyIsOwnToken ==
  ASSUME UsersOnly, NoCustomAssigned
  PROVE  AccountSpec => []ReadyIsOwnToken
<1>1. Init => AccountOwnInv
  BY TypeInit DEF Init, AccountOwnInv, OwnInv, TypeOK, TokenTypeOK
<1>2. TypeOK /\ AccountOwnInv /\ [AccountNext]_vars => AccountOwnInv'
  BY UsersOnly, NoCustomAssigned, AccountOwnNext
<1>3. AccountOwnInv => ReadyIsOwnToken
  BY AccountsAssumption DEF AccountOwnInv, OwnInv, ReadyIsOwnToken
<1> QED
  BY <1>1, <1>2, <1>3, AccountTypeCorrect, PTL DEF AccountSpec

-----------------------------------------------------------------------------
(* What a request leaves behind *)

\* A step that does not leave the client to a request that has ended, unless it is
\* the answer to a deletion (deleteIdToken returns without handleTaskError).
CallReleaseStep ==
    pc = "await" /\ pc' # "await" /\ ~Deleted => ~processing'

\* Every other answer, error and timeout ends in handleTaskError or clears the flag.
LEMMA AccountReleasesNext == [AccountNext]_vars => CallReleaseStep
<1> SUFFICES ASSUME [AccountNext]_vars, ~Deleted PROVE pc = "await" /\ pc' # "await" => ~processing'
  BY DEF CallReleaseStep
<1>1. CASE [Next]_vars
  BY <1>1, ReleasesNext
<1>2. ASSUME NEW a \in Accounts, SignUp(a) PROVE pc # "await"
  BY <1>2 DEF SignUp, InitCall
<1>3. CASE DeleteUser
  BY <1>3 DEF DeleteUser, InitCall
<1>4. CASE SendEmail
  BY <1>4 DEF SendEmail, InitCall
<1>5. CASE ConnectCall
  BY <1>5 DEF ConnectCall
<1>6. CASE SignedUp
  BY <1>6 DEF SignedUp
<1>7. CASE EmailSent
  BY <1>7 DEF EmailSent
<1>8. CASE CallRejected
  BY <1>8 DEF CallRejected, TaskError
<1> QED
  BY <1>1, <1>2, <1>3, <1>4, <1>5, <1>6, <1>7, <1>8
     DEF AccountNext, AccountCalls, AccountReplies

\* However a request that was sent ends, of a token or of an account, the in-use flag
\* is clear afterwards; a user that has been deleted is the one exception.
THEOREM AccountRequestReleases == AccountSpec => [][CallReleaseStep]_vars
<1>1. [AccountNext]_vars => [CallReleaseStep]_vars
  BY AccountReleasesNext
<1> QED
  BY <1>1, PTL DEF AccountSpec

-----------------------------------------------------------------------------
(* The JWT *)

\* No account call starts between encoding a JWT and signing it.
LEMMA AccountSignNext == TypeOK /\ SignInv /\ [AccountNext]_vars => SignInv'
<1> SUFFICES ASSUME TypeOK, SignInv, [AccountNext]_vars PROVE SignInv'
  OBVIOUS
<1>0. signer \in Signers
  BY DEF TypeOK, TokenTypeOK
<1>1. CASE [Next]_vars
  BY <1>1, SignNext
<1> USE DEF SignInv, appVars, tokVars
<1>2. ASSUME NEW a \in Accounts, SignUp(a) PROVE SignInv'
  BY <1>2 DEF SignUp, InitCall, StartCall
<1>3. CASE DeleteUser
  BY <1>3 DEF DeleteUser, InitCall, StartCall
<1>4. CASE SendEmail
  BY <1>4 DEF SendEmail, InitCall, StartCall
<1>5. CASE ConnectCall
  BY <1>5 DEF ConnectCall
<1>6. CASE SignedUp
  BY <1>6, <1>0, ReturnPointPc DEF SignedUp, AfterRequest, Signers
<1>7. CASE Deleted
  BY <1>7, <1>0, ReturnPointPc DEF Deleted, AfterRequest, Signers
<1>8. CASE EmailSent
  BY <1>8, <1>0, ReturnPointPc DEF EmailSent, AfterRequest, Signers
<1>9. CASE CallRejected
  BY <1>9, ReturnPointPc DEF CallRejected, TaskError, AfterRequest
<1> QED
  BY <1>1, <1>2, <1>3, <1>4, <1>5, <1>6, <1>7, <1>8, <1>9
     DEF AccountNext, AccountCalls, AccountReplies

\* Whatever accounts are signed up, deleted or mailed in between, every JWT is signed
\* for the credentials whose claims it carries.
THEOREM AccountSignsOwnClaims == AccountSpec => []SignsOwnClaims
<1>1. Init => SignInv
  BY DEF Init, SignInv
<1>2. SignInv => SignsOwnClaims
  BY DEF SignInv, SignsOwnClaims
<1> QED
  BY <1>1, <1>2, AccountSignNext, AccountTypeCorrect, PTL DEF AccountSpec

=============================================================================
