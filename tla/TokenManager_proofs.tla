------------------------ MODULE TokenManager_proofs ------------------------
(***************************************************************************)
(* Theorems of TokenManager, for every set of credentials, keys, assigned  *)
(* tokens, sketch calls, server answers and outages.                       *)
(*                                                                         *)
(* Type correctness comes first, one lemma per conjunct of TypeOK.  The    *)
(* safety properties follow, each from an inductive invariant of its own:  *)
(* FreshInv says at which places a grant can still come; HasTokenInv       *)
(* relates the status to the token stored; OwnInv says whose tokens are    *)
(* stored; SignInv that a JWT is signed at once.  In every lemma that a    *)
(* step preserves an invariant there is one step per action.  The last     *)
(* part proves that the token manager implements TokenLease.               *)
(***************************************************************************)
EXTENDS TokenManager, TLAPS

-----------------------------------------------------------------------------
(* The helpers *)

\* The timers stay timers when the status is reported.
LEMMA NotifiedTimers ==
  ASSUME NEW o \in SUBSET Timers PROVE Notified(o) \in SUBSET Timers
  BY DEF Notified, Timers

\* The same when nothing but the callback is called.
LEMMA ReportedTimers == open \in SUBSET Timers => Reported \in SUBSET Timers
  BY DEF Reported, Timers

\* handleToken returns to ready() or to the sketch.
LEMMA ReturnPointPc == ReturnPoint \in {"ready", "app"}
  BY DEF ReturnPoint

\* Setting the step after an exchange leaves a signer.
LEMMA ExchangeStepType ==
  ASSUME NEW sg \in Signers, NEW ok \in BOOLEAN PROVE ExchangeStep(sg, ok) \subseteq Signers
  BY DEF ExchangeStep, Signers

\* So does clearing the JWT.
LEMMA ClearJWTType == signer \in Signers => ClearJWT \in Signers
  BY DEF ClearJWT, Signers

\* A grant is issued to known credentials, to the sketch, or to nobody.
LEMMA GranteeType == TypeOK => Grantee \in Owners \cup {None}
  BY DEF Grantee, TypeOK, AppTypeOK, TokenTypeOK, ControlTypeOK, Owners, Signers

\* The variables begin() writes keep their types.
LEMMA AppTypeNext == TypeOK /\ [Next]_vars => AppTypeOK'
<1> SUFFICES ASSUME TypeOK, [Next]_vars PROVE AppTypeOK'
  OBVIOUS
<1> USE DEF TypeOK
<1>1. ASSUME NEW a \in Accounts, Begin(a) PROVE AppTypeOK'
  BY <1>1 DEF Begin, CredentialsChanged, Family, AppTypeOK, Flags
<1>2. CASE CallReady
  BY <1>2 DEF CallReady, appVars, AppTypeOK
<1>3. CASE Reset
  BY <1>3 DEF Reset, AppTypeOK, NoneKnown, Flags
<1>4. ASSUME NEW k \in AppTokens, SetToken(k) PROVE AppTypeOK'
  <2>1. flags' \subseteq Flags
    BY <1>4, OptionsAssumption DEF SetToken, AppTypeOK, Flags
  <2>2. known' \in [{"user", "service"} -> Accounts \cup {None}]
    BY <1>4 DEF SetToken, NoneKnown
  <2> QED
    BY <1>4, <2>1, <2>2 DEF SetToken, AppTypeOK
<1>5. CASE ForceRefresh
  BY <1>5 DEF ForceRefresh, AppTypeOK, Flags
<1>6. CASE UseSession
  BY <1>6 DEF UseSession, appVars, AppTypeOK
<1>7. CASE HandleCustomToken
  BY <1>7 DEF HandleCustomToken, appVars, AppTypeOK
<1>8. CASE HandleAssignedToken
  BY <1>8 DEF HandleAssignedToken, appVars, AppTypeOK
<1>9. CASE HandleExpiredIdToken
  BY <1>9 DEF HandleExpiredIdToken, appVars, AppTypeOK
<1>10. CASE HandleNewIdToken
  BY <1>10 DEF HandleNewIdToken, appVars, AppTypeOK
<1>11. CASE HandleGrantRefresh
  BY <1>11 DEF HandleGrantRefresh, appVars, AppTypeOK
<1>12. CASE HandleJWT
  BY <1>12 DEF HandleJWT, appVars, AppTypeOK
<1>13. CASE HandleOther
  BY <1>13 DEF HandleOther, appVars, AppTypeOK
<1>14. CASE TaskDone
  BY <1>14 DEF TaskDone, appVars, AppTypeOK
<1>15. CASE TaskSyncClock
  BY <1>15 DEF TaskSyncClock, appVars, AppTypeOK
<1>16. CASE TaskIdToken
  BY <1>16 DEF TaskIdToken, AppTypeOK, Flags
<1>17. CASE TaskBegin
  BY <1>17 DEF TaskBegin, appVars, AppTypeOK
<1>18. CASE TaskEncode
  BY <1>18 DEF TaskEncode, appVars, AppTypeOK
<1>19. CASE TaskSign
  BY <1>19 DEF TaskSign, appVars, AppTypeOK
<1>20. CASE TaskExchange
  BY <1>20 DEF TaskExchange, appVars, AppTypeOK
<1>21. CASE TaskNet
  BY <1>21 DEF TaskNet, appVars, AppTypeOK
<1>22. CASE ConnectFail
  BY <1>22 DEF ConnectFail, appVars, AppTypeOK
<1>23. CASE Connect
  BY <1>23 DEF Connect, appVars, AppTypeOK
<1>24. CASE NoReply
  BY <1>24 DEF NoReply, appVars, AppTypeOK
<1>25. CASE Rejected
  BY <1>25 DEF Rejected, appVars, AppTypeOK
<1>26. CASE Granted
  BY <1>26 DEF Granted, AppTypeOK, Flags
<1>27. CASE ReturnReady
  BY <1>27 DEF ReturnReady, appVars, AppTypeOK
<1>28. CASE Network
  BY <1>28 DEF Network, appVars, AppTypeOK
<1>29. CASE Expire
  BY <1>29 DEF Expire, appVars, AppTypeOK
<1>30. ASSUME NEW t \in Timers, Elapse(t) PROVE AppTypeOK'
  BY <1>30 DEF Elapse, appVars, AppTypeOK
<1>31. CASE UNCHANGED vars
  BY <1>31 DEF vars, appVars, AppTypeOK
<1> QED
  BY <1>1, <1>2, <1>3, <1>4, <1>5, <1>6, <1>7, <1>8, <1>9, <1>10, <1>11, <1>12, <1>13,
     <1>14, <1>15, <1>16, <1>17, <1>18, <1>19, <1>20, <1>21, <1>22, <1>23, <1>24, <1>25,
     <1>26, <1>27, <1>28, <1>29, <1>30, <1>31 DEF Next, Sketch, Library, Environment,
     HandleToken, TokenTask, Request

\* The token variables keep their types.
LEMMA TokenTypeNext == TypeOK /\ [Next]_vars => TokenTypeOK'
<1> SUFFICES ASSUME TypeOK, [Next]_vars PROVE TokenTypeOK'
  OBVIOUS
<1> USE DEF TypeOK
<1>1. ASSUME NEW a \in Accounts, Begin(a) PROVE TokenTypeOK'
  <2>1. Kind[a] \in {"user", "oauth2", "custom", "legacy", "bare"}
    BY AccountsAssumption
  <2>2. type' \in Types
    BY <1>1, <2>1 DEF Begin, TokenTypeOK, Types, ServiceKinds
  <2>3. status' \in Statuses
    BY <1>1 DEF Begin, RefreshNow, ClaimClient, TokenTypeOK, Statuses
  <2>4. auth' \in Owners \cup {None}
    BY <1>1 DEF Begin, TokenTypeOK, Owners
  <2>5. expires' \in {"unset", "valid", "past"}
    BY <1>1 DEF Begin, ExpiryAfterBegin, TokenTypeOK
  <2> QED
    BY <1>1, <2>2, <2>3, <2>4, <2>5 DEF Begin, TokenTypeOK
<1>2. CASE CallReady
  BY <1>2 DEF CallReady, TokenTypeOK, tokVars
<1>3. CASE Reset
  BY <1>3 DEF Reset, TokenTypeOK, Statuses
<1>4. ASSUME NEW k \in AppTokens, SetToken(k) PROVE TokenTypeOK'
  BY <1>4, OptionsAssumption DEF SetToken, RefreshNow, ClaimClient, TokenTypeOK, Statuses,
     Types, Owners, Signers
<1>5. CASE ForceRefresh
  BY <1>5 DEF ForceRefresh, RefreshNow, ClaimClient, TokenTypeOK, Statuses
<1>6. CASE UseSession
  BY <1>6 DEF UseSession, TokenTypeOK, tokVars
<1>7. CASE HandleCustomToken
  BY <1>7 DEF HandleCustomToken, ClaimClient, TokenTypeOK, Statuses, Types
<1>8. CASE HandleAssignedToken
  BY <1>8 DEF HandleAssignedToken, TokenTypeOK, Statuses
<1>9. CASE HandleExpiredIdToken
  BY <1>9 DEF HandleExpiredIdToken, ClaimClient, TokenTypeOK, Statuses
<1>10. CASE HandleNewIdToken
  BY <1>10 DEF HandleNewIdToken, TokenTypeOK, tokVars
<1>11. CASE HandleGrantRefresh
  BY <1>11 DEF HandleGrantRefresh, ClaimClient, TokenTypeOK, Statuses
<1>12. CASE HandleJWT
  BY <1>12 DEF HandleJWT, TokenTypeOK, Statuses
<1>13. CASE HandleOther
  BY <1>13 DEF HandleOther, TokenTypeOK, Statuses
<1>14. CASE TaskDone
  BY <1>14 DEF TaskDone, TokenTypeOK, tokVars
<1>15. CASE TaskSyncClock
  BY <1>15 DEF TaskSyncClock, TokenTypeOK, Statuses
<1>16. CASE TaskIdToken
  BY <1>16 DEF TaskIdToken, ClaimClient, TokenTypeOK, Statuses
<1>17. CASE TaskBegin
  BY <1>17 DEF TaskBegin, TokenTypeOK, Signers, tokVars
<1>18. CASE TaskEncode
  BY <1>18 DEF TaskEncode, TokenTypeOK, AppTypeOK, Statuses, Signers
<1>19. CASE TaskSign
  BY <1>19 DEF TaskSign, TokenTypeOK, Statuses, Signers
<1>20. CASE TaskExchange
  BY <1>20 DEF TaskExchange, ClaimClient, TokenTypeOK, Statuses
<1>21. CASE TaskNet
  BY <1>21 DEF TaskNet, TaskError, TokenTypeOK, Statuses
<1>22. CASE ConnectFail
  BY <1>22, ExchangeStepType DEF ConnectFail, TokenTypeOK, tokVars
<1>23. CASE Connect
  BY <1>23 DEF Connect, TokenTypeOK, tokVars
<1>24. CASE NoReply
  BY <1>24, ExchangeStepType DEF NoReply, TaskError, TokenTypeOK, Statuses
<1>25. CASE Rejected
  <2>1. \A st \in {"encode", ClearJWT.step} : [ClearJWT EXCEPT !.step = st] \in Signers
    BY ClearJWTType DEF TokenTypeOK, Signers
  <2>2. signer' \in Signers
    BY <1>25, <2>1, ExchangeStepType DEF Rejected
  <2> QED
    BY <1>25, <2>2 DEF Rejected, TaskError, TokenTypeOK, Statuses
<1>26. CASE Granted
  <2>1. [ClearJWT EXCEPT !.step = "begin"] \in Signers
    BY ClearJWTType DEF TokenTypeOK, Signers
  <2>2. signer' \in Signers
    BY <1>26, <2>1, ExchangeStepType DEF Granted
  <2> QED
    BY <1>26, <2>2, GranteeType DEF Granted, TokenTypeOK, Statuses
<1>27. CASE ReturnReady
  BY <1>27 DEF ReturnReady, TaskError, TokenTypeOK, Statuses
<1>28. CASE Network
  BY <1>28 DEF Network, TokenTypeOK, tokVars
<1>29. CASE Expire
  BY <1>29 DEF Expire, TokenTypeOK
<1>30. ASSUME NEW t \in Timers, Elapse(t) PROVE TokenTypeOK'
  BY <1>30 DEF Elapse, TokenTypeOK, tokVars
<1>31. CASE UNCHANGED vars
  BY <1>31 DEF vars, TokenTypeOK, tokVars
<1> QED
  BY <1>1, <1>2, <1>3, <1>4, <1>5, <1>6, <1>7, <1>8, <1>9, <1>10, <1>11, <1>12, <1>13,
     <1>14, <1>15, <1>16, <1>17, <1>18, <1>19, <1>20, <1>21, <1>22, <1>23, <1>24, <1>25,
     <1>26, <1>27, <1>28, <1>29, <1>30, <1>31 DEF Next, Sketch, Library, Environment,
     HandleToken, TokenTask, Request

\* The control variables keep their types.
LEMMA ControlTypeNext == TypeOK /\ [Next]_vars => ControlTypeOK'
<1> SUFFICES ASSUME TypeOK, [Next]_vars PROVE ControlTypeOK'
  OBVIOUS
<1> USE DEF TypeOK
<1>1. ASSUME NEW a \in Accounts, Begin(a) PROVE ControlTypeOK'
  BY <1>1, NotifiedTimers DEF Begin, RefreshNow, ClaimClient, TokenRequests, Pcs, Timers,
     ControlTypeOK, envVars
<1>2. CASE CallReady
  BY <1>2 DEF CallReady, Pcs, ControlTypeOK, envVars
<1>3. CASE Reset
  BY <1>3 DEF Reset, ResetTimers, Timers, ControlTypeOK, envVars
<1>4. ASSUME NEW k \in AppTokens, SetToken(k) PROVE ControlTypeOK'
  BY <1>4, NotifiedTimers DEF SetToken, RefreshNow, ClaimClient, TokenRequests, Pcs,
     ResetTimers, Timers, ControlTypeOK, envVars
<1>5. CASE ForceRefresh
  BY <1>5, NotifiedTimers DEF ForceRefresh, RefreshNow, ClaimClient, TokenRequests, Pcs,
     Timers, ControlTypeOK, envVars
<1>6. CASE UseSession
  BY <1>6 DEF UseSession, ControlTypeOK, envVars
<1>7. CASE HandleCustomToken
  <2>1. open \ {"request"} \in SUBSET Timers
    BY DEF ControlTypeOK
  <2>2. Notified(open \ {"request"}) \in SUBSET Timers
    BY <2>1, NotifiedTimers
  <2> QED
    BY <1>7, <2>1, <2>2, ReturnPointPc DEF HandleCustomToken, HandleReturn, ClaimClient, TokenRequests,
       Pcs, ControlTypeOK, envVars
<1>8. CASE HandleAssignedToken
  BY <1>8, ReturnPointPc DEF HandleAssignedToken, HandleReturn, Pcs, ControlTypeOK, envVars
<1>9. CASE HandleExpiredIdToken
  BY <1>9, NotifiedTimers, ReturnPointPc DEF HandleExpiredIdToken, HandleReturn,
     ClaimClient, TokenRequests, Pcs, ControlTypeOK, envVars
<1>10. CASE HandleNewIdToken
  BY <1>10, ReturnPointPc DEF HandleNewIdToken, HandleReturn, EnterTask, Pcs, ControlTypeOK,
     envVars
<1>11. CASE HandleGrantRefresh
  BY <1>11, NotifiedTimers, ReturnPointPc DEF HandleGrantRefresh, HandleReturn, ClaimClient,
     TokenRequests, Pcs, ControlTypeOK, envVars
<1>12. CASE HandleJWT
  BY <1>12, NotifiedTimers, ReturnPointPc DEF HandleJWT, HandleReturn, EnterTask, Pcs,
     ControlTypeOK, envVars
<1>13. CASE HandleOther
  BY <1>13, ReportedTimers, ReturnPointPc DEF HandleOther, Pcs, ControlTypeOK, envVars
<1>14. CASE TaskDone
  BY <1>14, ReturnPointPc DEF TaskDone, LeaveTask, Pcs, ControlTypeOK, envVars
<1>15. CASE TaskSyncClock
  BY <1>15, ReturnPointPc DEF TaskSyncClock, LeaveTask, Pcs, Timers, ControlTypeOK, envVars
<1>16. CASE TaskIdToken
  BY <1>16, NotifiedTimers DEF TaskIdToken, ClaimClient, TokenRequests, Pcs, ControlTypeOK,
     envVars
<1>17. CASE TaskBegin
  BY <1>17 DEF TaskBegin, ControlTypeOK, envVars
<1>18. CASE TaskEncode
  BY <1>18, NotifiedTimers DEF TaskEncode, ControlTypeOK, envVars
<1>19. CASE TaskSign
  BY <1>19, ReportedTimers DEF TaskSign, ControlTypeOK, envVars
<1>20. CASE TaskExchange
  BY <1>20, NotifiedTimers DEF TaskExchange, ClaimClient, TokenRequests, Pcs, ControlTypeOK,
     envVars
<1>21. CASE TaskNet
  BY <1>21, NotifiedTimers, ReturnPointPc DEF TaskNet, TaskError, LeaveTask, Pcs,
     ControlTypeOK, envVars
<1>22. CASE ConnectFail
  BY <1>22, ReturnPointPc DEF ConnectFail, AfterRequest, Pcs, ControlTypeOK, envVars
<1>23. CASE Connect
  BY <1>23 DEF Connect, Pcs, ControlTypeOK, envVars
<1>24. CASE NoReply
  BY <1>24, NotifiedTimers, ReturnPointPc DEF NoReply, TaskError, AfterRequest, Pcs,
     ControlTypeOK, envVars
<1>25. CASE Rejected
  BY <1>25, NotifiedTimers, ReturnPointPc DEF Rejected, TaskError, AfterRequest, Pcs,
     ControlTypeOK, envVars
<1>26. CASE Granted
  BY <1>26, NotifiedTimers, ReturnPointPc DEF Granted, AfterRequest, Pcs, ControlTypeOK,
     envVars
<1>27. CASE ReturnReady
  BY <1>27, NotifiedTimers DEF ReturnReady, TaskError, Pcs, ControlTypeOK, envVars
<1>28. CASE Network
  BY <1>28 DEF Network, NetDown, NetUp, ControlTypeOK, envVars
<1>29. CASE Expire
  BY <1>29 DEF Expire, ControlTypeOK, envVars
<1>30. ASSUME NEW t \in Timers, Elapse(t) PROVE ControlTypeOK'
  BY <1>30 DEF Elapse, ControlTypeOK, envVars
<1>31. CASE UNCHANGED vars
  BY <1>31 DEF vars, ControlTypeOK, envVars
<1> QED
  BY <1>1, <1>2, <1>3, <1>4, <1>5, <1>6, <1>7, <1>8, <1>9, <1>10, <1>11, <1>12, <1>13,
     <1>14, <1>15, <1>16, <1>17, <1>18, <1>19, <1>20, <1>21, <1>22, <1>23, <1>24, <1>25,
     <1>26, <1>27, <1>28, <1>29, <1>30, <1>31 DEF Next, Sketch, Library, Environment,
     HandleToken, TokenTask, Request

\* The types hold of the initial states.
LEMMA TypeInit == Init => TypeOK
<1> SUFFICES ASSUME Init PROVE TypeOK
  OBVIOUS
<1>1. AppTypeOK
  BY DEF Init, AppTypeOK, NoneKnown
<1>2. TokenTypeOK
  <2>1. signer \in Signers
    BY DEF Init, Signers
  <2> QED
    BY <2>1 DEF Init, TokenTypeOK, Statuses, Types
<1>3. ControlTypeOK
  BY DEF Init, ControlTypeOK, Timers, Pcs, TokenRequests
<1> QED
  BY <1>1, <1>2, <1>3 DEF TypeOK

\* Every variable keeps its type, for every set of credentials and assigned tokens.
THEOREM TypeCorrect == Spec => []TypeOK
<1>1. TypeOK /\ [Next]_vars => TypeOK'
  BY AppTypeNext, TokenTypeNext, ControlTypeNext DEF TypeOK
<1> QED
  BY TypeInit, <1>1, PTL DEF Spec

-----------------------------------------------------------------------------
(* The in-use flag *)

\* Each of the three ends of a sent request clears the flag.
LEMMA ReleasesNext ==
  TRUE /\ [Next]_vars => (pc = "await" /\ pc' # "await" => ~processing')
<1> SUFFICES ASSUME TRUE, [Next]_vars PROVE (pc = "await" /\ pc' # "await" => ~processing')
  OBVIOUS
<1>1. ASSUME NEW a \in Accounts, Begin(a) PROVE (pc = "await" /\ pc' # "await" => ~processing')
  BY <1>1 DEF Begin, RefreshNow, ClaimClient
<1>2. CASE CallReady
  BY <1>2 DEF CallReady, IsAuthToken
<1>3. CASE Reset
  BY <1>3 DEF Reset
<1>4. ASSUME NEW k \in AppTokens, SetToken(k) PROVE (pc = "await" /\ pc' # "await" => ~processing')
  BY <1>4 DEF SetToken, RefreshNow, ClaimClient
<1>5. CASE ForceRefresh
  BY <1>5 DEF ForceRefresh, RefreshNow, ClaimClient
<1>6. CASE UseSession
  BY <1>6 DEF UseSession
<1>7. CASE HandleCustomToken
  BY <1>7, ReturnPointPc DEF HandleCustomToken, HandleReturn, ClaimClient
<1>8. CASE HandleAssignedToken
  BY <1>8, ReturnPointPc DEF HandleAssignedToken, HandleReturn
<1>9. CASE HandleExpiredIdToken
  BY <1>9, ReturnPointPc DEF HandleExpiredIdToken, HandleReturn, ClaimClient
<1>10. CASE HandleNewIdToken
  BY <1>10, ReturnPointPc DEF HandleNewIdToken, HandleReturn, EnterTask
<1>11. CASE HandleGrantRefresh
  BY <1>11, ReturnPointPc DEF HandleGrantRefresh, HandleReturn, ClaimClient
<1>12. CASE HandleJWT
  BY <1>12, ReturnPointPc DEF HandleJWT, HandleReturn, EnterTask
<1>13. CASE HandleOther
  BY <1>13, ReturnPointPc DEF HandleOther
<1>14. CASE TaskDone
  BY <1>14, ReturnPointPc DEF TaskDone, LeaveTask
<1>15. CASE TaskSyncClock
  BY <1>15, ReturnPointPc DEF TaskSyncClock, InLoop, LeaveTask
<1>16. CASE TaskIdToken
  BY <1>16 DEF TaskIdToken, InLoop, ClaimClient
<1>17. CASE TaskBegin
  BY <1>17 DEF TaskBegin, InJWTLoop, InLoop
<1>18. CASE TaskEncode
  BY <1>18 DEF TaskEncode, InJWTLoop, InLoop
<1>19. CASE TaskSign
  BY <1>19 DEF TaskSign, InJWTLoop, InLoop
<1>20. CASE TaskExchange
  BY <1>20 DEF TaskExchange, InJWTLoop, InLoop, ClaimClient
<1>21. CASE TaskNet
  BY <1>21, ReturnPointPc DEF TaskNet, TaskError, LeaveTask
<1>22. CASE ConnectFail
  BY <1>22, ReturnPointPc DEF ConnectFail, AfterRequest
<1>23. CASE Connect
  BY <1>23 DEF Connect
<1>24. CASE NoReply
  BY <1>24, ReturnPointPc DEF NoReply, TaskError, AfterRequest
<1>25. CASE Rejected
  BY <1>25, ReturnPointPc DEF Rejected, TaskError, AfterRequest
<1>26. CASE Granted
  BY <1>26, ReturnPointPc DEF Granted, AfterRequest
<1>27. CASE ReturnReady
  BY <1>27 DEF ReturnReady, TaskError
<1>28. CASE Network
  BY <1>28 DEF Network
<1>29. CASE Expire
  BY <1>29 DEF Expire
<1>30. ASSUME NEW t \in Timers, Elapse(t) PROVE (pc = "await" /\ pc' # "await" => ~processing')
  BY <1>30 DEF Elapse
<1>31. CASE UNCHANGED vars
  BY <1>31 DEF vars
<1> QED
  BY <1>1, <1>2, <1>3, <1>4, <1>5, <1>6, <1>7, <1>8, <1>9, <1>10, <1>11, <1>12, <1>13,
     <1>14, <1>15, <1>16, <1>17, <1>18, <1>19, <1>20, <1>21, <1>22, <1>23, <1>24, <1>25,
     <1>26, <1>27, <1>28, <1>29, <1>30, <1>31 DEF Next, Sketch, Library, Environment,
     HandleToken, TokenTask, Request

\* However a request that was sent ends, the in-use flag is clear.
THEOREM RequestReleases == Spec => SentRequestReleases
<1>1. [Next]_vars => [pc = "await" /\ pc' # "await" => ~processing']_vars
  BY ReleasesNext
<1> QED
  BY <1>1, PTL DEF Spec, SentRequestReleases

-----------------------------------------------------------------------------
(* Requests and valid tokens *)

\* The token task runs only between its entry and its return, and no account call
\* starts in between.
TaskInv ==
    /\ pc \in {"app", "handle", "ready"} => ~taskRunning
    /\ pc \in {"init", "await"} /\ req \in AccountRequests => ~taskRunning

\* Wherever a grant can still come, the present token is not valid; a refresh asked
\* for before begin() waits with an unset expiry.
FreshInv ==
    /\ pc \in {"init", "await"} /\ req \in TokenRequests => expires # "valid"
    /\ pc = "task" /\ status # "ready" => expires # "valid"
    /\ pc = "taskNet" /\ ~ret => expires # "valid"
    /\ "rtoken" \in flags => account = None /\ expires = "unset"
    /\ account = None => pc = "app"
    /\ TaskInv

\* An assigned token is marked as such.
AssignedMarked ==
    flags \cap {"custom", "access", "id"} # {} => "anonymous" \in flags

\* FreshInv is inductive with the types.
LEMMA FreshNext ==
  TypeOK /\ FreshInv /\ [Next]_vars => FreshInv'
<1> SUFFICES ASSUME TypeOK, FreshInv, [Next]_vars PROVE FreshInv'
  OBVIOUS
<1>0. req \in TokenRequests \cup AccountRequests
  BY DEF TypeOK, ControlTypeOK
<1> USE DEF FreshInv, TaskInv, TokenRequests, AccountRequests
<1>1. ASSUME NEW a \in Accounts, Begin(a) PROVE FreshInv'
  BY <1>1, AccountsAssumption DEF Begin, ExpiryAfterBegin, RefreshNow, ClaimClient,
     appVars, tokVars
<1>2. CASE CallReady
  BY <1>2 DEF CallReady, IsAuthToken, appVars, tokVars
<1>3. CASE Reset
  BY <1>3 DEF Reset, appVars, tokVars
<1>4. ASSUME NEW k \in AppTokens, SetToken(k) PROVE FreshInv'
  <2>1. k.type \in {"id", "oauth2", "custom"}
    BY OptionsAssumption
  <2>2. account' = account /\ pc = "app"
    BY <1>4 DEF SetToken
  <2>3. "rtoken" \in flags' => account = None /\ expires' = "unset"
    BY <1>4, <2>1 DEF SetToken
  <2>4. /\ pc' = "app" \/ (pc' = "init" /\ expires' = "unset" /\ account # None)
        /\ pc' = "init" => req' \in TokenRequests
        /\ taskRunning' = taskRunning
    BY <1>4, <2>1 DEF SetToken, RefreshNow, ClaimClient
  <2> QED
    BY <2>2, <2>3, <2>4
<1>5. CASE ForceRefresh
  BY <1>5 DEF ForceRefresh, RefreshNow, ClaimClient, appVars, tokVars
<1>6. CASE UseSession
  BY <1>6 DEF UseSession, appVars, tokVars
<1>7. CASE HandleCustomToken
  BY <1>7, ReturnPointPc DEF HandleCustomToken, HandleReturn, ClaimClient, Expired, appVars, tokVars
<1>8. CASE HandleAssignedToken
  BY <1>8, ReturnPointPc DEF HandleAssignedToken, HandleReturn, appVars, tokVars
<1>9. CASE HandleExpiredIdToken
  BY <1>9, ReturnPointPc DEF HandleExpiredIdToken, HandleReturn, ClaimClient,
     appVars, tokVars
<1>10. CASE HandleNewIdToken
  BY <1>10, ReturnPointPc DEF HandleNewIdToken, HandleReturn, EnterTask, appVars,
     tokVars
<1>11. CASE HandleGrantRefresh
  BY <1>11, ReturnPointPc DEF HandleGrantRefresh, HandleReturn, ClaimClient, NeedsGrant,
     Expired, appVars, tokVars
<1>12. CASE HandleJWT
  BY <1>12, ReturnPointPc DEF HandleJWT, HandleReturn, EnterTask, NeedsGrant, Expired, appVars, tokVars
<1>13. CASE HandleOther
  BY <1>13, ReturnPointPc DEF HandleOther, appVars, tokVars
<1>14. CASE TaskDone
  BY <1>14, ReturnPointPc DEF TaskDone, LeaveTask, appVars, tokVars
<1>15. CASE TaskSyncClock
  BY <1>15, ReturnPointPc DEF TaskSyncClock, InLoop, LeaveTask, appVars, tokVars
<1>16. CASE TaskIdToken
  BY <1>16 DEF TaskIdToken, InLoop, ClaimClient, appVars, tokVars
<1>17. CASE TaskBegin
  BY <1>17 DEF TaskBegin, InJWTLoop, InLoop, appVars, tokVars
<1>18. CASE TaskEncode
  BY <1>18 DEF TaskEncode, InJWTLoop, InLoop, appVars, tokVars
<1>19. CASE TaskSign
  BY <1>19 DEF TaskSign, InJWTLoop, InLoop, appVars, tokVars
<1>20. CASE TaskExchange
  BY <1>20 DEF TaskExchange, InJWTLoop, InLoop, ClaimClient, appVars, tokVars
<1>21. CASE TaskNet
  BY <1>21, ReturnPointPc DEF TaskNet, TaskError, LeaveTask, appVars, tokVars
<1>22. CASE ConnectFail
  BY <1>22, <1>0, ReturnPointPc DEF ConnectFail, AfterRequest, appVars, tokVars
<1>23. CASE Connect
  BY <1>23 DEF Connect, appVars, tokVars
<1>24. CASE NoReply
  BY <1>24, <1>0, ReturnPointPc DEF NoReply, TaskError, AfterRequest, appVars, tokVars
<1>25. CASE Rejected
  BY <1>25, ReturnPointPc DEF Rejected, TaskError, AfterRequest, appVars, tokVars
<1>26. CASE Granted
  BY <1>26, ReturnPointPc DEF Granted, AfterRequest, appVars, tokVars
<1>27. CASE ReturnReady
  BY <1>27 DEF ReturnReady, TaskError, appVars, tokVars
<1>28. CASE Network
  BY <1>28 DEF Network, appVars, tokVars
<1>29. CASE Expire
  BY <1>29 DEF Expire, appVars, tokVars
<1>30. ASSUME NEW t \in Timers, Elapse(t) PROVE FreshInv'
  BY <1>30 DEF Elapse, appVars, tokVars
<1>31. CASE UNCHANGED vars
  BY <1>31 DEF vars, appVars, tokVars
<1> QED
  BY <1>1, <1>2, <1>3, <1>4, <1>5, <1>6, <1>7, <1>8, <1>9, <1>10, <1>11, <1>12, <1>13,
     <1>14, <1>15, <1>16, <1>17, <1>18, <1>19, <1>20, <1>21, <1>22, <1>23, <1>24, <1>25,
     <1>26, <1>27, <1>28, <1>29, <1>30, <1>31 DEF Next, Sketch, Library, Environment,
     HandleToken, TokenTask, Request

\* A request, or a place of the token task that can still start one, is reached only
\* with a token that is not valid (handleToken's expiry check).
THEOREM FreshCorrect == Spec => []FreshInv
<1>1. Init => FreshInv
  BY DEF Init, FreshInv, TaskInv, TokenRequests, AccountRequests
<1> QED
  BY <1>1, FreshNext, TypeCorrect, PTL DEF Spec

\* No token is requested while the present one is valid.
THEOREM NoneRequestedWhileValid == Spec => []OnlyExpiredRequested
<1>1. FreshInv => OnlyExpiredRequested
  BY DEF FreshInv, OnlyExpiredRequested
<1> QED
  BY <1>1, FreshCorrect, PTL

\* Tokens are assigned with the mark, and only reset() takes it away.
LEMMA MarkedNext == AssignedMarked /\ [Next]_vars => AssignedMarked'
<1> SUFFICES ASSUME AssignedMarked, [Next]_vars PROVE AssignedMarked'
  OBVIOUS
<1>1. ASSUME NEW a \in Accounts, Begin(a) PROVE AssignedMarked'
  BY <1>1 DEF Begin, AssignedMarked
<1>2. CASE CallReady
  BY <1>2 DEF CallReady, appVars, AssignedMarked
<1>3. CASE Reset
  BY <1>3 DEF Reset, AssignedMarked
<1>4. ASSUME NEW k \in AppTokens, SetToken(k) PROVE AssignedMarked'
  BY <1>4 DEF SetToken, AssignedMarked
<1>5. CASE ForceRefresh
  BY <1>5 DEF ForceRefresh, AssignedMarked
<1>6. CASE UseSession
  BY <1>6 DEF UseSession, appVars, AssignedMarked
<1>7. CASE HandleCustomToken
  BY <1>7 DEF HandleCustomToken, appVars, AssignedMarked
<1>8. CASE HandleAssignedToken
  BY <1>8 DEF HandleAssignedToken, appVars, AssignedMarked
<1>9. CASE HandleExpiredIdToken
  BY <1>9 DEF HandleExpiredIdToken, appVars, AssignedMarked
<1>10. CASE HandleNewIdToken
  BY <1>10 DEF HandleNewIdToken, appVars, AssignedMarked
<1>11. CASE HandleGrantRefresh
  BY <1>11 DEF HandleGrantRefresh, appVars, AssignedMarked
<1>12. CASE HandleJWT
  BY <1>12 DEF HandleJWT, appVars, AssignedMarked
<1>13. CASE HandleOther
  BY <1>13 DEF HandleOther, appVars, AssignedMarked
<1>14. CASE TaskDone
  BY <1>14 DEF TaskDone, appVars, AssignedMarked
<1>15. CASE TaskSyncClock
  BY <1>15 DEF TaskSyncClock, appVars, AssignedMarked
<1>16. CASE TaskIdToken
  BY <1>16 DEF TaskIdToken, AssignedMarked
<1>17. CASE TaskBegin
  BY <1>17 DEF TaskBegin, appVars, AssignedMarked
<1>18. CASE TaskEncode
  BY <1>18 DEF TaskEncode, appVars, AssignedMarked
<1>19. CASE TaskSign
  BY <1>19 DEF TaskSign, appVars, AssignedMarked
<1>20. CASE TaskExchange
  BY <1>20 DEF TaskExchange, appVars, AssignedMarked
<1>21. CASE TaskNet
  BY <1>21 DEF TaskNet, appVars, AssignedMarked
<1>22. CASE ConnectFail
  BY <1>22 DEF ConnectFail, appVars, AssignedMarked
<1>23. CASE Connect
  BY <1>23 DEF Connect, appVars, AssignedMarked
<1>24. CASE NoReply
  BY <1>24 DEF NoReply, appVars, AssignedMarked
<1>25. CASE Rejected
  BY <1>25 DEF Rejected, appVars, AssignedMarked
<1>26. CASE Granted
  BY <1>26 DEF Granted, AssignedMarked
<1>27. CASE ReturnReady
  BY <1>27 DEF ReturnReady, appVars, AssignedMarked
<1>28. CASE Network
  BY <1>28 DEF Network, appVars, AssignedMarked
<1>29. CASE Expire
  BY <1>29 DEF Expire, appVars, AssignedMarked
<1>30. ASSUME NEW t \in Timers, Elapse(t) PROVE AssignedMarked'
  BY <1>30 DEF Elapse, appVars, AssignedMarked
<1>31. CASE UNCHANGED vars
  BY <1>31 DEF vars, appVars, AssignedMarked
<1> QED
  BY <1>1, <1>2, <1>3, <1>4, <1>5, <1>6, <1>7, <1>8, <1>9, <1>10, <1>11, <1>12, <1>13,
     <1>14, <1>15, <1>16, <1>17, <1>18, <1>19, <1>20, <1>21, <1>22, <1>23, <1>24, <1>25,
     <1>26, <1>27, <1>28, <1>29, <1>30, <1>31 DEF Next, Sketch, Library, Environment,
     HandleToken, TokenTask, Request

\* An assigned token is marked for as long as it is in use.
THEOREM MarkedCorrect == Spec => []AssignedMarked
<1>1. Init => AssignedMarked
  BY DEF Init, AssignedMarked
<1> QED
  BY <1>1, MarkedNext, PTL DEF Spec

\* A step that does not lose an assigned token.
KeptStep ==
    /\ flags \cap {"id", "access"} # {} /\ auth = App /\ expires = "valid"
    /\ ~(auth' = App /\ expires' = "valid")
    => Expire \/ Reset \/ ForceRefresh \/ \E k \in AppTokens : SetToken(k)

\* Beside the calls that may, only a grant writes the token, and FreshInv leaves no
\* grant while it is valid.
LEMMA KeptNext ==
  FreshInv /\ AssignedMarked /\ [Next]_vars => KeptStep
<1> SUFFICES ASSUME FreshInv, AssignedMarked, [Next]_vars PROVE KeptStep
  OBVIOUS
<1>1. ASSUME NEW a \in Accounts, Begin(a) PROVE KeptStep
  <2> SUFFICES ASSUME flags \cap {"id", "access"} # {}, auth = App, expires = "valid"
               PROVE  auth' = App /\ expires' = "valid"
    BY DEF KeptStep
  <2>1. "anonymous" \in flags
    BY DEF AssignedMarked
  <2>2. expires' = "valid"
    BY <1>1, <2>1 DEF Begin, ExpiryAfterBegin
  <2>3. auth' = App
    BY <1>1, <2>1 DEF Begin, ServiceKinds
  <2> QED
    BY <2>2, <2>3
<1>2. CASE CallReady
  BY <1>2 DEF CallReady, IsAuthToken, tokVars, KeptStep
<1>3. CASE Reset
  BY <1>3 DEF Reset, tokVars, KeptStep
<1>4. ASSUME NEW k \in AppTokens, SetToken(k) PROVE KeptStep
  BY <1>4 DEF SetToken, RefreshNow, ClaimClient, tokVars, KeptStep
<1>5. CASE ForceRefresh
  BY <1>5 DEF ForceRefresh, RefreshNow, ClaimClient, tokVars, KeptStep
<1>6. CASE UseSession
  BY <1>6 DEF UseSession, tokVars, KeptStep
<1>7. CASE HandleCustomToken
  BY <1>7, ReturnPointPc DEF HandleCustomToken, HandleReturn, ClaimClient, tokVars, KeptStep
<1>8. CASE HandleAssignedToken
  BY <1>8, ReturnPointPc DEF HandleAssignedToken, HandleReturn, tokVars, KeptStep
<1>9. CASE HandleExpiredIdToken
  BY <1>9, ReturnPointPc DEF HandleExpiredIdToken, HandleReturn, ClaimClient, tokVars, KeptStep
<1>10. CASE HandleNewIdToken
  BY <1>10, ReturnPointPc DEF HandleNewIdToken, HandleReturn, EnterTask, tokVars, KeptStep
<1>11. CASE HandleGrantRefresh
  BY <1>11, ReturnPointPc DEF HandleGrantRefresh, HandleReturn, ClaimClient, tokVars, KeptStep
<1>12. CASE HandleJWT
  BY <1>12, ReturnPointPc DEF HandleJWT, HandleReturn, EnterTask, tokVars, KeptStep
<1>13. CASE HandleOther
  BY <1>13, ReturnPointPc DEF HandleOther, tokVars, KeptStep
<1>14. CASE TaskDone
  BY <1>14, ReturnPointPc DEF TaskDone, LeaveTask, tokVars, KeptStep
<1>15. CASE TaskSyncClock
  BY <1>15, ReturnPointPc DEF TaskSyncClock, InLoop, LeaveTask, tokVars, KeptStep
<1>16. CASE TaskIdToken
  BY <1>16 DEF TaskIdToken, InLoop, ClaimClient, tokVars, KeptStep
<1>17. CASE TaskBegin
  BY <1>17 DEF TaskBegin, InJWTLoop, InLoop, tokVars, KeptStep
<1>18. CASE TaskEncode
  BY <1>18 DEF TaskEncode, InJWTLoop, InLoop, tokVars, KeptStep
<1>19. CASE TaskSign
  BY <1>19 DEF TaskSign, InJWTLoop, InLoop, tokVars, KeptStep
<1>20. CASE TaskExchange
  BY <1>20 DEF TaskExchange, InJWTLoop, InLoop, ClaimClient, tokVars, KeptStep
<1>21. CASE TaskNet
  BY <1>21, ReturnPointPc DEF TaskNet, TaskError, LeaveTask, tokVars, KeptStep
<1>22. CASE ConnectFail
  BY <1>22, ReturnPointPc DEF ConnectFail, AfterRequest, tokVars, KeptStep
<1>23. CASE Connect
  BY <1>23 DEF Connect, tokVars, KeptStep
<1>24. CASE NoReply
  BY <1>24, ReturnPointPc DEF NoReply, TaskError, AfterRequest, tokVars, KeptStep
<1>25. CASE Rejected
  BY <1>25, ReturnPointPc DEF Rejected, TaskError, AfterRequest, tokVars, KeptStep
<1>26. CASE Granted
  BY <1>26, ReturnPointPc DEF Granted, AfterRequest, FreshInv, tokVars, KeptStep
<1>27. CASE ReturnReady
  BY <1>27 DEF ReturnReady, TaskError, tokVars, KeptStep
<1>28. CASE Network
  BY <1>28 DEF Network, tokVars, KeptStep
<1>29. CASE Expire
  BY <1>29 DEF Expire, tokVars, KeptStep
<1>30. ASSUME NEW t \in Timers, Elapse(t) PROVE KeptStep
  BY <1>30 DEF Elapse, tokVars, KeptStep
<1>31. CASE UNCHANGED vars
  BY <1>31 DEF vars, tokVars, KeptStep
<1> QED
  BY <1>1, <1>2, <1>3, <1>4, <1>5, <1>6, <1>7, <1>8, <1>9, <1>10, <1>11, <1>12, <1>13,
     <1>14, <1>15, <1>16, <1>17, <1>18, <1>19, <1>20, <1>21, <1>22, <1>23, <1>24, <1>25,
     <1>26, <1>27, <1>28, <1>29, <1>30, <1>31 DEF Next, Sketch, Library, Environment,
     HandleToken, TokenTask, Request

\* Neither begin(), ready() nor a request loses a token the sketch assigned before its
\* expiry.
THEOREM AssignedKept == Spec => AssignedTokenKept
<1>1. FreshInv /\ AssignedMarked /\ [Next]_vars
        => [KeptStep]_vars
  BY KeptNext
<1> QED
  BY <1>1, FreshCorrect, MarkedCorrect, PTL DEF Spec, AssignedTokenKept, KeptStep

-----------------------------------------------------------------------------
(* What ready() answers *)

\* The sketch hands over a token whenever it assigns one.
NoEmptyToken == \A k \in AppTokens : k.token # "none"

\* The status is ready only once a token is stored.
HasTokenInv ==
    /\ status = "ready" => auth # None
    /\ flags \cap {"custom", "access"} # {} => auth # None
    /\ "access" \in flags => type # "legacy"
    /\ pc = "handle" /\ type = "legacy" => auth # None

\* HasTokenInv is inductive.
LEMMA HasTokenNext ==
  ASSUME NoEmptyToken
  PROVE  HasTokenInv /\ [Next]_vars => HasTokenInv'
<1> SUFFICES ASSUME HasTokenInv, [Next]_vars PROVE HasTokenInv'
  OBVIOUS
<1>1. ASSUME NEW a \in Accounts, Begin(a) PROVE HasTokenInv'
  BY <1>1, AccountsAssumption DEF Begin, RefreshNow, ClaimClient, ServiceKinds, HasTokenInv,
     appVars, tokVars
<1>2. CASE CallReady
  BY <1>2 DEF CallReady, IsAuthToken, HasTokenInv, appVars, tokVars
<1>3. CASE Reset
  BY <1>3 DEF Reset, HasTokenInv, appVars, tokVars
<1>4. ASSUME NEW k \in AppTokens, SetToken(k) PROVE HasTokenInv'
  <2>1. k.token # "none" /\ k.type # "legacy"
    BY NoEmptyToken, OptionsAssumption DEF NoEmptyToken
  <2>2. auth' = App /\ type' = k.type
    BY <1>4, <2>1 DEF SetToken
  <2> QED
    BY <2>1, <2>2 DEF HasTokenInv, App, None
<1>5. CASE ForceRefresh
  BY <1>5 DEF ForceRefresh, RefreshNow, ClaimClient, HasTokenInv, appVars, tokVars
<1>6. CASE UseSession
  BY <1>6 DEF UseSession, HasTokenInv, appVars, tokVars
<1>7. CASE HandleCustomToken
  BY <1>7, ReturnPointPc DEF HandleCustomToken, HandleReturn, ClaimClient, HasTokenInv,
     appVars, tokVars
<1>8. CASE HandleAssignedToken
  BY <1>8, ReturnPointPc DEF HandleAssignedToken, HandleReturn, HasTokenInv, appVars,
     tokVars
<1>9. CASE HandleExpiredIdToken
  BY <1>9, ReturnPointPc DEF HandleExpiredIdToken, HandleReturn, ClaimClient, HasTokenInv,
     appVars, tokVars
<1>10. CASE HandleNewIdToken
  BY <1>10, ReturnPointPc DEF HandleNewIdToken, HandleReturn, EnterTask, HasTokenInv,
     appVars, tokVars
<1>11. CASE HandleGrantRefresh
  BY <1>11, ReturnPointPc DEF HandleGrantRefresh, HandleReturn, ClaimClient, HasTokenInv,
     appVars, tokVars
<1>12. CASE HandleJWT
  BY <1>12, ReturnPointPc DEF HandleJWT, HandleReturn, EnterTask, HasTokenInv, appVars,
     tokVars
<1>13. CASE HandleOther
  BY <1>13, ReturnPointPc DEF HandleOther, HasTokenInv, appVars, tokVars
<1>14. CASE TaskDone
  BY <1>14, ReturnPointPc DEF TaskDone, LeaveTask, HasTokenInv, appVars, tokVars
<1>15. CASE TaskSyncClock
  BY <1>15, ReturnPointPc DEF TaskSyncClock, InLoop, LeaveTask, HasTokenInv, appVars,
     tokVars
<1>16. CASE TaskIdToken
  BY <1>16 DEF TaskIdToken, InLoop, ClaimClient, HasTokenInv, appVars, tokVars
<1>17. CASE TaskBegin
  BY <1>17 DEF TaskBegin, InJWTLoop, InLoop, HasTokenInv, appVars, tokVars
<1>18. CASE TaskEncode
  BY <1>18 DEF TaskEncode, InJWTLoop, InLoop, HasTokenInv, appVars, tokVars
<1>19. CASE TaskSign
  BY <1>19 DEF TaskSign, InJWTLoop, InLoop, HasTokenInv, appVars, tokVars
<1>20. CASE TaskExchange
  BY <1>20 DEF TaskExchange, InJWTLoop, InLoop, ClaimClient, HasTokenInv, appVars, tokVars
<1>21. CASE TaskNet
  BY <1>21, ReturnPointPc DEF TaskNet, TaskError, LeaveTask, HasTokenInv, appVars, tokVars
<1>22. CASE ConnectFail
  BY <1>22, ReturnPointPc DEF ConnectFail, AfterRequest, HasTokenInv, appVars, tokVars
<1>23. CASE Connect
  BY <1>23 DEF Connect, HasTokenInv, appVars, tokVars
<1>24. CASE NoReply
  BY <1>24, ReturnPointPc DEF NoReply, TaskError, AfterRequest, HasTokenInv, appVars,
     tokVars
<1>25. CASE Rejected
  BY <1>25, ReturnPointPc DEF Rejected, TaskError, AfterRequest, HasTokenInv, appVars,
     tokVars
<1>26. CASE Granted
  BY <1>26, ReturnPointPc DEF Granted, AfterRequest, HasTokenInv, appVars, tokVars
<1>27. CASE ReturnReady
  BY <1>27 DEF ReturnReady, TaskError, HasTokenInv, appVars, tokVars
<1>28. CASE Network
  BY <1>28 DEF Network, HasTokenInv, appVars, tokVars
<1>29. CASE Expire
  BY <1>29 DEF Expire, HasTokenInv, appVars, tokVars
<1>30. ASSUME NEW t \in Timers, Elapse(t) PROVE HasTokenInv'
  BY <1>30 DEF Elapse, HasTokenInv, appVars, tokVars
<1>31. CASE UNCHANGED vars
  BY <1>31 DEF vars, HasTokenInv, appVars, tokVars
<1> QED
  BY <1>1, <1>2, <1>3, <1>4, <1>5, <1>6, <1>7, <1>8, <1>9, <1>10, <1>11, <1>12, <1>13,
     <1>14, <1>15, <1>16, <1>17, <1>18, <1>19, <1>20, <1>21, <1>22, <1>23, <1>24, <1>25,
     <1>26, <1>27, <1>28, <1>29, <1>30, <1>31 DEF Next, Sketch, Library, Environment,
     HandleToken, TokenTask, Request

\* If the sketch never assigns an empty token, ready() never answers TRUE without one.
THEOREM ReadyHasTokenCorrect ==
  ASSUME NoEmptyToken
  PROVE  Spec => []ReadyHasToken
<1>1. Init => HasTokenInv
  BY DEF Init, HasTokenInv
<1>2. HasTokenInv /\ [Next]_vars => HasTokenInv'
  BY NoEmptyToken, HasTokenNext
<1>3. HasTokenInv => ReadyHasToken
  BY DEF HasTokenInv, ReadyHasToken, AnswersReady
<1> QED
  BY <1>1, <1>2, <1>3, PTL DEF Spec

\* No service accounts, and a reset() before the credentials are changed.
UsersOnly ==
    /\ \A a \in Accounts : Kind[a] \notin ServiceKinds
    /\ "switch" \notin AppOps

\* Since the last reset() nothing was granted: that is so while no request has set
\* the status, which only a custom token that waits sets back.
NeverGranted ==
    /\ known = NoneKnown /\ status = "uninitialized"
    /\ ~({"anonymous", "custom"} \subseteq flags)

\* Whatever is stored was granted to the current credentials or assigned, and there
\* is no signed JWT.
OwnInv ==
    /\ auth \in {None, App, account}
    /\ refresh \in {None, App, account}
    /\ NeverGranted => auth \in {None, App} /\ refresh \in {None, App}
    /\ signer \in Signers /\ ~signer.signed

\* Setting the step does not sign a JWT.
LEMMA UnsignedStep ==
  ASSUME NEW sg \in Signers, NEW ok \in BOOLEAN, ~sg.signed
  PROVE  \A s \in ExchangeStep(sg, ok) : s \in Signers /\ ~s.signed
  BY DEF ExchangeStep, Signers

\* An assigned custom token that is waiting to be exchanged is marked.
CustomMarked == "custom" \in flags => "anonymous" \in flags

\* OwnInv is inductive with it.
LEMMA OwnNext ==
  ASSUME UsersOnly
  PROVE  TypeOK /\ CustomMarked /\ OwnInv /\ [Next]_vars => OwnInv'
<1> SUFFICES ASSUME TypeOK, CustomMarked, OwnInv, [Next]_vars PROVE OwnInv'
  OBVIOUS
<1>1. ASSUME NEW a \in Accounts, Begin(a) PROVE OwnInv'
  <2>1. Kind[a] \in {"user", "legacy", "bare"}
    BY UsersOnly, AccountsAssumption DEF UsersOnly, ServiceKinds
  <2>2. account' = a /\ refresh' = refresh /\ signer' = signer
    BY <1>1 DEF Begin
  <2>3. auth' \in {auth, a}
    BY <1>1 DEF Begin
  <2>4. auth \in {None, App, a} /\ refresh \in {None, App, a}
    BY <1>1, UsersOnly DEF Begin, UsersOnly, OwnInv, JustReset, NeverGranted
  <2>5. NeverGranted' => NeverGranted /\ auth' = auth
    <3>1. CASE Kind[a] = "user"
      <4>1. known'["user"] = a
        BY <1>1, <3>1 DEF Begin, CredentialsChanged, Family, ServiceKinds, TypeOK, AppTypeOK
      <4> QED
        BY <4>1, AccountsAssumption DEF NeverGranted, NoneKnown
    <3>2. CASE Kind[a] = "legacy"
      BY <1>1, <3>2 DEF Begin, RefreshNow, ClaimClient, CredentialsChanged, ServiceKinds,
         NeverGranted
    <3>3. CASE Kind[a] = "bare"
      BY <1>1, <3>3 DEF Begin, RefreshNow, ClaimClient, CredentialsChanged, ServiceKinds,
         NeverGranted
    <3> QED
      BY <2>1, <3>1, <3>2, <3>3
  <2> QED
    BY <2>2, <2>3, <2>4, <2>5 DEF OwnInv
<1>2. CASE CallReady
  BY <1>2 DEF CallReady, IsAuthToken, OwnInv, NeverGranted, appVars, tokVars
<1>3. CASE Reset
  BY <1>3 DEF Reset, OwnInv, NeverGranted, appVars, tokVars
<1>4. ASSUME NEW k \in AppTokens, SetToken(k) PROVE OwnInv'
  BY <1>4 DEF SetToken, RefreshNow, ClaimClient, Signers, OwnInv, NeverGranted, appVars, tokVars
<1>5. CASE ForceRefresh
  BY <1>5 DEF ForceRefresh, RefreshNow, ClaimClient, OwnInv, NeverGranted, appVars, tokVars
<1>6. CASE UseSession
  BY <1>6 DEF UseSession, OwnInv, NeverGranted, appVars, tokVars
<1>7. CASE HandleCustomToken
  <2>1. /\ {"anonymous", "custom"} \subseteq flags
        /\ UNCHANGED <<flags, auth, refresh, account, signer>>
    BY <1>7 DEF HandleCustomToken, CustomMarked, appVars
  <2> QED
    BY <2>1 DEF OwnInv, NeverGranted
<1>8. CASE HandleAssignedToken
  BY <1>8, ReturnPointPc DEF HandleAssignedToken, HandleReturn, OwnInv, NeverGranted, appVars, tokVars
<1>9. CASE HandleExpiredIdToken
  BY <1>9, ReturnPointPc DEF HandleExpiredIdToken, HandleReturn, ClaimClient, OwnInv, NeverGranted,
     appVars, tokVars
<1>10. CASE HandleNewIdToken
  BY <1>10, ReturnPointPc DEF HandleNewIdToken, HandleReturn, EnterTask, OwnInv, NeverGranted, appVars,
     tokVars
<1>11. CASE HandleGrantRefresh
  BY <1>11, ReturnPointPc DEF HandleGrantRefresh, HandleReturn, ClaimClient, OwnInv, NeverGranted,
     appVars, tokVars
<1>12. CASE HandleJWT
  BY <1>12, ReturnPointPc DEF HandleJWT, HandleReturn, EnterTask, OwnInv, NeverGranted, appVars, tokVars
<1>13. CASE HandleOther
  BY <1>13, ReturnPointPc DEF HandleOther, OwnInv, NeverGranted, appVars, tokVars
<1>14. CASE TaskDone
  BY <1>14, ReturnPointPc DEF TaskDone, LeaveTask, OwnInv, NeverGranted, appVars, tokVars
<1>15. CASE TaskSyncClock
  BY <1>15, ReturnPointPc DEF TaskSyncClock, InLoop, LeaveTask, OwnInv, NeverGranted, appVars, tokVars
<1>16. CASE TaskIdToken
  BY <1>16 DEF TaskIdToken, InLoop, ClaimClient, OwnInv, NeverGranted, appVars, tokVars
<1>17. CASE TaskBegin
  BY <1>17 DEF TaskBegin, InJWTLoop, InLoop, Signers, OwnInv, NeverGranted, appVars, tokVars
<1>18. CASE TaskEncode
  BY <1>18 DEF TaskEncode, OwnInv, NeverGranted, Signers, TypeOK, AppTypeOK, appVars
<1>19. CASE TaskSign
  BY <1>19, UsersOnly DEF TaskSign, InJWTLoop, InLoop, UsersOnly, CanSign, Signers, OwnInv, NeverGranted,
     appVars, tokVars
<1>20. CASE TaskExchange
  BY <1>20 DEF TaskExchange, InJWTLoop, InLoop, ClaimClient, OwnInv, NeverGranted, appVars, tokVars
<1>21. CASE TaskNet
  BY <1>21, ReturnPointPc DEF TaskNet, TaskError, LeaveTask, OwnInv, NeverGranted, appVars, tokVars
<1>22. CASE ConnectFail
  BY <1>22, UnsignedStep DEF ConnectFail, OwnInv, NeverGranted, appVars, tokVars
<1>23. CASE Connect
  BY <1>23 DEF Connect, OwnInv, NeverGranted, appVars, tokVars
<1>24. CASE NoReply
  BY <1>24, UnsignedStep DEF NoReply, TaskError, OwnInv, NeverGranted, appVars, tokVars
<1>25. CASE Rejected
  <2>1. ClearJWT \in Signers /\ ~ClearJWT.signed
    BY DEF OwnInv, NeverGranted, ClearJWT, Signers
  <2>2. \A st \in {"encode", ClearJWT.step} :
           /\ [ClearJWT EXCEPT !.step = st] \in Signers
           /\ ~[ClearJWT EXCEPT !.step = st].signed
    BY <2>1 DEF Signers
  <2>3. signer' \in Signers /\ ~signer'.signed
    BY <1>25, <2>1, <2>2, UnsignedStep DEF Rejected
  <2> QED
    BY <1>25, <2>3 DEF Rejected, TaskError, OwnInv, NeverGranted, appVars
<1>26. CASE Granted
  <2>1. ClearJWT \in Signers /\ ~ClearJWT.signed
    BY DEF OwnInv, NeverGranted, ClearJWT, Signers
  <2>2. /\ [ClearJWT EXCEPT !.step = "begin"] \in Signers
        /\ ~[ClearJWT EXCEPT !.step = "begin"].signed
    BY <2>1 DEF Signers
  <2>3. signer' \in Signers /\ ~signer'.signed
    BY <1>26, <2>2, UnsignedStep DEF Granted
  <2>4. Grantee \in {None, App, account}
    BY DEF Grantee, OwnInv, NeverGranted
  <2> QED
    BY <1>26, <2>3, <2>4 DEF Granted, OwnInv, NeverGranted
<1>27. CASE ReturnReady
  BY <1>27 DEF ReturnReady, TaskError, OwnInv, NeverGranted, appVars, tokVars
<1>28. CASE Network
  BY <1>28 DEF Network, OwnInv, NeverGranted, appVars, tokVars
<1>29. CASE Expire
  BY <1>29 DEF Expire, OwnInv, NeverGranted, appVars, tokVars
<1>30. ASSUME NEW t \in Timers, Elapse(t) PROVE OwnInv'
  BY <1>30 DEF Elapse, OwnInv, NeverGranted, appVars, tokVars
<1>31. CASE UNCHANGED vars
  BY <1>31 DEF vars, OwnInv, NeverGranted, appVars, tokVars
<1> QED
  BY <1>1, <1>2, <1>3, <1>4, <1>5, <1>6, <1>7, <1>8, <1>9, <1>10, <1>11, <1>12, <1>13,
     <1>14, <1>15, <1>16, <1>17, <1>18, <1>19, <1>20, <1>21, <1>22, <1>23, <1>24, <1>25,
     <1>26, <1>27, <1>28, <1>29, <1>30, <1>31 DEF Next, Sketch, Library, Environment,
     HandleToken, TokenTask, Request

\* With users and database secrets only, ready() never answers TRUE with a token that
\* belongs to other credentials than the ones begin() was last called with.
THEOREM ReadyIsOwnTokenCorrect ==
  ASSUME UsersOnly
  PROVE  Spec => []ReadyIsOwnToken
<1>1. Init => OwnInv
  BY TypeInit DEF Init, OwnInv, TypeOK, TokenTypeOK
<1>2. TypeOK /\ AssignedMarked /\ OwnInv /\ [Next]_vars => OwnInv'
  BY UsersOnly, OwnNext DEF AssignedMarked, CustomMarked
<1>3. OwnInv => ReadyIsOwnToken
  BY AccountsAssumption DEF OwnInv, ReadyIsOwnToken
<1> QED
  BY <1>1, <1>2, <1>3, TypeCorrect, MarkedCorrect, PTL DEF Spec

-----------------------------------------------------------------------------
(* The JWT *)

\* The token task does not leave its loop between encoding a JWT and signing it:
\* the clock is set, the status is not ready, and the credentials stay.
SignInv ==
    /\ pc \in {"task", "taskNet"} => taskRunning
    /\ signer.step = "sign" =>
         /\ pc = "task" /\ status # "ready" /\ type # "id" /\ ~NeedsClock
         /\ signer.jwt = account

\* SignInv is inductive with the types.
LEMMA SignNext ==
  TypeOK /\ SignInv /\ [Next]_vars => SignInv'
<1> SUFFICES ASSUME TypeOK, SignInv, [Next]_vars PROVE SignInv'
  OBVIOUS
<1> signer \in Signers
  BY DEF TypeOK, TokenTypeOK
<1>1. ASSUME NEW a \in Accounts, Begin(a) PROVE SignInv'
  BY <1>1, AccountsAssumption DEF Begin, RefreshNow, ClaimClient, ServiceKinds, SignInv,
     appVars, tokVars
<1>2. CASE CallReady
  BY <1>2 DEF CallReady, IsAuthToken, SignInv, appVars, tokVars
<1>3. CASE Reset
  BY <1>3 DEF Reset, Signers, SignInv, appVars, tokVars
<1>4. ASSUME NEW k \in AppTokens, SetToken(k) PROVE SignInv'
  BY <1>4 DEF SetToken, RefreshNow, ClaimClient, SignInv, appVars, tokVars
<1>5. CASE ForceRefresh
  BY <1>5 DEF ForceRefresh, RefreshNow, ClaimClient, SignInv, appVars, tokVars
<1>6. CASE UseSession
  BY <1>6 DEF UseSession, SignInv, appVars, tokVars
<1>7. CASE HandleCustomToken
  BY <1>7, ReturnPointPc DEF HandleCustomToken, HandleReturn, ClaimClient, SignInv,
     appVars, tokVars
<1>8. CASE HandleAssignedToken
  BY <1>8, ReturnPointPc DEF HandleAssignedToken, HandleReturn, SignInv, appVars,
     tokVars
<1>9. CASE HandleExpiredIdToken
  BY <1>9, ReturnPointPc DEF HandleExpiredIdToken, HandleReturn, ClaimClient, SignInv,
     appVars, tokVars
<1>10. CASE HandleNewIdToken
  BY <1>10, ReturnPointPc DEF HandleNewIdToken, HandleReturn, EnterTask, SignInv,
     appVars, tokVars
<1>11. CASE HandleGrantRefresh
  BY <1>11, ReturnPointPc DEF HandleGrantRefresh, HandleReturn, ClaimClient, SignInv,
     appVars, tokVars
<1>12. CASE HandleJWT
  BY <1>12, ReturnPointPc DEF HandleJWT, HandleReturn, EnterTask, SignInv, appVars,
     tokVars
<1>13. CASE HandleOther
  BY <1>13, ReturnPointPc DEF HandleOther, SignInv, appVars, tokVars
<1>14. CASE TaskDone
  BY <1>14, ReturnPointPc DEF TaskDone, LeaveTask, SignInv, appVars, tokVars
<1>15. CASE TaskSyncClock
  <2>1. signer.step # "sign" /\ signer' = signer /\ pc = "task"
    BY <1>15 DEF TaskSyncClock, InLoop, SignInv
  <2>2. (pc' = pc /\ taskRunning' = taskRunning) \/ pc' \notin {"task", "taskNet"}
    BY <1>15, ReturnPointPc DEF TaskSyncClock, LeaveTask
  <2> QED
    BY <2>1, <2>2 DEF SignInv
<1>16. CASE TaskIdToken
  BY <1>16 DEF TaskIdToken, InLoop, ClaimClient, NeedsClock, Signers, envVars, SignInv,
     appVars, tokVars
<1>17. CASE TaskBegin
  BY <1>17 DEF TaskBegin, InJWTLoop, InLoop, NeedsClock, Signers, envVars, SignInv,
     appVars, tokVars
<1>18. CASE TaskEncode
  BY <1>18 DEF TaskEncode, InJWTLoop, InLoop, NeedsClock, Signers, envVars, SignInv,
     appVars, tokVars
<1>19. CASE TaskSign
  BY <1>19 DEF TaskSign, InJWTLoop, InLoop, NeedsClock, Signers, envVars, SignInv,
     appVars, tokVars
<1>20. CASE TaskExchange
  BY <1>20 DEF TaskExchange, InJWTLoop, InLoop, ClaimClient, NeedsClock, Signers,
     envVars, SignInv, appVars, tokVars
<1>21. CASE TaskNet
  BY <1>21, ReturnPointPc DEF TaskNet, TaskError, LeaveTask, SignInv, appVars, tokVars
<1>22. CASE ConnectFail
  BY <1>22, ReturnPointPc DEF ConnectFail, AfterRequest, ExchangeStep, ClearJWT, Signers,
     NeedsClock, SignInv, appVars, tokVars
<1>23. CASE Connect
  BY <1>23 DEF Connect, SignInv, appVars, tokVars
<1>24. CASE NoReply
  BY <1>24, ReturnPointPc DEF NoReply, TaskError, AfterRequest, ExchangeStep, ClearJWT,
     Signers, NeedsClock, SignInv, appVars,
     tokVars
<1>25. CASE Rejected
  BY <1>25, ReturnPointPc DEF Rejected, TaskError, AfterRequest, ExchangeStep, ClearJWT,
     Signers, NeedsClock, SignInv, appVars,
     tokVars
<1>26. CASE Granted
  BY <1>26, ReturnPointPc DEF Granted, AfterRequest, ExchangeStep, ClearJWT, Signers,
     NeedsClock, SignInv, appVars, tokVars
<1>27. CASE ReturnReady
  BY <1>27 DEF ReturnReady, TaskError, SignInv, appVars, tokVars
<1>28. CASE Network
  BY <1>28 DEF Network, NeedsClock, envVars, SignInv, appVars, tokVars
<1>29. CASE Expire
  BY <1>29 DEF Expire, NeedsClock, envVars, SignInv, appVars, tokVars
<1>30. ASSUME NEW t \in Timers, Elapse(t) PROVE SignInv'
  BY <1>30 DEF Elapse, NeedsClock, envVars, SignInv, appVars, tokVars
<1>31. CASE UNCHANGED vars
  BY <1>31 DEF vars, NeedsClock, envVars, SignInv, appVars, tokVars
<1> QED
  BY <1>1, <1>2, <1>3, <1>4, <1>5, <1>6, <1>7, <1>8, <1>9, <1>10, <1>11, <1>12, <1>13,
     <1>14, <1>15, <1>16, <1>17, <1>18, <1>19, <1>20, <1>21, <1>22, <1>23, <1>24, <1>25,
     <1>26, <1>27, <1>28, <1>29, <1>30, <1>31 DEF Next, Sketch, Library, Environment,
     HandleToken, TokenTask, Request

\* Every JWT is signed for the credentials whose claims it carries, for every set of
\* credentials and keys.
THEOREM SignsOwnClaimsCorrect == Spec => []SignsOwnClaims
<1>1. Init => SignInv
  BY DEF Init, SignInv
<1>2. SignInv => SignsOwnClaims
  BY DEF SignInv, SignsOwnClaims
<1> QED
  BY <1>1, <1>2, SignNext, TypeCorrect, PTL DEF Spec

-----------------------------------------------------------------------------
(* The token manager implements TokenLease, step by step *)

\* After a step there is no request, or there is one because the lease is over.
LEMMA AskedOnce ==
  ASSUME TypeOK', FreshInv'
  PROVE  Asked' = {} \/ Lease!Start
<1>1. Grantee' \in Owners \cup {None}
  <2>1. /\ account' \in Accounts \cup {None} /\ signer.jwt' \in Accounts \cup {None}
        /\ auth' \in Owners \cup {None} /\ refresh' \in Owners \cup {None}
    BY DEF TypeOK, AppTypeOK, TokenTypeOK, Signers
  <2> QED
    BY <2>1 DEF Grantee, Owners
<1>2. CASE pc' \in {"init", "await"} /\ req' \in TokenRequests
  <2>1. Asked' = {Grantee'}
    BY <1>2 DEF Asked
  <2>2. expires' # "valid" /\ pc' # "app"
    BY <1>2 DEF FreshInv
  <2> QED
    BY <1>1, <2>1, <2>2 DEF Lease!Start
<1>3. CASE ~(pc' \in {"init", "await"} /\ req' \in TokenRequests)
  BY <1>3 DEF Asked
<1> QED
  BY <1>2, <1>3

\* A call of the sketch.
LEMMA CallStep ==
  ASSUME TypeOK', FreshInv', pc = "app"
  PROVE  Lease!Call
<1>1. Asked' = {} \/ Lease!Start
  BY AskedOnce
<1> QED
  BY <1>1 DEF Lease!Call

\* A step of the library outside of a request may start one, or return.
LEMMA LibraryStep ==
  ASSUME TypeOK', FreshInv', pc \notin {"app", "init", "await"}, UNCHANGED <<auth, expires>>
  PROVE  Lease!Next \/ UNCHANGED Lease!vars
<1>1. Asked = {}
  BY DEF Asked
<1>2. Asked' = {} \/ Lease!Start
  BY AskedOnce
<1>3. CASE Asked' = {} /\ pc' = "app"
  BY <1>1, <1>3 DEF Lease!Return, Lease!Next
<1>4. CASE Asked' = {} /\ pc' # "app"
  BY <1>1, <1>4 DEF Lease!vars
<1>5. CASE Lease!Start
  BY <1>1, <1>5 DEF Lease!Ask, Lease!Next
<1> QED
  BY <1>2, <1>3, <1>4, <1>5

\* A request that ends without a token.
LEMMA FailStep ==
  ASSUME pc \in {"init", "await"}, pc' \in {"taskNet", "ready", "app"},
         UNCHANGED <<auth, expires>>
  PROVE  Lease!Next \/ UNCHANGED Lease!vars
<1>1. Asked' = {}
  BY DEF Asked
<1>2. CASE Asked # {}
  BY <1>1, <1>2 DEF Lease!Fail, Lease!Next
<1>3. CASE Asked = {} /\ pc' = "app"
  BY <1>1, <1>3 DEF Lease!Return, Lease!Next
<1>4. CASE Asked = {} /\ pc' # "app"
  BY <1>1, <1>4 DEF Lease!vars
<1> QED
  BY <1>2, <1>3, <1>4

\* A step that leaves the request, and the credential it was started with, alone.
LEMMA AskedStays ==
  ASSUME UNCHANGED <<req, account, auth, refresh, type, flags, signer>>,
         (pc' \in {"init", "await"}) <=> (pc \in {"init", "await"})
  PROVE  Asked' = Asked
<1>1. Grantee' = Grantee
  BY DEF Grantee
<1> QED
  BY <1>1 DEF Asked

\* Every step is one of TokenLease's, or changes nothing there.
LEMMA LeaseStep ==
  TypeOK /\ TypeOK' /\ FreshInv /\ FreshInv' /\ [Next]_vars => [Lease!Next]_(Lease!vars)
<1> SUFFICES ASSUME TypeOK, TypeOK', FreshInv, FreshInv', [Next]_vars
             PROVE  Lease!Next \/ UNCHANGED Lease!vars
  OBVIOUS
<1>0. /\ auth \in Owners \cup {None} /\ expires \in {"unset", "valid", "past"}
      /\ pc = "app" => Asked = {}
  BY DEF TypeOK, TokenTypeOK, Asked
<1>s. ASSUME Lease!SignIn PROVE Lease!Next
  BY <1>s DEF Lease!Next
<1>1. ASSUME NEW a \in Accounts, Begin(a) PROVE Lease!SignIn
  <2>1. pc = "app" /\ auth' \in {a, auth} /\ expires' \in {"unset", expires}
    BY <1>1 DEF Begin, ExpiryAfterBegin
  <2> QED
    BY <2>1, CallStep DEF Lease!SignIn, Owners
<1>2. CASE CallReady
  <2>1. pc = "app" /\ UNCHANGED <<auth, expires>>
    BY <1>2 DEF CallReady, tokVars
  <2> QED
    BY <2>1, <1>s, CallStep DEF Lease!SignIn
<1>3. CASE Reset
  <2>1. pc = "app" /\ auth' = None /\ expires' = "unset"
    BY <1>3 DEF Reset
  <2> QED
    BY <2>1, CallStep DEF Lease!Assign, Lease!Next
<1>4. ASSUME NEW k \in AppTokens, SetToken(k) PROVE Lease!Assign
  <2>1. pc = "app" /\ auth' \in {App, None} /\ expires' \in {"unset", "valid"}
    BY <1>4, OptionsAssumption DEF SetToken
  <2> QED
    BY <2>1, CallStep DEF Lease!Assign
<1>5. CASE ForceRefresh
  <2>1. pc = "app" /\ auth' = auth /\ expires' = "unset"
    BY <1>5 DEF ForceRefresh
  <2> QED
    BY <2>1, <1>s, CallStep DEF Lease!SignIn
<1>6. CASE UseSession
  <2>1. pc = "app" /\ UNCHANGED <<auth, expires>>
    BY <1>6 DEF UseSession, tokVars
  <2> QED
    BY <2>1, <1>s, CallStep DEF Lease!SignIn
<1>7. CASE HandleCustomToken
  BY <1>7, LibraryStep DEF HandleCustomToken, tokVars
<1>8. CASE HandleAssignedToken
  BY <1>8, LibraryStep DEF HandleAssignedToken, tokVars
<1>9. CASE HandleExpiredIdToken
  BY <1>9, LibraryStep DEF HandleExpiredIdToken, tokVars
<1>10. CASE HandleNewIdToken
  BY <1>10, LibraryStep DEF HandleNewIdToken, tokVars
<1>11. CASE HandleGrantRefresh
  BY <1>11, LibraryStep DEF HandleGrantRefresh, tokVars
<1>12. CASE HandleJWT
  BY <1>12, LibraryStep DEF HandleJWT, tokVars
<1>13. CASE HandleOther
  BY <1>13, LibraryStep DEF HandleOther, tokVars
<1>14. CASE TaskDone
  BY <1>14, LibraryStep DEF TaskDone, tokVars
<1>15. CASE TaskSyncClock
  BY <1>15, LibraryStep DEF TaskSyncClock, tokVars, InLoop
<1>16. CASE TaskIdToken
  BY <1>16, LibraryStep DEF TaskIdToken, tokVars, InLoop
<1>17. CASE TaskBegin
  BY <1>17, LibraryStep DEF TaskBegin, tokVars, InJWTLoop, InLoop
<1>18. CASE TaskEncode
  BY <1>18, LibraryStep DEF TaskEncode, tokVars, InJWTLoop, InLoop
<1>19. CASE TaskSign
  BY <1>19, LibraryStep DEF TaskSign, tokVars, InJWTLoop, InLoop
<1>20. CASE TaskExchange
  BY <1>20, LibraryStep DEF TaskExchange, tokVars, InJWTLoop, InLoop
<1>21. CASE TaskNet
  BY <1>21, LibraryStep DEF TaskNet, tokVars
<1>22. CASE ConnectFail
  BY <1>22, FailStep, ReturnPointPc DEF ConnectFail, AfterRequest, tokVars
<1>23. CASE Connect
  <2>1. Asked' = Asked
    BY <1>23, AskedStays DEF Connect, appVars, tokVars
  <2> QED
    BY <1>23, <2>1 DEF Connect, tokVars, Lease!vars
<1>24. CASE NoReply
  BY <1>24, FailStep, ReturnPointPc DEF NoReply, AfterRequest
<1>25. CASE Rejected
  BY <1>25, FailStep, ReturnPointPc DEF Rejected, AfterRequest
<1>26. CASE Granted
  <2>1. Asked = {Grantee} /\ Grantee \in Owners
    BY <1>26, GranteeType DEF Granted, Asked
  <2>2. Asked' = {} /\ auth' = Grantee /\ expires' = "valid"
    BY <1>26, ReturnPointPc DEF Granted, AfterRequest, Asked
  <2> QED
    BY <2>1, <2>2 DEF Lease!Grant, Lease!Next
<1>27. CASE ReturnReady
  BY <1>27, LibraryStep DEF ReturnReady
<1>28. CASE Network
  <2>1. Asked' = Asked
    BY <1>28, AskedStays DEF Network, appVars, tokVars
  <2> QED
    BY <1>28, <2>1 DEF Network, tokVars, Lease!vars
<1>29. CASE Expire
  <2>1. Asked' = Asked
    BY <1>29, AskedStays DEF Expire, appVars
  <2> QED
    BY <1>29, <2>1 DEF Expire, Lease!Expire, Lease!Next
<1>30. ASSUME NEW t \in Timers, Elapse(t) PROVE UNCHANGED Lease!vars
  <2>1. Asked' = Asked
    BY <1>30, AskedStays DEF Elapse, appVars, tokVars
  <2> QED
    BY <1>30, <2>1 DEF Elapse, tokVars, Lease!vars
<1>31. CASE UNCHANGED vars
  <2>1. Asked' = Asked
    BY <1>31, AskedStays DEF vars, appVars, tokVars
  <2> QED
    BY <1>31, <2>1 DEF vars, tokVars, Lease!vars
<1> QED
  BY <1>s, <1>1, <1>2, <1>3, <1>4, <1>5, <1>6, <1>7, <1>8, <1>9, <1>10, <1>11, <1>12, <1>13,
     <1>14, <1>15, <1>16, <1>17, <1>18, <1>19, <1>20, <1>21, <1>22, <1>23, <1>24, <1>25,
     <1>26, <1>27, <1>28, <1>29, <1>30, <1>31 DEF Next, Sketch, Library, Environment,
     HandleToken, TokenTask, Request, Lease!Next

\* The token manager implements TokenLease, for all credentials, assigned tokens, calls,
\* answers and outages: while a call of the library runs, only the answer to a request
\* replaces the token, by one of the owner it was asked for, and one is asked for only
\* when the lease is over.
THEOREM LeaseImplemented == Spec => ImplementsLease
<1>1. Init => Lease!Init
  BY DEF Init, Lease!Init, Asked
<1> QED
  BY <1>1, LeaseStep, TypeCorrect, FreshCorrect, PTL DEF Spec, ImplementsLease, Lease!Spec

=============================================================================
