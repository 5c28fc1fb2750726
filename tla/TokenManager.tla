--------------------------- MODULE TokenManager ---------------------------
(***************************************************************************)
(* The authentication token state machine of core/FirebaseCore.cpp and of  *)
(* the calls in Firebase.cpp that drive it: begin, ready, reset,           *)
(* refreshToken and setIdToken / setAccessToken / setCustomToken.          *)
(*                                                                         *)
(* One thread runs the code (the sketch's loop).  A call is cut into steps *)
(* at the points where it waits: the head of tokenProcessingTask's loop,   *)
(* the network check of initClient, the server's answer, and the network   *)
(* check made before the call returns.  Between two steps the network may  *)
(* go down or up, a timer may elapse, the granted token may expire.        *)
(*                                                                         *)
(* Data is abstracted to what the properties tell apart: a token, a        *)
(* refresh token and a JWT are the identity they were issued to; the       *)
(* millis() comparisons are one Boolean per timer; the expiry time is      *)
(* unset (0), valid, or past (inside the pre-refresh window or beyond).    *)
(***************************************************************************)
EXTENDS Naturals, FiniteSets

CONSTANTS
    Accounts,     \* the credentials a sketch may hand to begin()
    Kind,         \* Kind[a]: "user", "oauth2", "custom", "legacy" or "bare"
    BadKeys,      \* service accounts whose private key cannot sign
    AppTokens,    \* tokens the sketch assigns itself: records, see SetToken
    AppOps,       \* subset of {"rebegin", "switch", "refresh", "reset"}
    Replies,      \* what a server may answer: subset of {"ok", "error", "none"}
    Outages,      \* whether the network can go down
    HasCallback   \* whether config.token_status_callback is assigned

None == "none"
App  == "app"             \* the owner of a token assigned by setXxxToken
Owners == Accounts \cup {App}

ASSUME AccountsAssumption ==
    /\ None \notin Accounts /\ App \notin Accounts
    /\ Kind \in [Accounts -> {"user", "oauth2", "custom", "legacy", "bare"}]
    /\ BadKeys \subseteq Accounts

ASSUME OptionsAssumption ==
    /\ AppTokens \subseteq [type : {"id", "oauth2", "custom"},
                            token : {"none", "jwt", "plain"},
                            expires : {"unset", "valid"}, refresh : BOOLEAN]
    /\ Outages \in BOOLEAN /\ HasCallback \in BOOLEAN

VARIABLES
    \* FIREBASE_CLASS and FirebaseCore: what begin() stored
    account,      \* the credentials in config and auth, None before begin()
    hasAuth,      \* Core.auth is not null
    known,        \* the credential checksums of checkAuthTypeChanged
    flags,        \* those of "custom", "access", "id" (...CustomSet), "anonymous",
                  \* "signup" and "rtoken" (fb_rtoken_requested) that are set
    \* config->signer.tokens and internal
    status, type, expires,
    auth,         \* internal.auth_token: its owner
    refresh,      \* internal.refresh_token: its owner
    signer,       \* config->signer: step, the JWT's issuer, signed
    processing,   \* internal.fb_processing
    taskRunning,  \* config->signer.tokenTaskRunning
    open,         \* the timers whose interval has elapsed, or that are set to 0
    \* control
    pc,           \* where the thread is; "app" is the sketch's own code
    caller,       \* the call handleToken returns to
    req,          \* the request initClient was called for
    ret,          \* tokenProcessingTask's local of that name
    \* environment
    netUp, clockSet,
    sessOpen      \* a FirebaseData session is connected

appVars  == <<account, hasAuth, known, flags>>
tokVars  == <<status, type, expires, auth, refresh>>
envVars  == <<netUp, clockSet, sessOpen>>
vars == <<appVars, tokVars, signer, processing, taskRunning, open,
          pc, caller, req, ret, envVars>>

Statuses == {"uninitialized", "on_initialize", "on_signing", "on_request",
             "on_refresh", "ready", "error"}
Types    == {"undefined", "legacy", "id", "custom", "oauth2"}
Timers   == {"request", "refresh", "notify", "begin"}
TokenRequests   == {"idToken", "refresh", "exchange", "custom", "grantRefresh"}
AccountRequests == {"signUp", "delete", "deleteOther", "email"}
ServiceKinds == {"oauth2", "custom"}

Flags    == {"custom", "access", "id", "anonymous", "signup", "rtoken"}
Pcs      == {"app", "handle", "task", "init", "await", "taskNet", "ready"}
Signers  == [step : {"begin", "encode", "sign", "exchange"},
             jwt : Accounts \cup {None}, signed : BOOLEAN]

AppTypeOK ==
    /\ account \in Accounts \cup {None} /\ hasAuth \in BOOLEAN
    /\ known \in [{"user", "service"} -> Accounts \cup {None}]
    /\ flags \subseteq Flags

TokenTypeOK ==
    /\ status \in Statuses /\ type \in Types
    /\ expires \in {"unset", "valid", "past"}
    /\ auth \in Owners \cup {None} /\ refresh \in Owners \cup {None}
    /\ signer \in Signers

ControlTypeOK ==
    /\ processing \in BOOLEAN /\ taskRunning \in BOOLEAN /\ ret \in BOOLEAN
    /\ open \subseteq Timers /\ pc \in Pcs
    /\ caller \in {"begin", "ready", "app"}
    /\ req \in TokenRequests \cup AccountRequests
    /\ netUp \in BOOLEAN /\ clockSet \in BOOLEAN /\ sessOpen \in BOOLEAN

TypeOK == AppTypeOK /\ TokenTypeOK /\ ControlTypeOK

NoneKnown == [f \in {"user", "service"} |-> None]

Init ==
    /\ account = None /\ hasAuth = FALSE /\ flags = {}
    /\ known = NoneKnown
    /\ status = "uninitialized" /\ type = "undefined" /\ expires = "unset"
    /\ auth = None /\ refresh = None
    /\ signer = [step |-> "begin", jwt |-> None, signed |-> FALSE]
    /\ processing = FALSE /\ taskRunning = FALSE /\ ret = FALSE
    /\ open = Timers \ {"refresh"}
    /\ pc = "app" /\ caller = "app" /\ req = "idToken"
    /\ netUp \in BOOLEAN /\ (~Outages => netUp)
    /\ clockSet \in BOOLEAN /\ sessOpen = FALSE

-----------------------------------------------------------------------------
(* Helpers *)

\* Mutant: the expiry time is not looked at.
ExpiredAlways == hasAuth /\ type # "legacy"

\* isExpired: a legacy token never expires, an unset expiry counts as expired.
Expired == hasAuth /\ type # "legacy" /\ expires # "valid"

\* isAuthToken(oauth)
IsAuthToken(oauth) ==
    hasAuth /\ (type \in {"id", "custom"} \/ (oauth /\ type = "oauth2"))

\* The guard of getIdToken, requestTokens and refreshToken.
Busy == status \in {"on_request", "on_refresh"} \/ processing

\* refreshToken's second guard: a legacy token is set, or no token at all.
NothingToRefresh(a, r) ==
    \/ a \in Accounts /\ Kind[a] = "legacy"
    \/ a = None /\ r = None

\* fb_last_jwt_generation_error_cb_millis = 0, then sendTokenStatusCB().
Notified(o) == IF HasCallback THEN o \ {"notify"} ELSE o \cup {"notify"}

\* sendTokenStatusCB() alone.
Reported == IF HasCallback THEN open \ {"notify"} ELSE open

\* Where handleToken returns to.
ReturnPoint == IF caller = "ready" THEN "ready" ELSE "app"

\* Mutant: the in-use flag is not cleared.
TaskErrorKeepsFlag(o) ==
    status' = "error" /\ open' = Notified(o) /\ UNCHANGED processing

\* setTokenError / handleTaskError for a connection or response error: the
\* TCP client is stopped and the in-use flag is cleared.
TaskError(o) ==
    /\ status' = "error" /\ processing' = FALSE
    /\ open' = Notified(o)

\* initClient, first half: claim the TCP client and set the token status.
ClaimClient(kind, st, o) ==
    /\ status' = st /\ processing' = TRUE
    /\ open' = Notified(o) \ {"refresh"}
    /\ req' = kind /\ pc' = "init"

\* Mutant: the answer's expiry is stored as the token.
GranteeIsExpiry == expires

\* Whom the credential carried by the current request was issued to; None if
\* the request carries an empty one.
Grantee ==
    CASE req = "idToken"  -> IF account \in Accounts /\ Kind[account] = "user"
                             THEN account ELSE None
      [] req = "refresh"  -> refresh
      [] type = "custom" /\ "custom" \in flags      -> auth
      [] req = "grantRefresh" /\ type = "oauth2"    -> refresh
      [] OTHER            -> IF signer.signed THEN signer.jwt ELSE None

CanSign == /\ account \in Accounts \ BadKeys
           /\ Kind[account] \in ServiceKinds

-----------------------------------------------------------------------------
(* The sketch's calls *)

\* requestTokens(true) or Core.refreshToken(), called outside of handleToken by
\* refreshToken() and by begin(); st, ty and au are the values after the caller.
RefreshNow(st, ty, au, rf, o) ==
    /\ caller' = "app"
    /\ IF \/ st \in {"on_request", "on_refresh"} \/ processing
          \/ ty # "oauth2" /\ NothingToRefresh(au, rf)
       THEN /\ status' = st /\ open' = o /\ pc' = "app"
            /\ UNCHANGED <<processing, req>>
       ELSE ClaimClient(IF ty = "oauth2" THEN "grantRefresh" ELSE "refresh",
                        "on_refresh", o)

\* reset() was called, and nothing has been requested or assigned since.
JustReset == known = NoneKnown /\ status = "uninitialized" /\ "anonymous" \notin flags

Family(a) == IF Kind[a] \in ServiceKinds THEN "service" ELSE "user"

\* checkAuthTypeChanged: the checksums differ from the stored ones.
CredentialsChanged(a) ==
    (Kind[a] \in ServiceKinds \/ Kind[a] = "user") /\ known[Family(a)] # a

\* Mutant: the flags of assigned tokens are not consulted.
ExpiryAfterBeginAnyToken(a) ==
    IF CredentialsChanged(a) \/ flags \cap {"anonymous", "signup"} = {}
    THEN "unset" ELSE expires

\* init unsets the expiry unless a token was assigned or a user signed up;
\* checkAuthTypeChanged unsets it for changed credentials, and begin() puts back
\* the one of an assigned id or access token.
ExpiryAfterBegin(a) ==
    IF \/ CredentialsChanged(a) /\ flags \cap {"access", "id"} = {}
       \/ flags \cap {"anonymous", "signup"} = {}
    THEN "unset" ELSE expires

\* begin(config, auth): init, checkAuthTypeChanged, then the requested refresh
\* or handleToken.  The flags of assigned tokens survive the check.
Begin(a) ==
    LET service == Kind[a] \in ServiceKinds
        newType == CASE service -> Kind[a]
                     [] ~service /\ (Kind[a] = "user" \/ "anonymous" \in flags) -> "id"
                     [] Kind[a] = "legacy" /\ "anonymous" \notin flags -> "legacy"
                     [] OTHER -> type
        changed == CredentialsChanged(a)
        st      == CASE changed -> "uninitialized"
                     [] ~changed /\ newType = "legacy" -> "ready"
                     [] OTHER -> status
        ty      == IF flags \cap {"rtoken", "access"} # {} THEN type ELSE newType
        au      == IF newType = "legacy" THEN a ELSE auth
        o       == open \cup {"request"}
    IN
    /\ pc = "app"
    /\ account = None \/ "rebegin" \in AppOps \/ "signup" \in flags
    /\ account \in {None, a} \/ "switch" \in AppOps \/ JustReset
    /\ Kind[a] = "bare" => "anonymous" \in flags
    /\ account' = a /\ hasAuth' = TRUE
    /\ known' = IF changed THEN [known EXCEPT ![Family(a)] = a] ELSE known
    /\ expires' = ExpiryAfterBegin(a)
    /\ type' = ty /\ auth' = au
    /\ flags' = flags \ {"rtoken", "signup"}
    /\ IF "rtoken" \in flags
       THEN RefreshNow(st, ty, au, refresh, o)
       ELSE /\ status' = st /\ open' = o
            /\ pc' = "handle" /\ caller' = "begin"
            /\ UNCHANGED <<processing, req>>
    /\ UNCHANGED <<refresh, signer, taskRunning, ret, envVars>>

\* ready(): close the sessions if the token expired, then tokenReady().
CallReady ==
    /\ pc = "app" /\ account # None
    /\ sessOpen' = (sessOpen /\ ~Expired)
    /\ caller' = "ready"
    /\ pc' = IF IsAuthToken(TRUE) /\ Expired THEN "handle" ELSE "ready"
    /\ UNCHANGED <<appVars, tokVars, signer, processing, taskRunning, open,
                   req, ret, netUp, clockSet>>

\* What reset(config) does to the timers.
ResetTimers == open \cup {"request", "notify"}

\* Mutant: the token status is not reset.
ResetKeepsStatus ==
    /\ pc = "app" /\ "reset" \in AppOps
    /\ known' = NoneKnown
    /\ auth' = None /\ refresh' = None /\ expires' = "unset"
    /\ flags' = flags \cap {"signup"} /\ open' = ResetTimers
    /\ UNCHANGED <<account, hasAuth, status, type, signer, processing, taskRunning,
                   pc, caller, req, ret, envVars>>

\* Mutant: the refresh token is not cleared.
ResetKeepsRefresh ==
    /\ pc = "app" /\ "reset" \in AppOps
    /\ known' = NoneKnown
    /\ auth' = None /\ UNCHANGED refresh /\ expires' = "unset"
    /\ status' = "uninitialized" /\ flags' = flags \cap {"signup"}
    /\ open' = ResetTimers
    /\ UNCHANGED <<account, hasAuth, type, signer, processing, taskRunning,
                   pc, caller, req, ret, envVars>>

\* reset(config): forget the sign-in.
Reset ==
    /\ pc = "app" /\ "reset" \in AppOps
    /\ known' = NoneKnown
    /\ auth' = None /\ refresh' = None /\ expires' = "unset"
    /\ status' = "uninitialized" /\ flags' = flags \cap {"signup"}
    /\ open' = ResetTimers
    /\ UNCHANGED <<account, hasAuth, type, signer, processing, taskRunning,
                   pc, caller, req, ret, envVars>>

\* mSetAuthToken, for setIdToken, setAccessToken and setCustomToken: reset, then
\* store the token k.  A custom token that is not a JWT is a refresh token.
SetToken(k) ==
    LET asRefresh  == k.type = "custom" /\ k.token = "plain"
        rf  == IF k.refresh \/ asRefresh THEN App ELSE None
        now == rf = App /\ (asRefresh \/ k.token = "none")
        au  == IF k.token = "none" THEN None ELSE App
        set == CASE k.type = "id"     -> {"id"}
                 [] k.type = "oauth2" -> {"access"}
                 [] k.type = "custom" -> IF now THEN {} ELSE {"custom"}
    IN
    /\ pc = "app"
    /\ au # None \/ rf # None
    /\ known' = NoneKnown
    /\ auth' = au /\ refresh' = rf /\ type' = k.type
    /\ signer' = [signer EXCEPT !.step = "begin"]
    /\ expires' = IF now THEN "unset" ELSE k.expires
    /\ flags' = {"anonymous"} \cup set \cup (flags \cap {"signup"})
                  \cup (IF now /\ account = None THEN {"rtoken"} ELSE {})
    /\ IF now /\ account # None
       THEN RefreshNow("ready", k.type, au, rf, ResetTimers)
       ELSE /\ status' = "ready" /\ open' = ResetTimers
            /\ UNCHANGED <<processing, pc, caller, req>>
    /\ UNCHANGED <<account, hasAuth, taskRunning, ret, envVars>>

\* refreshToken(config): expire the token now and refresh it.
ForceRefresh ==
    /\ pc = "app" /\ "refresh" \in AppOps /\ account # None
    /\ expires' = "unset" /\ flags' = flags \ {"rtoken"}
    /\ RefreshNow(status, type, auth, refresh, open \cup {"request"})
    /\ UNCHANGED <<account, hasAuth, known, type, auth, refresh, signer,
                   taskRunning, ret, envVars>>

\* A FirebaseData request: tokenReady() passed and tcpSend() connected.
UseSession ==
    /\ pc = "app" /\ status = "ready" /\ ~Expired /\ netUp /\ account # None
    /\ sessOpen' = ~sessOpen
    /\ UNCHANGED <<appVars, tokVars, signer, processing, taskRunning, open,
                   pc, caller, req, ret, netUp, clockSet>>

-----------------------------------------------------------------------------
(* handleToken: one action per branch.  Each returns to ReturnPoint, starts  *)
(* a request, or enters tokenProcessingTask.                                 *)

HandleReturn ==
    /\ pc' = ReturnPoint
    /\ UNCHANGED <<processing, req, taskRunning>>

\* customTokenCustomSet and expired: exchange the assigned custom token.
HandleCustomToken ==
    /\ pc = "handle" /\ hasAuth /\ "custom" \in flags /\ Expired
    /\ type' = "custom"
    /\ IF "request" \in open /\ ~processing
       THEN /\ ClaimClient("custom", "on_request", open \ {"request"})
            /\ UNCHANGED taskRunning
       ELSE /\ status' = "uninitialized"
            /\ open' = open \ {"request"}
            /\ HandleReturn
    /\ UNCHANGED <<appVars, expires, auth, refresh, signer, caller, ret, envVars>>

\* A custom or an access token was assigned and is not expired.
HandleAssignedToken ==
    /\ pc = "handle" /\ hasAuth /\ flags \cap {"custom", "access"} # {} /\ ~Expired
    /\ status' = "ready"
    /\ HandleReturn
    /\ UNCHANGED <<appVars, type, expires, auth, refresh, signer, open,
                   caller, ret, envVars>>

\* The granted id token is past its expiry: refresh it, no more often than the
\* two timers allow, unless it was assigned without anything to renew it.
HandleExpiredIdToken ==
    LET cannot == /\ {"id", "anonymous"} \subseteq flags /\ refresh = None
                  /\ Kind[account] # "user"
    IN
    /\ pc = "handle" /\ "custom" \notin flags
    /\ IsAuthToken(FALSE) /\ expires = "past"
    /\ IF /\ "request" \in open /\ ~cannot /\ ~Busy /\ "refresh" \in open
          /\ ~NothingToRefresh(auth, refresh)
       THEN /\ ClaimClient("refresh", "on_refresh", open \ {"request"})
            /\ UNCHANGED taskRunning
       ELSE /\ open' = open \ {"request"}
            /\ UNCHANGED status
            /\ HandleReturn
    /\ UNCHANGED <<appVars, type, expires, auth, refresh, signer, caller, ret, envVars>>

\* tokenProcessingTask's entry: every session must be closed first.
EnterTask ==
    /\ taskRunning' = (taskRunning \/ ~sessOpen)
    /\ pc' = IF sessOpen \/ taskRunning THEN ReturnPoint ELSE "task"

\* A new sign-in with email and password.
HandleNewIdToken ==
    /\ pc = "handle" /\ hasAuth /\ "custom" \notin flags
    /\ type = "id" /\ expires = "unset"
    /\ open' = open \ {"request"}
    /\ IF "request" \in open THEN EnterTask /\ UNCHANGED <<processing, req>>
                       ELSE HandleReturn
    /\ UNCHANGED <<appVars, tokVars, signer, caller, ret, envVars>>

\* The remaining expired OAuth2 and custom tokens.
NeedsGrant == /\ hasAuth /\ "custom" \notin flags
              /\ \/ type = "oauth2" /\ Expired
                 \/ type = "custom" /\ expires = "unset"

\* A refresh token is present: request with it.
HandleGrantRefresh ==
    /\ pc = "handle" /\ NeedsGrant /\ refresh # None
    /\ IF Busy
       THEN HandleReturn /\ UNCHANGED <<status, open>>
       ELSE ClaimClient("grantRefresh", "on_refresh", open) /\ UNCHANGED taskRunning
    /\ UNCHANGED <<appVars, type, expires, auth, refresh, signer, caller, ret, envVars>>

\* No refresh token: generate a signed JWT in tokenProcessingTask.
HandleJWT ==
    LET first == signer.step = "begin" /\ status # "on_initialize" IN
    /\ pc = "handle" /\ NeedsGrant /\ refresh = None
    /\ IF taskRunning THEN HandleReturn /\ UNCHANGED <<status, open>>
       ELSE /\ status' = IF first THEN "on_initialize" ELSE status
            /\ open' = IF first THEN Notified(open) ELSE open
            /\ EnterTask
            /\ UNCHANGED <<processing, req>>
    /\ UNCHANGED <<appVars, type, expires, auth, refresh, signer, caller, ret, envVars>>

\* A legacy token (setTokenError(0)), missing credentials, or nothing to do.
HandleOther ==
    /\ pc = "handle"
    /\ ~(hasAuth /\ "custom" \in flags) /\ ~(hasAuth /\ "access" \in flags /\ ~Expired)
    /\ ~(IsAuthToken(TRUE) /\ Expired)
    /\ status' = CASE type = "legacy"    -> "ready"
                   [] type = "undefined" -> "error"
                   [] OTHER              -> status
    /\ processing' = (processing /\ type \notin {"legacy", "undefined"})
    /\ open' = IF type = "undefined" THEN Reported ELSE open
    /\ pc' = ReturnPoint
    /\ UNCHANGED <<appVars, type, expires, auth, refresh, signer, taskRunning,
                   caller, req, ret, envVars>>

-----------------------------------------------------------------------------
(* tokenProcessingTask: while (!ret && status != ready)                      *)

LeaveTask == taskRunning' = FALSE /\ pc' = ReturnPoint

InLoop == pc = "task" /\ status # "ready"

TaskDone ==
    /\ pc = "task" /\ status = "ready"
    /\ LeaveTask
    /\ UNCHANGED <<appVars, tokVars, signer, processing, open, caller, req, ret, envVars>>

\* OAuth2 and custom tokens need the time.
NeedsClock == type \in ServiceKinds /\ ~clockSet

\* The clock is read from NTP, or the task gives up until the next call; when
\* the sync has timed out it reports an error first.
TaskSyncClock ==
    /\ InLoop /\ NeedsClock
    /\ \/ clockSet' = TRUE /\ UNCHANGED <<status, processing, open, taskRunning, pc>>
       \/ /\ LeaveTask /\ UNCHANGED clockSet
          /\ \/ UNCHANGED <<status, processing, open>>
             \/ /\ status' = "on_initialize" /\ processing' = FALSE
                /\ open' = open \cup {"notify"}
    /\ UNCHANGED <<appVars, type, expires, auth, refresh, signer, caller, req, ret,
                   netUp, sessOpen>>

\* getIdToken(false)
TaskIdToken ==
    /\ InLoop /\ type = "id"
    /\ flags' = flags \ {"signup"}
    /\ IF Busy
       THEN /\ ret' = FALSE /\ pc' = "taskNet"
            /\ UNCHANGED <<status, processing, open, req>>
       ELSE ClaimClient("idToken", "on_request", open) /\ UNCHANGED ret
    /\ UNCHANGED <<account, hasAuth, known, type, expires, auth, refresh, signer, taskRunning,
                   caller, envVars>>

InJWTLoop == InLoop /\ type # "id" /\ ~NeedsClock

\* Mutant: the step is not advanced.
TaskBeginStuck ==
    /\ InJWTLoop /\ signer.step = "begin" /\ "begin" \in open
    /\ open' = open \ {"begin"}
    /\ UNCHANGED <<appVars, tokVars, signer, processing, taskRunning, pc, caller, req, ret, envVars>>

\* The first step, no more often than its timer allows.
TaskBegin ==
    /\ InJWTLoop /\ signer.step = "begin" /\ "begin" \in open
    /\ open' = open \ {"begin"}
    /\ signer' = [signer EXCEPT !.step = "encode"]
    /\ UNCHANGED <<appVars, tokVars, processing, taskRunning, pc, caller, req, ret, envVars>>

\* Mutant: the task returns between encoding and signing.
TaskEncodeYields ==
    /\ InJWTLoop /\ signer.step = "encode" /\ LeaveTask
    /\ status' = "on_signing" /\ open' = Notified(open)
    /\ signer' = [step |-> "sign", jwt |-> account, signed |-> FALSE]
    /\ UNCHANGED <<appVars, type, expires, auth, refresh, processing, caller, req, ret, envVars>>

\* createJWT, header and payload: the claims of the current credentials.
TaskEncode ==
    /\ InJWTLoop /\ signer.step = "encode"
    /\ status' = "on_signing" /\ open' = Notified(open)
    /\ signer' = [step |-> "sign", jwt |-> account, signed |-> FALSE]
    /\ UNCHANGED <<appVars, type, expires, auth, refresh, processing, taskRunning,
                   pc, caller, req, ret, envVars>>

\* createJWT, signature: the key cannot be parsed, the signature fails, or the JWT
\* is signed.
TaskSign ==
    /\ InJWTLoop /\ signer.step = "sign"
    /\ IF CanSign
       THEN /\ signer' = [signer EXCEPT !.step = "exchange", !.signed = TRUE]
            /\ status' = "on_signing" /\ UNCHANGED <<processing, open>>
       ELSE /\ status' = "error" /\ processing' = FALSE /\ UNCHANGED signer
            /\ open' = Reported
    /\ UNCHANGED <<appVars, type, expires, auth, refresh, taskRunning,
                   pc, caller, req, ret, envVars>>

\* requestTokens(false) with the signed JWT, once the refresh timer allows.
TaskExchange ==
    /\ InJWTLoop /\ signer.step = "exchange" /\ "refresh" \in open
    /\ IF Busy
       THEN /\ ret' = TRUE /\ pc' = "taskNet"
            /\ UNCHANGED <<status, processing, open, req>>
       ELSE ClaimClient("exchange", "on_request", open) /\ UNCHANGED ret
    /\ UNCHANGED <<appVars, type, expires, auth, refresh, signer, taskRunning,
                   caller, envVars>>

\* reconnect(), second half: a refresh is abandoned when the network is down.
AbandonRefresh == ~netUp /\ status = "on_refresh"

\* After a request of the task: reconnect(), and a connection error when the
\* network is down and the error timer allows; then the loop's condition.
TaskNet ==
    LET lost == ~netUp /\ ("notify" \in open \/ status = "on_refresh")
    IN
    /\ pc = "taskNet"
    /\ IF AbandonRefresh \/ lost THEN TaskError(open)
       ELSE UNCHANGED <<status, processing, open>>
    /\ IF ret \/ status' = "ready"
       THEN LeaveTask
       ELSE pc' = "task" /\ UNCHANGED taskRunning
    /\ UNCHANGED <<appVars, type, expires, auth, refresh, signer, caller, req, ret, envVars>>

-----------------------------------------------------------------------------
(* The request: initClient's network check, then the server's answer.        *)

\* Mutant: the step is not set back after the exchange.
ExchangeStepKept(sg, ok) ==
    IF req = "exchange" THEN {[sg EXCEPT !.step = "exchange"]} ELSE {sg}

\* The steps tokenProcessingTask may set after requestTokens: after a failure,
\* begin if the clock has moved by an hour since the task began (it was set in
\* between), else exchange again.  Other callers leave the step.
ExchangeStep(sg, ok) ==
    IF req = "exchange"
    THEN {[sg EXCEPT !.step = s] : s \in IF ok THEN {"begin"} ELSE {"begin", "exchange"}}
    ELSE {sg}

AfterRequest(ok) ==
    /\ ret' = (req = "exchange" \/ ok)
    /\ pc' = IF taskRunning THEN "taskNet" ELSE ReturnPoint

\* initClient: the network is down and it returns false.
ConnectFail ==
    /\ pc = "init" /\ ~netUp
    /\ AfterRequest(FALSE)
    /\ signer' \in ExchangeStep(signer, FALSE)
    /\ UNCHANGED <<appVars, tokVars, processing, taskRunning, open, caller, req, envVars>>

\* initClient: connected; the request is sent.
Connect ==
    /\ pc = "init" /\ netUp /\ req \in TokenRequests
    /\ pc' = "await"
    /\ UNCHANGED <<appVars, tokVars, signer, processing, taskRunning, open,
                   caller, req, ret, envVars>>

\* The request could not be sent, or its answer did not come.
NoReply ==
    /\ pc = "await" /\ (~netUp \/ "none" \in Replies)
    /\ TaskError(open) /\ AfterRequest(FALSE)
    /\ signer' \in ExchangeStep(signer, FALSE)
    /\ UNCHANGED <<appVars, type, expires, auth, refresh, taskRunning, caller, req, envVars>>

\* requestTokens clears the JWT when an answer has come; an error asks for a new
\* one unless the custom token was assigned.
ClearJWT == IF req \in {"idToken", "refresh"} THEN signer
            ELSE [signer EXCEPT !.jwt = None, !.signed = FALSE]

\* Mutant: an error answer empties the token.
RejectedForgets ==
    /\ pc = "await" /\ netUp /\ req \in TokenRequests
    /\ "error" \in Replies \/ Grantee = None
    /\ TaskError(open) /\ AfterRequest(FALSE)
    /\ signer' \in ExchangeStep(ClearJWT, FALSE)
    /\ auth' = None
    /\ UNCHANGED <<appVars, type, expires, refresh, taskRunning, caller, req, envVars>>

Rejected ==
    /\ pc = "await" /\ netUp /\ req \in TokenRequests
    /\ "error" \in Replies \/ Grantee = None
    /\ TaskError(open) /\ AfterRequest(FALSE)
    /\ LET renew == req \notin {"idToken", "refresh"} /\ "custom" \notin flags
           sg == [ClearJWT EXCEPT !.step = IF renew THEN "encode" ELSE @]
       IN signer' \in ExchangeStep(sg, FALSE)
    /\ UNCHANGED <<appVars, type, expires, auth, refresh, taskRunning, caller, req, envVars>>

\* The tokens are stored and handleTaskError(COMPLETE_NOTIFY) ends the request.
\* Only the secure token and the identity services answer with a refresh token.
Granted ==
    /\ pc = "await" /\ netUp /\ req \in TokenRequests
    /\ "ok" \in Replies /\ Grantee # None
    /\ auth' = Grantee /\ expires' = "valid"
    /\ refresh' = IF req \in {"exchange", "grantRefresh"} /\ type = "oauth2"
                  THEN refresh ELSE Grantee
    /\ status' = "ready" /\ processing' = FALSE /\ open' = Notified(open)
    /\ signer' \in ExchangeStep([ClearJWT EXCEPT !.step = "begin"], TRUE)
    /\ flags' = IF req = "custom" THEN flags \ {"custom"} ELSE flags
    /\ AfterRequest(TRUE)
    /\ UNCHANGED <<account, hasAuth, known, type, taskRunning, caller, req, envVars>>

\* tokenReady(): reconnect(), then the answer status = "ready".
ReturnReady ==
    /\ pc = "ready" /\ pc' = "app"
    /\ IF AbandonRefresh THEN TaskError(open) ELSE UNCHANGED <<status, processing, open>>
    /\ UNCHANGED <<appVars, type, expires, auth, refresh, signer, taskRunning,
                   caller, req, ret, envVars>>

\* The answer ready() is about to give.
AnswersReady == pc = "ready" /\ netUp /\ status = "ready"

-----------------------------------------------------------------------------
(* The environment *)

Elapse(t) ==
    /\ t \notin open
    /\ open' = open \cup {t}
    /\ UNCHANGED <<appVars, tokVars, signer, processing, taskRunning,
                   pc, caller, req, ret, envVars>>

Expire ==
    /\ expires = "valid"
    /\ expires' = "past"
    /\ UNCHANGED <<appVars, status, type, auth, refresh, signer, processing,
                   taskRunning, open, pc, caller, req, ret, envVars>>

NetDown == Outages /\ netUp /\ netUp' = FALSE
NetUp   == ~netUp /\ netUp' = TRUE

Network ==
    /\ NetDown \/ NetUp
    /\ UNCHANGED <<appVars, tokVars, signer, processing, taskRunning, open,
                   pc, caller, req, ret, clockSet, sessOpen>>

HandleToken ==
    \/ HandleCustomToken \/ HandleAssignedToken \/ HandleExpiredIdToken
    \/ HandleNewIdToken \/ HandleGrantRefresh \/ HandleJWT \/ HandleOther

TokenTask ==
    \/ TaskDone \/ TaskSyncClock \/ TaskIdToken \/ TaskBegin \/ TaskEncode
    \/ TaskSign \/ TaskExchange \/ TaskNet

Request == ConnectFail \/ Connect \/ NoReply \/ Rejected \/ Granted

\* The steps the library takes once it has been called.
Library == HandleToken \/ TokenTask \/ Request \/ ReturnReady

Sketch ==
    \/ \E a \in Accounts : Begin(a)
    \/ \E k \in AppTokens : SetToken(k)
    \/ CallReady \/ Reset \/ ForceRefresh \/ UseSession

Environment == Network \/ Expire \/ \E t \in Timers : Elapse(t)

Next == Sketch \/ Library \/ Environment

Spec == Init /\ [][Next]_vars

\* The thread runs, the sketch keeps calling ready() as its documentation asks,
\* and time passes.
Fairness ==
    /\ WF_vars(Library) /\ WF_vars(CallReady)
    /\ \A t \in Timers : WF_vars(Elapse(t))

FairSpec == Spec /\ Fairness

-----------------------------------------------------------------------------
(* Properties *)

\* Whatever ends a request that was sent - an answer, an error, a timeout, a lost
\* connection - clears the in-use flag (handleTaskError, FirebaseCore.cpp:973).
SentRequestReleases ==
    [][pc = "await" /\ pc' # "await" => ~processing']_vars

\* ready() never answers TRUE while there is no auth token to send.
ReadyHasToken == AnswersReady => auth # None

\* ready() never answers TRUE with a token granted to other credentials than the
\* ones of the last begin().
ReadyIsOwnToken == AnswersReady /\ auth \in Accounts => auth = account

\* A token of setIdToken or setAccessToken, or its renewal, stays in use with its
\* expiry until it expires or the sketch resets, refreshes or assigns another;
\* begin(), ready() and the requests keep it (begin: accessTokenCustomSet, exp).
AssignedTokenKept ==
    [][/\ flags \cap {"id", "access"} # {} /\ auth = App /\ expires = "valid"
       /\ ~(auth' = App /\ expires' = "valid")
       => Expire \/ Reset \/ ForceRefresh \/ \E k \in AppTokens : SetToken(k)]_vars

\* No token is requested while the present one is valid: readyToRequest and the
\* expiry check guard every way to a request (handleToken).
OnlyExpiredRequested ==
    pc \in {"init", "await"} /\ req \in TokenRequests => expires # "valid"

\* The JWT being signed carries the claims of the current credentials, and only
\* the token task, which does not leave in between, signs it (createJWT).
SignsOwnClaims == signer.step = "sign" => taskRunning /\ signer.jwt = account

\* An exchange request carries a signed JWT (requestTokens: "new jwt needed as it
\* is already cleared", FirebaseCore.cpp:1891).
ExchangeHasJWT == pc = "await" /\ req = "exchange" => signer.signed

\* After begin(), an expired or missing token is eventually replaced and ready.
Renewed == (account # None /\ Expired) ~> (status = "ready" /\ ~Expired)

\* The same, once the network has come back for good.
RenewedAfterOutage == <>[]netUp => Renewed

\* ready() and begin() return to the sketch.
CallsReturn == pc # "app" ~> pc = "app"

-----------------------------------------------------------------------------
(* What the token manager promises *)

\* Whom the request under way asks a token for.
Asked == IF pc \in {"init", "await"} /\ req \in TokenRequests THEN {Grantee} ELSE {}

Lease == INSTANCE TokenLease
    WITH token <- auth, lease <- expires, asked <- Asked, inside <- pc # "app"

\* The task, its loop, the JWT and the branches of handleToken implement TokenLease:
\* inside a call of the library only the answer to a request replaces the token, by one of
\* the credentials the request was started with, and only a token whose lease is over is
\* asked for (handleToken, tokenProcessingTask, requestTokens, mSetAuthToken).
ImplementsLease == Lease!Spec

=============================================================================
