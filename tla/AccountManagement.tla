------------------------- MODULE AccountManagement -------------------------
(***************************************************************************)
(* The account calls beside the token state machine: signUp, deleteUser    *)
(* and sendEmailVerification / sendResetPassword.  They run on the same    *)
(* TCP client, under the same in-use flag, and write the same token state. *)
(* AppOps also selects them: "signUp", "delete", "email".                  *)
(***************************************************************************)
EXTENDS TokenManager

\* init(config, auth): au says whether an auth pointer was handed to Core.begin.
InitCall(a, au) ==
    /\ pc = "app" /\ a # None
    /\ account' = a /\ hasAuth' = au
    /\ caller' = "app"
    /\ expires' = IF flags \cap {"anonymous", "signup"} # {} THEN expires ELSE "unset"
    /\ open' = open \cup {"request"}

\* The first half of initClient with status uninitialized claims nothing.
StartCall(kind, busy) ==
    IF busy THEN UNCHANGED <<pc, req>> ELSE pc' = "init" /\ req' = kind

\* mSignUp: a new user, whose credentials are also the ones in auth, or, with no
\* credentials at all, an anonymous one.
SignUp(a) ==
    /\ "signUp" \in AppOps /\ account \in {None, a} /\ Kind[a] \in {"user", "bare"}
    /\ InitCall(a, TRUE)
    /\ type' = "id" /\ flags' = flags \ {"signup"}
    /\ StartCall("signUp", Busy)
    /\ UNCHANGED <<known, status, auth, refresh, signer, processing,
                   taskRunning, ret, envVars>>

\* mDeleteUser: the signed-in user (no id token argument), or another one.
DeleteUser ==
    /\ "delete" \in AppOps /\ InitCall(account, TRUE)
    /\ flags' = flags \ {"signup"}
    /\ \E kind \in {"delete", "deleteOther"} : StartCall(kind, Busy)
    /\ UNCHANGED <<known, status, type, auth, refresh, signer, processing,
                   taskRunning, ret, envVars>>

\* msendEmailVerification and mSendResetPassword hand no auth to init.
SendEmail ==
    /\ "email" \in AppOps /\ InitCall(account, FALSE)
    /\ flags' = flags \ {"signup"}
    /\ StartCall("email", processing)
    /\ UNCHANGED <<known, status, type, auth, refresh, signer, processing,
                   taskRunning, ret, envVars>>

\* deleteIdToken and handleEmailSending set the flag once connected.
ConnectCall ==
    /\ pc = "init" /\ netUp /\ req \in AccountRequests
    /\ pc' = "await" /\ processing' = (processing \/ req # "signUp")
    /\ UNCHANGED <<appVars, tokVars, signer, taskRunning, open, caller, req, ret, envVars>>

\* The new user is signed in: handleTaskError(COMPLETE_UNNOTIFY).
SignedUp ==
    /\ pc = "await" /\ netUp /\ req = "signUp" /\ "ok" \in Replies
    /\ type' = "id"
    /\ flags' = (flags \ {"anonymous"}) \cup {"signup"}
                  \cup (IF Kind[account] = "bare" THEN {"anonymous"} ELSE {})
    /\ auth' = account /\ refresh' = account /\ expires' = "valid"
    /\ status' = "ready" /\ processing' = FALSE
    /\ signer' = [signer EXCEPT !.step = "begin"]
    /\ open' = open \cup {"notify"}
    /\ AfterRequest(TRUE)
    /\ UNCHANGED <<account, hasAuth, known, taskRunning, caller, req, envVars>>

\* The user is deleted: the call returns without handleTaskError.
Deleted ==
    /\ pc = "await" /\ netUp /\ req \in {"delete", "deleteOther"} /\ "ok" \in Replies
    /\ IF req = "delete"
       THEN /\ auth' = None /\ expires' = "unset" /\ type' = "undefined"
            /\ signer' = [signer EXCEPT !.step = "begin"]
            /\ open' = open \cup {"notify"}
            /\ flags' = flags \ {"anonymous", "id"}
       ELSE UNCHANGED <<auth, expires, type, signer, open, flags>>
    /\ AfterRequest(TRUE)
    /\ UNCHANGED <<account, hasAuth, known, status, refresh, processing, taskRunning,
                   caller, req, envVars>>

\* The mail is sent: handleTaskError(COMPLETE_NOTIFY), as for a token.
EmailSent ==
    /\ pc = "await" /\ netUp /\ req = "email" /\ "ok" \in Replies
    /\ status' = "ready" /\ processing' = FALSE /\ open' = Notified(open)
    /\ signer' = [signer EXCEPT !.step = "begin"]
    /\ AfterRequest(TRUE)
    /\ UNCHANGED <<appVars, type, expires, auth, refresh, taskRunning, caller, req, envVars>>

\* An error answer: a refused mail leaves the token status alone, the others end
\* in an error of the token.
CallRejected ==
    /\ pc = "await" /\ netUp /\ req \in AccountRequests /\ "error" \in Replies
    /\ IF req = "email"
       THEN processing' = FALSE /\ UNCHANGED <<status, open>>
       ELSE TaskError(open)
    /\ AfterRequest(FALSE)
    /\ UNCHANGED <<appVars, type, expires, auth, refresh, signer, taskRunning,
                   caller, req, envVars>>

AccountCalls ==
    (\E a \in Accounts : SignUp(a)) \/ DeleteUser \/ SendEmail

AccountReplies ==
    ConnectCall \/ SignedUp \/ Deleted \/ EmailSent \/ CallRejected

AccountNext == Next \/ AccountCalls \/ AccountReplies

AccountSpec == Init /\ [][AccountNext]_vars

-----------------------------------------------------------------------------
(* Properties *)

\* Every account call hands the TCP client back: between calls the in-use flag is
\* clear (handleTaskError's "Close TCP connection and unlock used flag").
CallReleases ==
    [][pc = "await" /\ req \in AccountRequests /\ pc' = "app" => ~processing']_vars

=============================================================================
