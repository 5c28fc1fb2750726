---------------------------- MODULE TokenExpiry ----------------------------
(***************************************************************************)
(* The arithmetic of an auth token's expiry: expires, last_millis and      *)
(* preRefreshSeconds of config->signer, compared with a clock that may be  *)
(* set only after the token was stored.                                    *)
(*                                                                         *)
(* Time is counted in seconds since the boot (uptime).  Until it is set,   *)
(* the system clock shows the uptime, or, if the sketch configures a time  *)
(* zone, the milliseconds timeBegin() takes for seconds.                   *)
(***************************************************************************)
EXTENDS Integers

CONSTANTS
    WordSize,       \* 2^32: what an unsigned long holds
    MilliSpan,      \* the seconds after which millis() wraps
    Milli,          \* 1000: the milliseconds of a second
    DefaultTS,      \* FIREBASE_DEFAULT_TS: a clock beyond it is set
    Epoch,          \* the time at the boot
    PreRefresh,     \* DEFAULT_AUTH_TOKEN_PRE_REFRESH_SECONDS
    Margin,         \* 60: what adjustTime takes off
    MinRefresh,     \* 60: what it sets preRefreshSeconds to
    MaxExpire,      \* 3600: the longest expiry of an assigned token
    Lifetimes,      \* expires_in of the server's answers
    Intervals,      \* the expiry the sketch passes with a token
    MaxTime,        \* bound: how long the device runs
    BeginBy         \* bound: begin() brings a time zone up to this time

\* A minute and the pre-refresh interval are short; begin() is called early and the
\* device does not run for so long that an unset clock looks set (51 years) or that
\* an expiry passes 2^31 (the year 2038).
ASSUME ExpiryAssumption ==
    /\ WordSize \in Nat /\ MilliSpan \in Nat \ {0} /\ Milli \in Nat \ {0}
    /\ DefaultTS \in Nat /\ Epoch \in Nat /\ MaxTime \in Nat /\ BeginBy \in Nat
    /\ PreRefresh \in Nat /\ Margin \in Nat /\ MinRefresh \in Nat /\ MaxExpire \in Nat
    /\ Lifetimes \subseteq 1 .. MaxExpire /\ Intervals \subseteq Nat
    /\ DefaultTS + Margin <= Epoch /\ Margin > 0 /\ MinRefresh <= PreRefresh
    /\ 2 * PreRefresh < WordSize
    /\ Milli * BeginBy + MaxTime + MaxExpire < DefaultTS
    /\ 2 * (Epoch + Milli * BeginBy + 2 * MaxTime + MaxExpire) < WordSize

VARIABLES
    uptime,         \* seconds since the boot
    ahead,          \* what the system clock shows beyond the uptime
    expires,        \* config->signer.tokens.expires
    lastMillis,     \* config->signer.tokens.last_millis, in seconds
    preRefresh,     \* config->signer.preRefreshSeconds
    answer,         \* what isExpired() has said at this time
    token           \* the token stored: what the library does not know of it

vars == <<uptime, ahead, expires, lastMillis, preRefresh, answer, token>>

-----------------------------------------------------------------------------

\* A token: when it really expires, what the clock showed when it was stored
\* unless it was set, whether the clock jumped or millis() wrapped since, and
\* whether it was called expired.
Tokens == [diesAt : 0 .. MaxTime + MaxExpire, shown : 0 .. DefaultTS,
           jumped : BOOLEAN, wrapped : BOOLEAN, refused : BOOLEAN]

\* getTime()
Now == uptime + ahead

ClockSet == Now > DefaultTS

Fresh(life) ==
    [diesAt |-> uptime + life, shown |-> IF ClockSet THEN 0 ELSE Now,
     jumped |-> FALSE, wrapped |-> FALSE, refused |-> FALSE]

NoToken == [diesAt |-> 0, shown |-> 0, jumped |-> FALSE, wrapped |-> FALSE,
            refused |-> FALSE]

Wrap(x) == x % WordSize

\* The cast to int.
Signed(x) == IF 2 * x < WordSize THEN x ELSE x - WordSize

\* The seconds since last_millis.
Elapsed == (uptime - lastMillis) % MilliSpan

\* Mutant: an expiry is moved whenever the clock is set, be it moved already or not.
AdjustedAgain(e) ==
    IF e > 0 /\ ClockSet
    THEN Wrap(e + Now - Elapsed - Margin)
    ELSE e

\* Mutant: the milliseconds are not divided by 1000.
AdjustedByMillis(e) ==
    IF e > 0 /\ e < DefaultTS /\ ClockSet
    THEN Wrap(e + Now - Milli * Elapsed - Margin)
    ELSE e

\* Mutant: the margin is left out.
AdjustedToTheSecond(e) ==
    IF e > 0 /\ e < DefaultTS /\ ClockSet
    THEN Wrap(e + Now - Elapsed)
    ELSE e

\* The first half of adjustTime(): an expiry counted by an unset clock is moved to
\* the clock that is set now.
Adjusted(e) ==
    IF e > 0 /\ e < DefaultTS /\ ClockSet
    THEN Wrap(e + Now - Elapsed - Margin)
    ELSE e

\* Mutant: the interval shrinks to the expiry, as the comment before it says.
ShrunkToExpiry(e) == IF preRefresh > e /\ e > 0 THEN e ELSE preRefresh

\* The second half.
Shrunk(e) == IF preRefresh > e /\ e > 0 THEN MinRefresh ELSE preRefresh

-----------------------------------------------------------------------------

Init ==
    /\ uptime = 0 /\ ahead = 0
    /\ expires = 0 /\ lastMillis = 0 /\ preRefresh = PreRefresh
    /\ answer = "none" /\ token = NoToken

Tick ==
    /\ uptime < MaxTime
    /\ uptime' = uptime + 1
    /\ answer' = "none"
    /\ UNCHANGED <<ahead, expires, lastMillis, preRefresh, token>>

\* The clock is set to the right time: by NTP, or by the sketch.
SetClock ==
    /\ ahead' = Epoch
    /\ answer' = "none"
    /\ UNCHANGED <<uptime, expires, lastMillis, preRefresh, token>>

\* timeBegin(), of a begin() that brings a time zone.  (No time zone is brought after
\* the clock was set: timeBegin() would then set it back.)
BeginTimeZone ==
    /\ uptime <= BeginBy
    /\ ~ClockSet
    /\ ahead' = Milli * uptime - uptime
    /\ answer' = "none"
    /\ token' = [token EXCEPT !.jumped = @ \/ ahead' # ahead]
    /\ UNCHANGED <<uptime, expires, lastMillis, preRefresh>>

\* getExpiration(), with the answer that brings a token.
Grant(life) ==
    /\ expires' = Wrap(Now + life)
    /\ lastMillis' = uptime
    /\ token' = Fresh(life)
    /\ answer' = "none"
    /\ UNCHANGED <<uptime, ahead, preRefresh>>

\* setIdToken(), setAccessToken() and setCustomToken().  mSetAuthToken() calls reset()
\* first: what it adds to is an expiry of 0, and any token, be it the same one, is
\* stored.  last_millis and preRefreshSeconds stay those of the token before.
Assign(interval) ==
    LET life == IF interval > MaxExpire THEN MaxExpire ELSE interval IN
    /\ expires' = IF life > 0 THEN Wrap(Now + life) ELSE 0
    /\ token' = Fresh(life)
    /\ answer' = "none"
    /\ UNCHANGED <<uptime, ahead, lastMillis, preRefresh>>

\* refreshToken(), reset(), deleteUser() and begin() with other credentials.
Forget ==
    /\ expires' = 0
    /\ token' = NoToken
    /\ answer' = "none"
    /\ UNCHANGED <<uptime, ahead, lastMillis, preRefresh>>

\* isExpired(), of a token that has an expiry.
IsExpired ==
    LET e == Adjusted(expires)
        p == Shrunk(e)
        expired == Now > Signed(Wrap(e - p)) \/ e = 0
    IN  /\ expires' = e
        /\ preRefresh' = p
        /\ answer' = IF expired THEN "expired" ELSE "valid"
        /\ token' = [token EXCEPT
             !.wrapped = @ \/ (e # expires /\ uptime - lastMillis >= MilliSpan),
             !.refused = @ \/ expired]
        /\ UNCHANGED <<uptime, ahead, lastMillis>>

Next ==
    \/ Tick \/ SetClock \/ BeginTimeZone \/ Forget \/ IsExpired
    \/ \E life \in Lifetimes : Grant(life)
    \/ \E interval \in Intervals : Assign(interval)

Spec == Init /\ [][Next]_vars

-----------------------------------------------------------------------------
(* Properties *)

\* Every variable has its type; the word, the pre-refresh interval and what is
\* kept of a token stay in their ranges.
TypeOK ==
    /\ uptime \in 0 .. MaxTime
    /\ ahead \in 0 .. Epoch
    /\ expires \in 0 .. WordSize - 1
    /\ lastMillis \in 0 .. uptime
    /\ preRefresh \in {PreRefresh, MinRefresh}
    /\ answer \in {"none", "valid", "expired"}
    /\ token \in Tokens

\* The seconds by which adjustTime() overrates a token stored by an unset clock.
Late == IF token.shown > Margin THEN token.shown - Margin ELSE 0

\* isExpired() calls a token expired preRefreshSeconds before it expires.  Only a
\* token that was stored by an unset clock may be trusted longer, and never by more
\* than that clock showed less a minute.  (adjustTime() adds the present time to an
\* expiry that holds the uptime already.  Not if millis() wrapped before the clock
\* was set.)
TrustedAtMost ==
    answer = "valid" /\ ~token.wrapped =>
        uptime + preRefresh <= token.diesAt + Late

\* isExpired() calls no token expired more than the pre-refresh interval and a
\* minute before it expires, however the clock was set meanwhile, and whichever token
\* last_millis is of.  (Not if begin() moved the clock by a time zone.)
ExpiredAtMostEarly ==
    answer = "expired" /\ ~token.jumped =>
        uptime + PreRefresh + Margin > token.diesAt

\* A token isExpired() has called expired is not trusted again when the clock is
\* set later, if it was stored by a clock that was set or in the first minute of one
\* that was not.
StaysExpired ==
    answer = "valid" /\ ~token.wrapped /\ ~token.jumped
        /\ token.shown <= Margin =>
        ~token.refused

=============================================================================
