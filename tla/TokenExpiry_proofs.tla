------------------------- MODULE TokenExpiry_proofs -------------------------
(***************************************************************************)
(* Theorems of TokenExpiry, for every word, clock, lifetime and run of the *)
(* device that ExpiryAssumption allows.                                    *)
(*                                                                         *)
(* The inductive invariant relates expires to the time the token really    *)
(* expires: by an unset clock (UnsetInv), by one that is set (SetInv), and *)
(* what is kept of a token that was called expired (RefusedInv).  Only     *)
(* isExpired() gives an answer; the lemmas before it compute what it reads.*)
(***************************************************************************)
EXTENDS TokenExpiry, TLAPS

-----------------------------------------------------------------------------
(* Words *)

\* An unsigned long stays in its range.
LEMMA WrapType == ASSUME NEW x \in Int PROVE Wrap(x) \in 0 .. WordSize - 1
  BY ExpiryAssumption DEF Wrap

\* A sum that fits is not changed.
LEMMA WrapSmall == ASSUME NEW x \in Nat, x < WordSize PROVE Wrap(x) = x
  BY ExpiryAssumption DEF Wrap

\* A negative difference wraps once.
LEMMA WrapNegative ==
  ASSUME NEW x \in Int, x < 0, 0 <= x + WordSize PROVE Wrap(x) = x + WordSize
  BY ExpiryAssumption DEF Wrap

\* The cast to int undoes the wrap of expires - preRefreshSeconds.
LEMMA Compared ==
  ASSUME NEW e \in Nat, NEW p \in Nat, 2 * e < WordSize, 2 * p < WordSize
  PROVE  Signed(Wrap(e - p)) = e - p
<1>1. CASE e >= p
  BY <1>1, WrapSmall, ExpiryAssumption DEF Signed
<1>2. CASE e < p
  BY <1>2, WrapNegative, ExpiryAssumption DEF Signed
<1> QED
  BY <1>1, <1>2

\* Milliseconds taken for seconds run ahead, and ever more.
LEMMA MilliAhead ==
  ASSUME NEW u \in Nat
  PROVE  /\ Milli * u \in Nat /\ Milli * u >= u
         /\ Milli * (u + 1) - (u + 1) >= Milli * u - u
         /\ u <= BeginBy => Milli * u <= Milli * BeginBy
  BY ExpiryAssumption

\* millis() - last_millis, with or without a wrap.
LEMMA ElapsedIs ==
  ASSUME TypeOK
  PROVE  /\ Elapsed \in 0 .. uptime - lastMillis
         /\ uptime - lastMillis < MilliSpan => Elapsed = uptime - lastMillis
  BY ExpiryAssumption DEF Elapsed, TypeOK

-----------------------------------------------------------------------------
(* The constants and the types *)

\* The latest an unset clock can show as an expiry.
UnsetLimit == Milli * BeginBy + MaxTime + MaxExpire

\* What the assumption says of sums.
LEMMA Sizes ==
  /\ WordSize \in Nat /\ DefaultTS \in Nat /\ Epoch \in Nat /\ MaxTime \in Nat
  /\ PreRefresh \in Nat /\ Margin \in Nat /\ MinRefresh \in Nat /\ MaxExpire \in Nat
  /\ DefaultTS + Margin <= Epoch /\ Margin > 0 /\ MinRefresh <= PreRefresh
  /\ 2 * PreRefresh < WordSize
  /\ UnsetLimit \in Nat /\ UnsetLimit >= MaxTime + MaxExpire /\ UnsetLimit < DefaultTS
  /\ 2 * (Epoch + UnsetLimit + MaxTime) < WordSize
  BY ExpiryAssumption, MilliAhead DEF UnsetLimit

\* The numbers of the state, and what is kept of the token.
LEMMA Typed ==
  ASSUME TypeOK
  PROVE  /\ uptime \in Nat /\ uptime <= MaxTime
         /\ ahead \in Nat /\ ahead <= Epoch
         /\ expires \in Nat /\ expires < WordSize
         /\ lastMillis \in Nat /\ lastMillis <= uptime
         /\ preRefresh \in Nat /\ preRefresh \in {PreRefresh, MinRefresh}
         /\ token.diesAt \in Nat /\ token.shown \in Nat
         /\ token.jumped \in BOOLEAN
         /\ token.wrapped \in BOOLEAN /\ token.refused \in BOOLEAN
  BY ExpiryAssumption DEF TypeOK, Tokens

-----------------------------------------------------------------------------
(* The invariant *)

\* The clock is set, or shows the uptime or what timeBegin() made of it.
ClockInv ==
    \/ ahead = Epoch
    \/ ahead <= Milli * uptime - uptime /\ ahead <= Milli * BeginBy

\* An expiry counted by the unset clock.
UnsetInv ==
    expires > 0 /\ expires < DefaultTS =>
        /\ expires <= UnsetLimit
        /\ expires <= token.diesAt + ahead
        /\ expires + lastMillis <= token.diesAt + token.shown
        /\ expires >= token.diesAt
        /\ ~token.jumped /\ ahead # Epoch => expires = token.diesAt + ahead

\* An expiry counted by the clock that is set.
SetInv ==
    expires >= DefaultTS =>
        /\ ahead = Epoch /\ 2 * expires < WordSize
        /\ ~token.wrapped => expires <= Epoch + token.diesAt + Late
        /\ expires >= Epoch + token.diesAt - Margin

\* No expiry is kept only of a token that lasts no longer.
ZeroInv == expires = 0 => token.diesAt <= uptime

\* Of a token that was called expired the next answer is known.
RefusedInv ==
    /\ token.refused /\ ~token.jumped /\ ~token.wrapped
    /\ token.shown <= Margin /\ expires > 0
    =>
        /\ preRefresh <= expires \/ preRefresh = MinRefresh
        /\ expires < DefaultTS => uptime + preRefresh > token.diesAt
        /\ expires >= DefaultTS => uptime + Epoch + preRefresh > expires

ExpiryInv == ClockInv /\ UnsetInv /\ SetInv /\ ZeroInv /\ RefusedInv

Answers == TrustedAtMost /\ ExpiredAtMostEarly /\ StaysExpired

\* An unset clock shows less than DefaultTS, so a clock beyond it was set.
LEMMA SetAhead ==
  ASSUME TypeOK, ClockInv
  PROVE  ClockSet <=> ahead = Epoch
  BY ExpiryAssumption, MilliAhead DEF TypeOK, ClockInv, ClockSet, Now

\* A token that is stored has an expiry by the clock of that time.
LEMMA Stored ==
  ASSUME TypeOK, ClockInv, NEW life \in 1 .. MaxExpire
  PROVE  /\ Now + life \in 1 .. WordSize - 1
         /\ Wrap(Now + life) = Now + life
         /\ 2 * (Now + life) < WordSize
         /\ ~ClockSet => Now + life <= UnsetLimit /\ Now + life < DefaultTS
<1>1. ahead \in Nat /\ uptime \in 0 .. MaxTime /\ life \in Nat /\ life <= MaxExpire
  BY ExpiryAssumption DEF TypeOK
<1>2. Milli * BeginBy \in Nat
  BY MilliAhead, ExpiryAssumption
<1>3. 2 * (Now + life) < WordSize /\ Now + life \in Nat
  BY <1>1, <1>2, ExpiryAssumption DEF ClockInv, Now
<1> QED
  BY <1>1, <1>2, <1>3, WrapSmall, SetAhead, ExpiryAssumption
     DEF ClockInv, Now, UnsetLimit

\* Where the clock is set, an expiry counted by the unset one is moved, once.
LEMMA Moves ==
  ASSUME TypeOK, ClockInv, UnsetInv, expires > 0, expires < DefaultTS, ClockSet
  PROVE  /\ Adjusted(expires) = expires + Epoch + uptime - Elapsed - Margin
         /\ Adjusted(expires) > expires /\ Adjusted(expires) >= DefaultTS
         /\ 2 * Adjusted(expires) < WordSize
         /\ Adjusted(expires) \in Nat
<1>1. /\ expires \in Nat /\ uptime \in 0 .. MaxTime /\ lastMillis \in 0 .. uptime
      /\ ahead = Epoch
  BY SetAhead, ExpiryAssumption DEF TypeOK
<1>2. Milli * BeginBy \in Nat /\ expires <= Milli * BeginBy + MaxTime + MaxExpire
  BY MilliAhead, ExpiryAssumption DEF UnsetInv, UnsetLimit
<1>3. Elapsed \in 0 .. uptime - lastMillis
  BY ElapsedIs
<1> DEFINE x == expires + Epoch + uptime - Elapsed - Margin
<1>4. x \in Nat /\ x > expires /\ x >= DefaultTS /\ 2 * x < WordSize
  BY <1>1, <1>2, <1>3, ExpiryAssumption
<1>5. Wrap(x) = x
  BY <1>4, WrapSmall, ExpiryAssumption
<1>6. Now = Epoch + uptime
  BY <1>1, ExpiryAssumption DEF Now
<1>7. expires + Now - Elapsed - Margin = x
  BY <1>1, <1>3, <1>6, ExpiryAssumption
<1>8. Adjusted(expires) = x
  BY <1>5, <1>7 DEF Adjusted
<1> HIDE DEF x
<1> QED
  BY <1>4, <1>8 DEF x

-----------------------------------------------------------------------------
(* Types *)

\* TypeOK is inductive, given where the clock stands.
LEMMA TypeNext ==
  ASSUME TypeOK, ClockInv, [Next]_vars
  PROVE  TypeOK'
<1> USE ExpiryAssumption DEF TypeOK
<1>1. CASE Tick
  BY <1>1 DEF Tick
<1>2. CASE SetClock
  BY <1>2 DEF SetClock
<1>3. CASE BeginTimeZone
  <2>1. ahead' \in 0 .. Epoch
    BY <1>3, MilliAhead DEF BeginTimeZone
  <2>2. token' \in Tokens
    BY <1>3 DEF BeginTimeZone, Tokens
  <2> QED
    BY <1>3, <2>1, <2>2 DEF BeginTimeZone
<1>4. CASE Forget
  BY <1>4 DEF Forget, Tokens, NoToken
<1>5. CASE IsExpired
  <2>1. Adjusted(expires) \in 0 .. WordSize - 1
    BY WrapType, ElapsedIs DEF Adjusted, Now
  <2>2. token' \in Tokens
    BY <1>5 DEF IsExpired, Tokens
  <2>3. Shrunk(Adjusted(expires)) \in {PreRefresh, MinRefresh}
    BY DEF Shrunk
  <2> QED
    BY <1>5, <2>1, <2>2, <2>3 DEF IsExpired
<1>6. ASSUME NEW life \in Lifetimes, Grant(life) PROVE TypeOK'
  <2>1. token' \in Tokens
    BY <1>6 DEF Grant, Fresh, Tokens, ClockSet, Now
  <2>2. expires' \in 0 .. WordSize - 1
    BY <1>6, WrapType DEF Grant, Now
  <2>3. lastMillis' \in 0 .. uptime'
    BY <1>6 DEF Grant
  <2> QED
    BY <1>6, <2>1, <2>2, <2>3 DEF Grant
<1>7. ASSUME NEW interval \in Intervals, Assign(interval) PROVE TypeOK'
  <2>1. token' \in Tokens
    BY <1>7 DEF Assign, Fresh, Tokens, ClockSet, Now
  <2>2. expires' \in 0 .. WordSize - 1
    BY <1>7, WrapType DEF Assign, Now
  <2> QED
    BY <1>7, <2>1, <2>2 DEF Assign
<1>8. CASE UNCHANGED vars
  BY <1>8 DEF vars
<1> QED
  BY <1>1, <1>2, <1>3, <1>4, <1>5, <1>6, <1>7, <1>8 DEF Next

-----------------------------------------------------------------------------
(* The steps *)

\* Time passes.
LEMMA TickKeeps ==
  ASSUME TypeOK, ExpiryInv, Tick
  PROVE  ExpiryInv'
<1> USE Sizes, Typed DEF Tick
<1>1. ClockInv'
  BY MilliAhead DEF ExpiryInv, ClockInv
<1>2. UnsetInv' /\ SetInv' /\ ZeroInv'
  BY DEF ExpiryInv, UnsetInv, SetInv, ZeroInv, Late
<1>3. RefusedInv'
  BY DEF ExpiryInv, RefusedInv
<1> QED
  BY <1>1, <1>2, <1>3 DEF ExpiryInv

\* The clock is set, or moved by a time zone.
LEMMA ClockKeeps ==
  ASSUME TypeOK, ExpiryInv, SetClock \/ BeginTimeZone
  PROVE  ExpiryInv'
<1> USE Sizes, Typed
<1>1. CASE SetClock
  <2>1. ahead <= ahead'
    BY <1>1 DEF SetClock
  <2> QED
    BY <1>1, <2>1 DEF SetClock, ExpiryInv, ClockInv, UnsetInv, SetInv, ZeroInv, RefusedInv,
       UnsetLimit, Late
<1>2. CASE BeginTimeZone
  <2>1. /\ ahead' = Milli * uptime - uptime /\ uptime' = uptime
        /\ expires' = expires /\ lastMillis' = lastMillis /\ preRefresh' = preRefresh
    BY <1>2 DEF BeginTimeZone
  <2>2. Milli * uptime \in Nat /\ Milli * uptime <= Milli * BeginBy
    BY <1>2, MilliAhead DEF BeginTimeZone
  <2>3. ahead # Epoch /\ ahead <= Milli * uptime - uptime
    BY <1>2, SetAhead DEF BeginTimeZone, ExpiryInv, ClockInv
  <2>4. Milli * BeginBy \in Nat
    BY ExpiryAssumption
  <2>5. ahead <= ahead' /\ ahead' <= Milli * BeginBy
    BY <2>1, <2>2, <2>3, <2>4
  <2>6. ClockInv'
    BY <2>1, <2>2, <2>5 DEF ClockInv
  <2>7. /\ token'.diesAt = token.diesAt /\ token'.shown = token.shown
        /\ token'.wrapped = token.wrapped /\ token'.refused = token.refused
        /\ token'.jumped = (token.jumped \/ ahead' # ahead)
    BY <1>2 DEF BeginTimeZone
  <2>8. ~token'.jumped => ~token.jumped /\ ahead' = ahead
    BY <2>7
  <2>9. UnsetInv'
    BY <2>1, <2>3, <2>5, <2>7, <2>8 DEF ExpiryInv, UnsetInv, UnsetLimit
  <2>10. SetInv' /\ ZeroInv'
    BY <2>1, <2>3, <2>7 DEF ExpiryInv, SetInv, ZeroInv, Late
  <2>11. RefusedInv'
    BY <2>1, <2>7, <2>8 DEF ExpiryInv, RefusedInv
  <2> QED
    BY <2>6, <2>9, <2>10, <2>11 DEF ExpiryInv
<1> QED
  BY <1>1, <1>2

\* A token is stored with an expiry by the clock, as it stands.
LEMMA FreshKeeps ==
  ASSUME TypeOK, ExpiryInv, NEW life \in 1 .. MaxExpire,
         uptime' = uptime, ahead' = ahead, preRefresh' = preRefresh,
         expires' = Now + life, lastMillis' \in 0 .. uptime,
         token'.diesAt = uptime + life, token'.jumped = FALSE,
         token'.wrapped = FALSE, token'.refused = FALSE,
         ClockSet => token'.shown = 0, ~ClockSet => token'.shown = Now
  PROVE  ExpiryInv'
<1> USE Sizes, Typed
<1>1. /\ uptime \in Nat /\ ahead \in Nat /\ life \in Nat /\ life > 0
      /\ Now = uptime + ahead
  BY DEF Now
<1>2. ClockInv'
  BY DEF ExpiryInv, ClockInv
<1>3. /\ Now + life \in 1 .. WordSize - 1 /\ 2 * (Now + life) < WordSize
      /\ ~ClockSet => Now + life <= UnsetLimit /\ Now + life < DefaultTS
  BY Stored DEF ExpiryInv
<1>4. ClockSet <=> ahead = Epoch
  BY SetAhead DEF ExpiryInv
<1>5. CASE ClockSet
  <2>1. expires' = Epoch + uptime + life /\ expires' >= DefaultTS /\ expires' > 0
    BY <1>1, <1>4, <1>5 DEF Now
  <2>2. token'.shown = 0 /\ Late' = 0
    BY <1>1, <1>5 DEF Late
  <2>3. 2 * expires' < WordSize /\ ahead' = Epoch
    BY <1>3, <1>4, <1>5
  <2>4. SetInv'
    BY <1>1, <2>1, <2>2, <2>3 DEF SetInv
  <2> QED
    BY <1>1, <1>2, <2>1, <2>4 DEF ExpiryInv, UnsetInv, ZeroInv, RefusedInv
<1>6. CASE ~ClockSet
  <2>1. /\ expires' = uptime + ahead + life /\ expires' < DefaultTS /\ expires' > 0
        /\ expires' <= UnsetLimit
    BY <1>1, <1>3, <1>6 DEF Now
  <2>2. token'.shown = uptime + ahead
    BY <1>1, <1>6
  <2>3. expires' <= UnsetLimit'
    BY <2>1 DEF UnsetLimit
  <2>4. lastMillis' <= uptime /\ lastMillis' \in Nat
    BY <1>1
  <2>5. expires' = token'.diesAt + ahead' /\ expires' >= token'.diesAt
    BY <1>1, <2>1
  <2>6. token'.diesAt + token'.shown = expires' + uptime
    BY <1>1, <2>1, <2>2
  <2>7. expires' + lastMillis' <= token'.diesAt + token'.shown
    BY <1>1, <2>1, <2>4, <2>6
  <2>8. expires' <= token'.diesAt + ahead'
    BY <1>1, <2>1, <2>5
  <2>9. UnsetInv'
    BY <2>3, <2>5, <2>7, <2>8 DEF UnsetInv
  <2> QED
    BY <1>1, <1>2, <2>1, <2>9 DEF ExpiryInv, SetInv, ZeroInv, RefusedInv
<1> QED
  BY <1>5, <1>6

\* What is kept of a token that is stored.
LEMMA FreshFields ==
  ASSUME NEW life
  PROVE  LET t == Fresh(life) IN
         /\ t.diesAt = uptime + life
         /\ t.jumped = FALSE /\ t.wrapped = FALSE /\ t.refused = FALSE
         /\ ClockSet => t.shown = 0
         /\ ~ClockSet => t.shown = Now
  BY DEF Fresh, ClockSet

\* A token is granted.
LEMMA GrantKeeps ==
  ASSUME TypeOK, ExpiryInv, NEW life \in Lifetimes, Grant(life)
  PROVE  ExpiryInv'
<1>1. life \in 1 .. MaxExpire
  BY ExpiryAssumption
<1>2. expires' = Now + life
  BY <1>1, Stored DEF Grant, ExpiryInv
<1>3. uptime' = uptime /\ ahead' = ahead /\ preRefresh' = preRefresh /\ lastMillis' = uptime
  BY DEF Grant
<1>4. lastMillis' \in 0 .. uptime
  BY <1>3, Typed
<1>5. token' = Fresh(life)
  BY DEF Grant
<1> QED
  BY <1>1, <1>2, <1>3, <1>4, <1>5, FreshFields, FreshKeeps

\* A token is assigned, with no expiry or one of its own.
LEMMA AssignKeeps ==
  ASSUME TypeOK, ExpiryInv, NEW interval \in Intervals, Assign(interval)
  PROVE  ExpiryInv'
<1> DEFINE life == IF interval > MaxExpire THEN MaxExpire ELSE interval
<1>1. life \in Nat /\ life <= MaxExpire
  BY ExpiryAssumption
<1>2. /\ expires' = IF life > 0 THEN Wrap(Now + life) ELSE 0
      /\ token' = Fresh(life)
      /\ uptime' = uptime /\ ahead' = ahead /\ lastMillis' = lastMillis
      /\ preRefresh' = preRefresh
  BY DEF Assign
<1> HIDE DEF life
<1>3. /\ token'.diesAt = uptime + life
      /\ token'.jumped = FALSE /\ token'.wrapped = FALSE /\ token'.refused = FALSE
      /\ ClockSet => token'.shown = 0
      /\ ~ClockSet => token'.shown = Now
  BY <1>2, FreshFields
<1>4. CASE life = 0
  <2>1. expires' = 0 /\ token'.diesAt = uptime /\ token'.refused = FALSE
    BY <1>2, <1>3, <1>4, Typed
  <2> QED
    BY <1>2, <2>1, Sizes, Typed
       DEF ExpiryInv, ClockInv, UnsetInv, SetInv, ZeroInv, RefusedInv
<1>5. CASE life > 0
  <2>1. life \in 1 .. MaxExpire
    BY <1>1, <1>5, Sizes
  <2>2. expires' = Now + life
    BY <1>2, <1>5, <2>1, Stored DEF ExpiryInv
  <2>3. lastMillis' \in 0 .. uptime
    BY <1>2, Typed
  <2> QED
    BY <1>2, <1>3, <2>1, <2>2, <2>3, FreshKeeps
<1> QED
  BY <1>1, <1>4, <1>5

\* No expiry and no token.
LEMMA ForgetKeeps ==
  ASSUME TypeOK, ExpiryInv, Forget
  PROVE  ExpiryInv'
<1>1. /\ expires' = 0 /\ token'.diesAt = 0 /\ token'.refused = FALSE
      /\ uptime' = uptime /\ ahead' = ahead
  BY DEF Forget, NoToken
<1> QED
  BY <1>1, Sizes, Typed DEF ExpiryInv, ClockInv, UnsetInv, SetInv, ZeroInv, RefusedInv

\* isExpired(), of what is kept of the token.
LEMMA IsExpiredFields ==
  ASSUME TypeOK, IsExpired,
         NEW e, e = Adjusted(expires), NEW p, p = Shrunk(e),
         NEW expired \in BOOLEAN, expired <=> Now > Signed(Wrap(e - p)) \/ e = 0
  PROVE  /\ expires' = e /\ preRefresh' = p
         /\ answer' = IF expired THEN "expired" ELSE "valid"
         /\ uptime' = uptime /\ ahead' = ahead /\ lastMillis' = lastMillis
         /\ token'.diesAt = token.diesAt /\ token'.shown = token.shown
         /\ token'.jumped = token.jumped
         /\ token'.refused = (token.refused \/ expired)
         /\ token'.wrapped =
              (token.wrapped \/ (e # expires /\ uptime - lastMillis >= MilliSpan))
  BY DEF TypeOK, IsExpired, Tokens

\* isExpired(): what it leaves, and what it answers.
LEMMA ExpiredKeeps ==
  ASSUME TypeOK, ExpiryInv, IsExpired
  PROVE  ExpiryInv' /\ Answers'
<1> DEFINE e == Adjusted(expires)
           p == Shrunk(e)
           expired == Now > Signed(Wrap(e - p)) \/ e = 0
<1>1. p \in {PreRefresh, MinRefresh} /\ p \in Nat /\ 2 * p < WordSize /\ p <= PreRefresh
  BY Sizes, Typed DEF Shrunk
<1>2. /\ e > 0 => p <= e \/ p = MinRefresh
      /\ preRefresh <= e \/ preRefresh = MinRefresh => p = preRefresh
  <2>1. e \in Nat
    BY WrapType, ElapsedIs, ExpiryAssumption DEF TypeOK, Adjusted, Now
  <2> HIDE DEF e
  <2> QED
    BY <2>1, Sizes, Typed DEF Shrunk
<1>3. e \in Nat /\ 2 * e < WordSize => (expired <=> Now > e - p \/ e = 0)
  BY <1>1, Compared
<1>4. /\ expires' = e /\ preRefresh' = p
      /\ answer' = IF expired THEN "expired" ELSE "valid"
      /\ uptime' = uptime /\ ahead' = ahead /\ lastMillis' = lastMillis
      /\ token'.diesAt = token.diesAt /\ token'.shown = token.shown
      /\ token'.jumped = token.jumped
      /\ token'.refused = (token.refused \/ expired)
      /\ token'.wrapped =
           (token.wrapped \/ (e # expires /\ uptime - lastMillis >= MilliSpan))
  BY IsExpiredFields
<1>5. expired \in BOOLEAN /\ (e = 0 => expired)
  OBVIOUS
<1>6. expires = 0 \/ expires >= DefaultTS => e = expires
  BY Sizes, Typed DEF Adjusted
<1>7. ~ClockSet => e = expires
  BY DEF Adjusted
<1>8. ClockInv'
  BY <1>4 DEF ExpiryInv, ClockInv
<1>9. Now = uptime + ahead
  BY DEF Now
<1>10. CASE expires > 0 /\ expires < DefaultTS /\ ClockSet
  <2>1. /\ e = expires + Epoch + uptime - Elapsed - Margin
        /\ e > expires /\ e >= DefaultTS /\ 2 * e < WordSize /\ e \in Nat
    BY <1>10, Moves DEF ExpiryInv
  <2>2. ahead = Epoch
    BY <1>10, SetAhead DEF ExpiryInv
  <2>3. /\ Elapsed \in Nat /\ Elapsed <= uptime - lastMillis
        /\ uptime - lastMillis < MilliSpan => Elapsed = uptime - lastMillis
    BY ElapsedIs, Typed
  <2>4. /\ expires + lastMillis <= token.diesAt + token.shown /\ expires >= token.diesAt
    BY <1>10 DEF ExpiryInv, UnsetInv
  <2> HIDE DEF e, p, expired
  <2>5. Late \in Nat /\ token.shown - Margin <= Late
        /\ (token.shown <= Margin => Late = 0)
    BY Sizes, Typed DEF Late
  <2>6. e >= Epoch + token.diesAt - Margin
    BY <2>1, <2>3, <2>4, Sizes, Typed
  <2>7. ~token'.wrapped => ~token.wrapped /\ Elapsed = uptime - lastMillis
    <3>1. e # expires
      BY <2>1, Typed
    <3>2. ~token'.wrapped => ~token.wrapped /\ ~(uptime - lastMillis >= MilliSpan)
      BY <1>4, <3>1, Zenon
    <3>3. ~(uptime - lastMillis >= MilliSpan) => uptime - lastMillis < MilliSpan
      BY ExpiryAssumption, Typed
    <3> QED
      BY <2>3, <3>2, <3>3
  <2>8. ~token'.wrapped => e <= Epoch + token.diesAt + Late
    <3>1. Elapsed = uptime - lastMillis => e = expires + Epoch + lastMillis - Margin
      BY <2>1, Sizes, Typed
    <3>2. e = expires + Epoch + lastMillis - Margin => e <= Epoch + token.diesAt + Late
      BY <2>1, <2>4, <2>5, Sizes, Typed
    <3> QED
      BY <2>7, <3>1, <3>2
  <2>9. expired <=> uptime + Epoch + p > e
    BY <1>1, <1>3, <1>9, <2>1, <2>2, Sizes, Typed
  <2>10. token.refused /\ ~token.wrapped /\ ~token.jumped /\ token.shown <= Margin =>
           p = preRefresh /\ uptime + p > token.diesAt
    <3>1. token.refused /\ ~token.wrapped /\ ~token.jumped /\ token.shown <= Margin =>
            /\ preRefresh <= expires \/ preRefresh = MinRefresh
            /\ uptime + preRefresh > token.diesAt
      BY <1>10 DEF ExpiryInv, RefusedInv
    <3>2. preRefresh <= expires => preRefresh <= e
      BY <2>1, Typed
    <3> QED
      BY <1>2, <3>1, <3>2
  <2>11. Late' = Late
    BY <1>4 DEF Late
  <2>12. token.refused /\ ~token'.wrapped /\ ~token.jumped /\ token.shown <= Margin
           => expired
    BY <1>1, <2>1, <2>5, <2>7, <2>8, <2>9, <2>10, Sizes, Typed
  <2>13. SetInv'
    BY <1>4, <2>1, <2>2, <2>6, <2>8, <2>11 DEF SetInv
  <2>14. UnsetInv' /\ ZeroInv'
    BY <1>4, <2>1, Sizes, Typed DEF UnsetInv, ZeroInv
  <2>15. RefusedInv'
    BY <1>2, <1>4, <2>1, <2>9, <2>12, Sizes, Typed DEF RefusedInv
  <2>16. TrustedAtMost'
    BY <1>1, <1>4, <2>1, <2>5, <2>8, <2>9, <2>11, Sizes, Typed DEF TrustedAtMost
  <2>17. ExpiredAtMostEarly'
    BY <1>1, <1>4, <2>1, <2>6, <2>9, Sizes, Typed DEF ExpiredAtMostEarly
  <2>18. StaysExpired'
    BY <1>4, <2>12 DEF StaysExpired
  <2> QED
    BY <1>8, <2>13, <2>14, <2>15, <2>16, <2>17, <2>18 DEF ExpiryInv, Answers
<1>11. CASE expires > 0 /\ expires < DefaultTS /\ ~ClockSet
  <2>1. e = expires
    BY <1>7, <1>11
  <2> HIDE DEF e, p, expired
  <2>2. ahead # Epoch
    BY <1>11, SetAhead DEF ExpiryInv
  <2>3. /\ expires <= UnsetLimit /\ expires <= token.diesAt + ahead
        /\ expires + lastMillis <= token.diesAt + token.shown /\ expires >= token.diesAt
        /\ ~token.jumped => expires = token.diesAt + ahead
    BY <1>11, <2>2 DEF ExpiryInv, UnsetInv
  <2>4. 2 * e < WordSize /\ e \in Nat /\ e > 0
    BY <1>11, <2>1, <2>3, Sizes, Typed
  <2>5. expired <=> uptime + ahead + p > e
    BY <1>1, <1>3, <1>9, <2>4, Sizes, Typed
  <2>6. ~token.jumped => (expired <=> uptime + p > token.diesAt)
    BY <1>1, <2>1, <2>3, <2>5, Typed
  <2>7. /\ token.refused /\ ~token.wrapped /\ ~token.jumped /\ token.shown <= Margin
             => expired
        /\ p <= e \/ p = MinRefresh
    <3>1. token.refused /\ ~token.wrapped /\ ~token.jumped /\ token.shown <= Margin =>
            /\ preRefresh <= e \/ preRefresh = MinRefresh
            /\ uptime + preRefresh > token.diesAt
      BY <1>11, <2>1 DEF ExpiryInv, RefusedInv
    <3> QED
      BY <1>2, <2>4, <2>6, <3>1
  <2>8. UnsetInv'
    BY <1>4, <1>11, <2>1, <2>2, <2>3 DEF UnsetInv, UnsetLimit
  <2>9. SetInv' /\ ZeroInv'
    BY <1>4, <1>11, <2>1, Sizes, Typed DEF SetInv, ZeroInv
  <2>10. RefusedInv'
    BY <1>4, <1>11, <2>1, <2>6, <2>7, Sizes, Typed DEF RefusedInv
  <2>11. Late \in Nat /\ Late' = Late
    BY <1>4, Sizes, Typed DEF Late
  <2>12. TrustedAtMost'
    BY <1>1, <1>4, <2>1, <2>3, <2>5, <2>11, Sizes, Typed DEF TrustedAtMost
  <2>13. ExpiredAtMostEarly'
    BY <1>1, <1>4, <2>6, Sizes, Typed DEF ExpiredAtMostEarly
  <2>14. StaysExpired'
    BY <1>4, <2>7 DEF StaysExpired
  <2> QED
    BY <1>8, <2>8, <2>9, <2>10, <2>12, <2>13, <2>14 DEF ExpiryInv, Answers
<1> HIDE DEF e, p, expired
<1>12. CASE expires = 0
  <2>1. expires' = 0 /\ answer' = "expired" /\ token.diesAt <= uptime
    BY <1>4, <1>5, <1>6, <1>12 DEF ExpiryInv, ZeroInv
  <2> QED
    BY <1>4, <1>8, <2>1, Sizes, Typed DEF ExpiryInv, UnsetInv, SetInv, ZeroInv,
       RefusedInv, Answers, TrustedAtMost, ExpiredAtMostEarly, StaysExpired
<1>13. CASE expires >= DefaultTS
  <2>1. /\ ahead = Epoch /\ 2 * expires < WordSize /\ e = expires
        /\ ~token.wrapped => expires <= Epoch + token.diesAt + Late
        /\ expires >= Epoch + token.diesAt - Margin
    BY <1>6, <1>13 DEF ExpiryInv, SetInv
  <2>2. e \in Nat /\ e > 0 /\ 2 * e < WordSize
    BY <1>13, <2>1, Sizes, Typed
  <2>3. expired <=> uptime + Epoch + p > e
    BY <1>1, <1>3, <1>9, <2>1, <2>2, Sizes, Typed
  <2>4. token.refused /\ ~token.wrapped /\ ~token.jumped /\ token.shown <= Margin => expired
    <3>1. token.refused /\ ~token.wrapped /\ ~token.jumped /\ token.shown <= Margin =>
            /\ preRefresh <= e \/ preRefresh = MinRefresh
            /\ uptime + Epoch + preRefresh > e
      BY <1>13, <2>1, <2>2 DEF ExpiryInv, RefusedInv
    <3> QED
      BY <1>2, <2>3, <3>1
  <2>5. Late \in Nat /\ Late' = Late
    BY <1>4, Sizes, Typed DEF Late
  <2>6. token'.wrapped = token.wrapped
    BY <1>4, <2>1, Typed
  <2>7. UnsetInv' /\ ZeroInv'
    BY <1>4, <1>13, <2>1, <2>2, Sizes, Typed DEF UnsetInv, ZeroInv
  <2>8. SetInv'
    BY <1>4, <2>1, <2>5, <2>6 DEF SetInv
  <2>9. RefusedInv'
    BY <1>2, <1>4, <1>13, <2>1, <2>2, <2>3, <2>4, <2>6, Sizes, Typed DEF RefusedInv
  <2>10. TrustedAtMost'
    BY <1>1, <1>4, <2>1, <2>3, <2>5, <2>6, Sizes, Typed DEF TrustedAtMost
  <2>11. ExpiredAtMostEarly'
    BY <1>1, <1>4, <2>1, <2>3, Sizes, Typed DEF ExpiredAtMostEarly
  <2>12. StaysExpired'
    BY <1>4, <2>4, <2>6 DEF StaysExpired
  <2> QED
    BY <1>8, <2>7, <2>8, <2>9, <2>10, <2>11, <2>12 DEF ExpiryInv, Answers
<1> QED
  <2>1. \/ expires = 0
        \/ expires >= DefaultTS
        \/ expires > 0 /\ expires < DefaultTS
    BY Sizes, Typed
  <2> QED
    BY <2>1, <1>10, <1>11, <1>12, <1>13

-----------------------------------------------------------------------------
(* Theorems *)

\* The invariant of a run.
IInv == TypeOK /\ ExpiryInv /\ Answers

\* Every step keeps it; only isExpired() gives an answer.
LEMMA IInvNext == IInv /\ [Next]_vars => IInv'
<1> SUFFICES ASSUME TypeOK, ExpiryInv, Answers, [Next]_vars PROVE ExpiryInv' /\ Answers'
  BY TypeNext DEF IInv, ExpiryInv
<1>1. answer' = "none" => Answers'
  BY DEF Answers, TrustedAtMost, ExpiredAtMostEarly, StaysExpired
<1>2. CASE Tick
  BY <1>1, <1>2, TickKeeps DEF Tick
<1>3. CASE SetClock \/ BeginTimeZone
  BY <1>1, <1>3, ClockKeeps DEF SetClock, BeginTimeZone
<1>4. CASE Forget
  BY <1>1, <1>4, ForgetKeeps DEF Forget
<1>5. CASE IsExpired
  BY <1>5, ExpiredKeeps
<1>6. ASSUME NEW life \in Lifetimes, Grant(life) PROVE ExpiryInv' /\ Answers'
  BY <1>1, <1>6, GrantKeeps DEF Grant
<1>7. ASSUME NEW interval \in Intervals, Assign(interval) PROVE ExpiryInv' /\ Answers'
  BY <1>1, <1>7, AssignKeeps DEF Assign
<1>8. CASE UNCHANGED vars
  BY <1>8 DEF vars, ExpiryInv, ClockInv, UnsetInv, SetInv, ZeroInv, RefusedInv, Late,
     Answers, TrustedAtMost, ExpiredAtMostEarly, StaysExpired
<1> QED
  BY <1>2, <1>3, <1>4, <1>5, <1>6, <1>7, <1>8 DEF Next

\* The invariant holds throughout.
LEMMA IInvHolds == Spec => []IInv
<1>1. Init => IInv
  <2> SUFFICES ASSUME Init PROVE IInv
    OBVIOUS
  <2>1. /\ uptime = 0 /\ ahead = 0 /\ expires = 0 /\ answer = "none" /\ lastMillis = 0
        /\ preRefresh = PreRefresh /\ token = NoToken
    BY DEF Init
  <2>2. TypeOK
    BY <2>1, ExpiryAssumption DEF TypeOK, Tokens, NoToken
  <2>3. ClockInv
    BY <2>1, ExpiryAssumption DEF ClockInv
  <2>4. token.diesAt = 0
    BY <2>1 DEF NoToken
  <2> QED
    BY <2>1, <2>2, <2>3, <2>4, Sizes DEF IInv, ExpiryInv, UnsetInv, SetInv, ZeroInv,
       RefusedInv, Answers, TrustedAtMost, ExpiredAtMostEarly, StaysExpired
<1> QED
  BY <1>1, IInvNext, PTL DEF Spec

\* The variables keep their types.
THEOREM ExpiryTypeCorrect == Spec => []TypeOK
  BY IInvHolds, PTL DEF IInv

\* isExpired() trusts no token after it has expired, save for what an unset clock
\* showed when it was stored, less a minute.
THEOREM TrustedCorrect == Spec => []TrustedAtMost
  BY IInvHolds, PTL DEF IInv, Answers

\* isExpired() gives up no token earlier than the pre-refresh interval and a minute
\* before it expires.
THEOREM EarlyCorrect == Spec => []ExpiredAtMostEarly
  BY IInvHolds, PTL DEF IInv, Answers

\* Setting the clock does not revive a token that was called expired.
THEOREM StaysExpiredCorrect == Spec => []StaysExpired
  BY IInvHolds, PTL DEF IInv, Answers

=============================================================================
