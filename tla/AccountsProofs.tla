---------------------------- MODULE AccountsProofs ----------------------------
(***************************************************************************)
(* Theorems about Accounts for any number of users, calls, logins, kills   *)
(* of the app and network errors, any limits and any lifetimes of the      *)
(* tokens.                                                                 *)
(*                                                                         *)
(* The limits rest on the calendar day of a counter: it counts at least    *)
(* the requests of that day that passed, and outlives the day (QuotaInv).  *)
(* The session rests on what the app holds before one begins: between a    *)
(* start and a login nothing but the stored tokens, which are one user's   *)
(* (OwnerInv), and in a session that went well a refresh token (LastInv).  *)
(***************************************************************************)
EXTENDS Accounts, SequenceTheorems, TLAPS

-----------------------------------------------------------------------------
(* The inductive invariant.                                                *)

Token == [user : Users \cup {None}, expires : Nat]
Stages == {"idle", "sent", "unauthorized", "refreshing", "saving", "erasing", "retrying"}

LimitsTypeInv ==
    /\ now \in Times
    /\ quota \in [Keys -> [day : Nat, count : Nat, expires : Nat]]
    /\ passed \in [Keys -> Seq(Times)]

SessionTypeInv ==
    /\ screen \in {"starting", "clearing", "login", "app"}
    /\ api \in Token /\ shown \in Token
    /\ stored \in [access : Token, refresh : Token]
    /\ call \in [Calls -> [at : Stages, token : Token, refresh : Token]]
    /\ login \in [at : {"idle", "granted", "half"}, access : Token, refresh : Token]
    /\ logins \in Nat /\ restarts \in Nat /\ errors \in Nat
    /\ lapsed \in BOOLEAN /\ torn \in BOOLEAN

\* A counter is of today or an earlier day, and lives until that day is over.
QuotaInv ==
    \A k \in Keys :
        /\ quota[k].day * Day <= now
        /\ quota[k].count > 0 => quota[k].expires >= quota[k].day * Day + Day

\* What passed is in order, not younger than the counter, and what is of its day is counted.
PassedInv ==
    \A k \in Keys : \A i \in DOMAIN passed[k] :
        /\ passed[k][i] <= now
        /\ passed[k][i] \div Day <= quota[k].day
        /\ passed[k][i] \div Day = quota[k].day => Len(passed[k]) < i + quota[k].count
        /\ \A j \in DOMAIN passed[k] : i <= j => passed[k][i] <= passed[k][j]

\* Requests as many as the limit apart passed on two days.
DaysInv ==
    \A k \in Keys : \A i, j \in DOMAIN passed[k] :
        j >= i + Limit(k) => passed[k][i] \div Day # passed[k][j] \div Day

\* What the app holds on its way to a session.
ScreenInv ==
    /\ screen \in {"starting", "clearing"} =>
          api = NoToken /\ login = NoLogin /\ \A c \in Calls : call[c] = NoCall
    /\ login.at # "idle" => screen = "login" /\ login.access.user = login.refresh.user
    /\ login.at = "half" => shown = login.access
    /\ screen = "app" \/ login.at = "half" => stored.access = shown
    /\ screen = "clearing" \/ (screen = "login" /\ login.at # "half") => stored.access = NoToken

\* Whose session it is or is about to be.
Owner ==
    IF screen = "app" \/ login.at = "half" THEN shown.user
    ELSE IF screen = "starting" THEN stored.access.user
    ELSE IF screen = "clearing" THEN stored.refresh.user
    ELSE None

OwnerInv ==
    ~torn =>
        /\ {api.user, stored.access.user, stored.refresh.user} \subseteq {Owner, None}
        /\ \A c \in Calls : {call[c].token.user, call[c].refresh.user} \subseteq {Owner, None}

\* Without a failure a session has a refresh token, and no call is about to erase it.
LastInv ==
    errors = 0 /\ ~lapsed /\ ~torn =>
        /\ \A c \in Calls : call[c].at # "erasing"
        /\ \A c \in Calls : call[c].at = "saving" => call[c].refresh.user # None
        /\ screen = "app" => stored.refresh.user # None
        /\ screen = "starting" => stored.access = NoToken \/ stored.refresh.user # None
        /\ login.at # "idle" => login.refresh.user # None

LimitsInv == LimitsTypeInv /\ QuotaInv /\ PassedInv /\ DaysInv
SessionInv == SessionTypeInv /\ ScreenInv /\ OwnerInv /\ LastInv

-----------------------------------------------------------------------------
(* Days.                                                                   *)

\* A time lies within its day.
LEMMA DayBounds ==
    ASSUME NEW t \in Nat
    PROVE  t \div Day \in Nat /\ (t \div Day) * Day <= t /\ t < (t \div Day) * Day + Day
  BY LimitsAssumption

\* Later days begin a day later at least.
LEMMA DayStarts ==
    ASSUME NEW d \in Nat, NEW e \in Nat, d < e
    PROVE  d * Day + Day <= e * Day
  <1>1. PICK n \in Nat : e = d + 1 + n
    <2>1. e - d - 1 \in Nat /\ e = d + 1 + (e - d - 1)
      OBVIOUS
    <2> QED
      BY <2>1
  <1>2. n * Day >= 0 /\ n * Day \in Nat /\ d * Day \in Nat
    BY LimitsAssumption
  <1>3. e * Day = d * Day + Day + n * Day
    BY <1>1, LimitsAssumption
  <1> QED
    BY <1>2, <1>3, LimitsAssumption

\* A day that has begun is today or an earlier one.
LEMMA BegunDay ==
    ASSUME NEW t \in Nat, NEW d \in Nat, d * Day <= t
    PROVE  d <= t \div Day
  <1> SUFFICES ASSUME t \div Day < d PROVE FALSE
    BY DayBounds
  <1>1. (t \div Day) * Day + Day <= d * Day
    BY DayStarts, DayBounds
  <1>2. (t \div Day) * Day \in Nat /\ d * Day \in Nat
    BY LimitsAssumption, DayBounds
  <1> QED
    BY <1>1, <1>2, DayBounds, LimitsAssumption

\* Later times are of the same day or later ones.
LEMMA DayMonotone ==
    ASSUME NEW s \in Nat, NEW t \in Nat, s <= t
    PROVE  s \div Day <= t \div Day
  <1>1. (s \div Day) * Day \in Nat
    BY LimitsAssumption, DayBounds
  <1> QED
    BY <1>1, DayBounds, BegunDay

\* Two days apart is a day apart at least.
LEMMA TwoDaysApart ==
    ASSUME NEW s \in Nat, NEW t \in Nat, (s \div Day) + 1 < t \div Day
    PROVE  t >= s + Day
  <1>1. ((s \div Day) + 1) * Day + Day <= (t \div Day) * Day
    BY DayStarts, DayBounds
  <1>2. ((s \div Day) + 1) * Day = (s \div Day) * Day + Day
    BY DayBounds, LimitsAssumption
  <1>3. (s \div Day) * Day \in Nat /\ (t \div Day) * Day \in Nat
    BY LimitsAssumption, DayBounds
  <1> QED
    BY <1>1, <1>2, <1>3, DayBounds, LimitsAssumption

-----------------------------------------------------------------------------
(* The limits.                                                             *)

\* A counter of today has not expired.
LEMMA CountOfToday ==
    ASSUME LimitsTypeInv, QuotaInv, NEW k \in Keys
    PROVE  /\ Count(k) \in Nat /\ Today \in Nat /\ now \in Nat
           /\ quota[k].day \in Nat /\ quota[k].count \in Nat /\ quota[k].expires \in Nat
           /\ quota[k].day <= Today
           /\ quota[k].day = Today => Count(k) = quota[k].count
  <1>1. /\ now \in Nat
        /\ quota[k].day \in Nat /\ quota[k].count \in Nat /\ quota[k].expires \in Nat
    BY LimitsAssumption DEF LimitsTypeInv, Times
  <1>2. Count(k) \in Nat
    BY <1>1 DEF Count
  <1>3. Today \in Nat /\ now < Today * Day + Day
    BY <1>1, DayBounds DEF Today
  <1>4. quota[k].day <= Today
    BY <1>1, BegunDay DEF QuotaInv, Today
  <1>5. ASSUME quota[k].day = Today PROVE Count(k) = quota[k].count
    <2>1. CASE quota[k].count = 0
      BY <2>1 DEF Count
    <2>2. CASE quota[k].count > 0
      <3>1. quota[k].expires >= Today * Day + Day
        BY <1>5, <2>2 DEF QuotaInv
      <3>2. Today * Day + Day \in Nat
        BY <1>3, LimitsAssumption
      <3>3. now < quota[k].expires
        BY <1>1, <1>3, <3>1, <3>2
      <3> QED
        BY <1>5, <3>3 DEF Count
    <2> QED
      BY <1>1, <2>1, <2>2
  <1> QED
    BY <1>1, <1>2, <1>3, <1>4, <1>5

\* The requests that passed, and one more.
LEMMA PassedNow ==
    ASSUME LimitsTypeInv, NEW k \in Keys
    PROVE  /\ passed[k] \in Seq(Times) /\ DOMAIN passed[k] = 1..Len(passed[k]) /\ Len(passed[k]) \in Nat
           /\ \A i \in DOMAIN passed[k] : passed[k][i] \in Nat /\ passed[k][i] \div Day \in Nat
           /\ Append(passed[k], now) \in Seq(Times)
           /\ DOMAIN Append(passed[k], now) = 1..(Len(passed[k]) + 1)
           /\ Len(Append(passed[k], now)) = Len(passed[k]) + 1
           /\ \A i \in DOMAIN passed[k] : Append(passed[k], now)[i] = passed[k][i]
           /\ Append(passed[k], now)[Len(passed[k]) + 1] = now
  <1>1. passed[k] \in Seq(Times) /\ now \in Times
    BY DEF LimitsTypeInv
  <1>2. \A i \in DOMAIN passed[k] : passed[k][i] \in Times
    BY <1>1, ElementOfSeq, LenProperties
  <1>3. \A i \in DOMAIN passed[k] : passed[k][i] \in Nat
    BY <1>2, LimitsAssumption DEF Times
  <1>4. \A i \in DOMAIN passed[k] : passed[k][i] \div Day \in Nat
    BY <1>3, DayBounds
  <1> QED
    BY <1>1, <1>3, <1>4, AppendProperties, LenProperties

\* A key's counter and passes, after it was left alone, counted, or counted and passed.
LEMMA CountedOrPassed ==
    ASSUME LimitsTypeInv, NEW u \in Users, NEW ip \in Addresses, enforce(u, ip), NEW k \in Keys
    PROVE  \/ quota'[k] = quota[k] /\ passed'[k] = passed[k]
           \/ quota'[k] = Incremented(k) /\ passed'[k] = passed[k]
           \/ /\ quota'[k] = Incremented(k) /\ passed'[k] = Append(passed[k], now)
              /\ Count(k) < Limit(k)
  <1>1. /\ quota'[k] = IF k = u \/ (k = ip /\ ~Exceeded(ip)) THEN Incremented(k) ELSE quota[k]
        /\ passed'[k] = IF ~Exceeded(ip) /\ k \in {u, ip} THEN Append(passed[k], now) ELSE passed[k]
        /\ ~Exceeded(u)
    BY DEF enforce
  <1>2. ~Exceeded(k) => Count(k) < Limit(k)
    <2>1. Count(k) \in Int /\ Limit(k) \in Int
      BY LimitsAssumption DEF LimitsTypeInv, Count, Limit
    <2> QED
      BY <2>1 DEF Exceeded
  <1> QED
    BY <1>1, <1>2

LEMMA EnforceTypes ==
    ASSUME LimitsTypeInv, QuotaInv, NEW u \in Users, NEW ip \in Addresses, enforce(u, ip)
    PROVE  /\ quota' \in [Keys -> [day : Nat, count : Nat, expires : Nat]]
           /\ passed' \in [Keys -> Seq(Times)]
  <1>1. \A k \in Keys : Incremented(k) \in [day : Nat, count : Nat, expires : Nat]
    BY CountOfToday, LimitsAssumption DEF Incremented
  <1>2. \A k \in Keys : Append(passed[k], now) \in Seq(Times)
    BY PassedNow
  <1>3. quota' \in [Keys -> [day : Nat, count : Nat, expires : Nat]]
    BY <1>1 DEF enforce, LimitsTypeInv
  <1>4. passed' \in [Keys -> Seq(Times)]
    BY <1>2 DEF enforce, LimitsTypeInv
  <1> QED
    BY <1>3, <1>4

LEMMA EnforceQuota ==
    ASSUME LimitsTypeInv, QuotaInv, NEW u \in Users, NEW ip \in Addresses, enforce(u, ip), UNCHANGED now
    PROVE  QuotaInv'
  <1> SUFFICES ASSUME NEW k \in Keys
               PROVE  /\ quota'[k].day * Day <= now
                      /\ quota'[k].count > 0 => quota'[k].expires >= quota'[k].day * Day + Day
    BY DEF QuotaInv
  <1>1. now \in Nat /\ Today * Day <= now /\ Today \in Nat /\ Today * Day \in Nat
    BY CountOfToday, DayBounds, LimitsAssumption DEF Today
  <1>2. CASE quota'[k] = quota[k]
    BY <1>2 DEF QuotaInv
  <1>3. CASE quota'[k] = Incremented(k)
    <2>1. quota'[k].day = Today /\ quota'[k].expires = now + Day
      BY <1>3 DEF Incremented
    <2> QED
      BY <1>1, <2>1, LimitsAssumption
  <1> QED
    BY <1>2, <1>3, CountedOrPassed

\* What is counted today: the key's passes of today, and the one more.
LEMMA EnforcePassed ==
    ASSUME LimitsTypeInv, QuotaInv, PassedInv, NEW u \in Users, NEW ip \in Addresses, enforce(u, ip),
           UNCHANGED now
    PROVE  PassedInv'
  <1> SUFFICES ASSUME NEW k \in Keys, NEW i \in DOMAIN passed'[k]
               PROVE  /\ passed'[k][i] <= now
                      /\ passed'[k][i] \div Day <= quota'[k].day
                      /\ passed'[k][i] \div Day = quota'[k].day => Len(passed'[k]) < i + quota'[k].count
                      /\ \A j \in DOMAIN passed'[k] : i <= j => passed'[k][i] <= passed'[k][j]
    BY DEF PassedInv
  <1> USE PassedNow, CountOfToday
  <1>1. CASE quota'[k] = quota[k] /\ passed'[k] = passed[k]
    BY <1>1 DEF PassedInv
  <1>2. CASE quota'[k] = Incremented(k)
    <2>1. quota'[k].day = Today /\ quota'[k].count = Count(k) + 1
      BY <1>2 DEF Incremented
    <2>2. ASSUME NEW m \in DOMAIN passed[k]
          PROVE  /\ passed[k][m] \div Day <= Today
                 /\ passed[k][m] \div Day = Today => Len(passed[k]) < m + Count(k)
      <3>1. /\ passed[k][m] \div Day <= quota[k].day
            /\ passed[k][m] \div Day = quota[k].day => Len(passed[k]) < m + quota[k].count
            /\ passed[k][m] \div Day \in Nat
        BY DEF PassedInv
      <3> QED
        BY <3>1
    <2>3. CASE passed'[k] = passed[k]
      <3>1. /\ passed[k][i] \div Day <= Today
            /\ passed[k][i] \div Day = Today => Len(passed[k]) < i + Count(k)
            /\ i \in Nat
        BY <2>2, <2>3
      <3> QED
        BY <2>1, <2>3, <3>1 DEF PassedInv
    <2>4. CASE passed'[k] = Append(passed[k], now)
      <3>1. CASE i \in DOMAIN passed[k]
        <4>1. /\ passed[k][i] \div Day <= Today
              /\ passed[k][i] \div Day = Today => Len(passed[k]) < i + Count(k)
              /\ passed'[k][i] = passed[k][i] /\ passed[k][i] <= now /\ i \in Nat
          BY <2>2, <2>4, <3>1 DEF PassedInv
        <4>2. \A j \in DOMAIN passed'[k] : i <= j => passed'[k][i] <= passed'[k][j]
          BY <2>4, <3>1 DEF PassedInv
        <4>3. Len(passed'[k]) = Len(passed[k]) + 1
          BY <2>4
        <4> QED
          BY <2>1, <4>1, <4>2, <4>3
      <3>2. CASE i = Len(passed[k]) + 1
        <4>1. passed'[k][i] = now /\ now \div Day = Today
          BY <2>4, <3>2 DEF Today
        <4>2. \A j \in DOMAIN passed'[k] : i <= j => j = i
          BY <2>4, <3>2
        <4> QED
          BY <2>1, <2>4, <3>2, <4>1, <4>2
      <3> QED
        BY <2>4, <3>1, <3>2
    <2> QED
      BY <1>2, <2>3, <2>4, CountedOrPassed
  <1> QED
    BY <1>1, <1>2, CountedOrPassed

\* A request that passes today is less than the limit away from the first of today.
LEMMA EnforceDays ==
    ASSUME LimitsTypeInv, QuotaInv, PassedInv, DaysInv,
           NEW u \in Users, NEW ip \in Addresses, enforce(u, ip)
    PROVE  DaysInv'
  <1> SUFFICES ASSUME NEW k \in Keys, NEW i \in DOMAIN passed'[k], NEW j \in DOMAIN passed'[k],
                      j >= i + Limit(k)
               PROVE  passed'[k][i] \div Day # passed'[k][j] \div Day
    BY DEF DaysInv, Limit
  <1> USE PassedNow, CountOfToday
  <1>1. CASE passed'[k] = passed[k]
    BY <1>1 DEF DaysInv
  <1>2. CASE passed'[k] = Append(passed[k], now) /\ Count(k) < Limit(k)
    <2>0. Limit(k) \in Nat
      BY LimitsAssumption DEF Limit
    <2>1. CASE j \in DOMAIN passed[k]
      <3>1. i \in DOMAIN passed[k]
        BY <1>2, <2>0, <2>1
      <3> QED
        BY <1>2, <2>1, <3>1 DEF DaysInv
    <2>2. CASE j = Len(passed[k]) + 1
      <3>1. i \in DOMAIN passed[k] /\ i + Limit(k) <= Len(passed[k]) + 1
        BY <1>2, <2>0, <2>2
      <3>2. passed[k][i] \div Day # Today
        <4>1. SUFFICES ASSUME passed[k][i] \div Day = Today PROVE FALSE
          OBVIOUS
        <4>2. passed[k][i] \div Day <= quota[k].day
          BY <3>1 DEF PassedInv
        <4>3. quota[k].day = Today
          BY <4>1, <4>2
        <4>4. Len(passed[k]) < i + Count(k)
          BY <3>1, <4>1, <4>3 DEF PassedInv
        <4> QED
          BY <1>2, <2>0, <3>1, <4>4
      <3> QED
        BY <1>2, <2>2, <3>1, <3>2 DEF Today
    <2> QED
      BY <1>2, <2>1, <2>2
  <1> QED
    BY <1>1, <1>2, CountedOrPassed

\* Only the clock and the requests that are served touch the limits.
LEMMA LimitsStep ==
    ASSUME SessionTypeInv, [Next]_vars
    PROVE  \/ UNCHANGED <<quota, passed>> /\ (now' = now \/ (now < MaxTime /\ now' = now + 1))
           \/ UNCHANGED now /\ \E u \in Users, ip \in Addresses : enforce(u, ip)
  <1> USE DEF limitVars
  <1>1. ASSUME NEW c \in Calls, Accepted(call[c].token), Serve(call[c].token.user)
        PROVE  UNCHANGED <<quota, passed>> \/ \E u \in Users, ip \in Addresses : enforce(u, ip)
    <2>1. call[c].token.user \in Users
      BY <1>1 DEF SessionTypeInv, Token, Accepted
    <2> QED
      BY <1>1, <2>1, AccountsAssumption DEF Serve
  <1>2. ASSUME NEW c \in Calls, answer(c) \/ retry(c)
        PROVE  /\ UNCHANGED now
               /\ UNCHANGED <<quota, passed>> \/ \E u \in Users, ip \in Addresses : enforce(u, ip)
    BY <1>1, <1>2 DEF answer, retry
  <1>3. CASE UNCHANGED vars
    BY <1>3 DEF vars
  <1>4. CASE Next
    BY <1>2, <1>4
    DEF Next, Tick, register, update_user_role, restore_tokens, clear_tokens, log_in, set_access,
        set_refresh, restart, login_refused, api_request, get_refresh_token, refresh, refresh_fails,
        set_refresh_token, clear_refresh_token
  <1> QED
    BY <1>3, <1>4

\* Every step keeps the limits.
LEMMA LimitsKept ==
    ASSUME LimitsInv, SessionTypeInv, [Next]_vars
    PROVE  LimitsInv'
  <1> USE DEF LimitsInv
  <1>1. CASE UNCHANGED <<quota, passed>> /\ (now' = now \/ (now < MaxTime /\ now' = now + 1))
    <2>1. now \in Nat /\ now' \in Times /\ now <= now' /\ now' \in Nat
      BY <1>1, LimitsAssumption DEF LimitsTypeInv, Times
    <2>2. LimitsTypeInv' /\ DaysInv'
      BY <1>1, <2>1 DEF LimitsTypeInv, DaysInv, Limit, Times
    <2>3. \A k \in Keys : quota[k].day * Day \in Nat
      BY LimitsAssumption DEF LimitsTypeInv
    <2>4. QuotaInv'
      BY <1>1, <2>1, <2>3 DEF QuotaInv
    <2>5. \A k \in Keys : \A i \in DOMAIN passed[k] : passed[k][i] \in Nat
      BY PassedNow
    <2>6. PassedInv'
      BY <1>1, <2>1, <2>5 DEF PassedInv
    <2> QED
      BY <2>2, <2>4, <2>6
  <1>2. ASSUME NEW u \in Users, NEW ip \in Addresses, enforce(u, ip), UNCHANGED now
        PROVE  LimitsInv'
    <2>1. LimitsTypeInv'
      BY <1>2, EnforceTypes DEF LimitsTypeInv, Times
    <2> QED
      BY <1>2, <2>1, EnforceQuota, EnforcePassed, EnforceDays
  <1> QED
    BY <1>1, <1>2, LimitsStep

-----------------------------------------------------------------------------
(* The session.                                                            *)

LEMMA NoTokenType ==
    /\ NoToken \in Token /\ NoToken.user = None
    /\ NoCall \in [at : Stages, token : Token, refresh : Token]
    /\ NoCall.at = "idle" /\ NoCall.token = NoToken /\ NoCall.refresh = NoToken
    /\ NoLogin \in [at : {"idle", "granted", "half"}, access : Token, refresh : Token]
    /\ NoLogin.at = "idle"
  BY DEF NoToken, NoCall, NoLogin, Token, Stages

LEMMA NewTokens ==
    ASSUME LimitsTypeInv, NEW u \in Users \cup {None}
    PROVE  /\ Access(u) \in Token /\ Access(u).user = u
           /\ Refresh(u) \in Token /\ Refresh(u).user = u
  BY AccountsAssumption, LimitsAssumption DEF LimitsTypeInv, Times, Access, Refresh, Token

LEMMA Session_quiet ==
    ASSUME SessionInv, UNCHANGED <<clientVars, boundVars>>
    PROVE  SessionInv'
  <1> USE DEF clientVars, boundVars, SessionInv
  <1>1. SessionTypeInv'
    BY DEF SessionTypeInv
  <1>2. ScreenInv'
    BY DEF ScreenInv
  <1>3. OwnerInv' /\ LastInv'
    BY DEF OwnerInv, Owner, LastInv
  <1> QED
    BY <1>1, <1>2, <1>3

LEMMA Session_restore_tokens ==
    ASSUME SessionInv, restore_tokens
    PROVE  SessionInv'
  <1> USE NoTokenType DEF SessionInv, restore_tokens, boundVars
  <1>1. SessionTypeInv'
    BY DEF SessionTypeInv
  <1>2. ScreenInv'
    BY DEF ScreenInv, SessionTypeInv
  <1>3. OwnerInv'
    BY DEF OwnerInv, Owner, ScreenInv, SessionTypeInv
  <1>4. LastInv'
    BY DEF LastInv, ScreenInv
  <1> QED
    BY <1>1, <1>2, <1>3, <1>4

LEMMA Session_clear_tokens ==
    ASSUME SessionInv, clear_tokens
    PROVE  SessionInv'
  <1> USE NoTokenType DEF SessionInv, clear_tokens, boundVars
  <1>1. SessionTypeInv'
    BY DEF SessionTypeInv
  <1>2. ScreenInv'
    BY DEF ScreenInv, SessionTypeInv
  <1>3. OwnerInv'
    BY DEF OwnerInv, Owner, ScreenInv, SessionTypeInv
  <1>4. LastInv'
    BY DEF LastInv, ScreenInv
  <1> QED
    BY <1>1, <1>2, <1>3, <1>4

LEMMA Session_log_in ==
    ASSUME SessionInv, LimitsTypeInv, NEW u \in Users, log_in(u)
    PROVE  SessionInv'
  <1> USE NoTokenType, NewTokens, AccountsAssumption DEF SessionInv, log_in, FormIdle
  <1>1. SessionTypeInv'
    BY DEF SessionTypeInv
  <1>2. ScreenInv'
    BY DEF ScreenInv, SessionTypeInv
  <1>3. OwnerInv'
    BY DEF OwnerInv, Owner, ScreenInv, SessionTypeInv
  <1>4. LastInv'
    BY DEF LastInv, ScreenInv
  <1> QED
    BY <1>1, <1>2, <1>3, <1>4

LEMMA Session_set_access ==
    ASSUME SessionInv, set_access
    PROVE  SessionInv'
  <1> USE NoTokenType DEF SessionInv, set_access, boundVars
  <1>1. SessionTypeInv'
    BY DEF SessionTypeInv
  <1>2. ScreenInv'
    BY DEF ScreenInv, SessionTypeInv
  <1>3. OwnerInv'
    BY DEF OwnerInv, Owner, ScreenInv, SessionTypeInv
  <1>4. LastInv'
    BY DEF LastInv, ScreenInv, SessionTypeInv
  <1> QED
    BY <1>1, <1>2, <1>3, <1>4

LEMMA Session_set_refresh ==
    ASSUME SessionInv, set_refresh
    PROVE  SessionInv'
  <1> USE NoTokenType DEF SessionInv, set_refresh, boundVars
  <1>1. SessionTypeInv'
    BY DEF SessionTypeInv
  <1>2. ScreenInv'
    BY DEF ScreenInv, SessionTypeInv
  <1>3. OwnerInv'
    BY DEF OwnerInv, Owner, ScreenInv, SessionTypeInv
  <1>4. LastInv'
    BY DEF LastInv, ScreenInv, SessionTypeInv
  <1> QED
    BY <1>1, <1>2, <1>3, <1>4

LEMMA Session_restart ==
    ASSUME SessionInv, restart
    PROVE  SessionInv'
  <1> USE NoTokenType DEF SessionInv, restart
  <1>1. SessionTypeInv'
    BY DEF SessionTypeInv
  <1>2. ScreenInv'
    BY DEF ScreenInv, SessionTypeInv
  <1>3. OwnerInv'
    BY DEF OwnerInv, Owner, ScreenInv, SessionTypeInv
  <1>4. LastInv'
    BY DEF LastInv, ScreenInv, SessionTypeInv
  <1> QED
    BY <1>1, <1>2, <1>3, <1>4

-----------------------------------------------------------------------------
(* The calls of apiRequest.                                                *)

LEMMA Session_login_refused ==
    ASSUME SessionInv, NEW c \in Calls, login_refused(c)
    PROVE  SessionInv'
  <1> USE NoTokenType DEF SessionInv, login_refused, boundVars, FormIdle
  <1>1. SessionTypeInv'
    BY DEF SessionTypeInv, Stages
  <1>2. ScreenInv'
    BY DEF ScreenInv, SessionTypeInv
  <1>3. OwnerInv'
    BY DEF OwnerInv, Owner, ScreenInv, SessionTypeInv
  <1>4. LastInv'
    BY DEF LastInv, ScreenInv, SessionTypeInv
  <1> QED
    BY <1>1, <1>2, <1>3, <1>4

LEMMA Session_api_request ==
    ASSUME SessionInv, NEW c \in Calls, api_request(c)
    PROVE  SessionInv'
  <1> USE NoTokenType DEF SessionInv, api_request, boundVars
  <1>1. SessionTypeInv'
    BY DEF SessionTypeInv, Stages
  <1>2. ScreenInv'
    BY DEF ScreenInv, SessionTypeInv
  <1>3. OwnerInv'
    BY DEF OwnerInv, Owner, ScreenInv, SessionTypeInv
  <1>4. LastInv'
    BY DEF LastInv, ScreenInv, SessionTypeInv
  <1> QED
    BY <1>1, <1>2, <1>3, <1>4

LEMMA Session_answer ==
    ASSUME SessionInv, NEW c \in Calls, answer(c)
    PROVE  SessionInv'
  <1> USE NoTokenType DEF SessionInv, answer, boundVars, Step, Return
  <1>1. SessionTypeInv'
    BY DEF SessionTypeInv, Stages
  <1>2. ScreenInv'
    BY DEF ScreenInv, SessionTypeInv
  <1>3. OwnerInv'
    BY DEF OwnerInv, Owner, ScreenInv, SessionTypeInv
  <1>4. LastInv'
    BY DEF LastInv, ScreenInv, SessionTypeInv
  <1> QED
    BY <1>1, <1>2, <1>3, <1>4

LEMMA Session_get_refresh_token ==
    ASSUME SessionInv, NEW c \in Calls, get_refresh_token(c)
    PROVE  SessionInv'
  <1> USE NoTokenType DEF SessionInv, get_refresh_token, boundVars, Return
  <1>1. SessionTypeInv'
    BY DEF SessionTypeInv, Stages
  <1>2. ScreenInv'
    BY DEF ScreenInv, SessionTypeInv
  <1>3. OwnerInv'
    BY DEF OwnerInv, Owner, ScreenInv, SessionTypeInv
  <1>4. LastInv'
    BY DEF LastInv, ScreenInv, SessionTypeInv
  <1> QED
    BY <1>1, <1>2, <1>3, <1>4

\* New tokens are of the user whose refresh token was accepted.
LEMMA Session_refresh ==
    ASSUME SessionInv, LimitsTypeInv, NEW c \in Calls, refresh(c)
    PROVE  SessionInv'
  <1> DEFINE u == call[c].refresh.user
  <1> USE DEF SessionInv
  <1>1. /\ call[c].at = "refreshing" /\ call[c].refresh \in Token /\ u \in Users \cup {None}
        /\ call \in [Calls -> [at : Stages, token : Token, refresh : Token]]
        /\ UNCHANGED <<screen, shown, stored, login, logins, restarts, errors, torn>>
        /\ lapsed \in BOOLEAN
    BY DEF refresh, SessionTypeInv, Token
  <1>2. CASE /\ api' = NoToken /\ call' = [call EXCEPT ![c].at = "erasing"] /\ lapsed' = TRUE
    <2> USE <1>1, <1>2, NoTokenType
    <2>1. SessionTypeInv'
      BY DEF SessionTypeInv, Stages
    <2>2. ScreenInv'
      BY DEF ScreenInv
    <2>3. OwnerInv' /\ LastInv'
      BY DEF OwnerInv, Owner, LastInv
    <2> QED
      BY <2>1, <2>2, <2>3
  <1>3. ASSUME NEW access, NEW fresh, access = Access(u), fresh = Refresh(u), u # None,
               api' = access, UNCHANGED lapsed,
               call' = [call EXCEPT ![c] = [at |-> "saving", token |-> access, refresh |-> fresh]]
        PROVE  SessionInv'
    <2>1. access \in Token /\ fresh \in Token /\ access.user = u /\ fresh.user = u
      BY <1>1, <1>3, NewTokens
    <2> HIDE DEF u
    <2> USE <1>1, <1>3, <2>1, NoTokenType
    <2>2. SessionTypeInv'
      BY DEF SessionTypeInv, Stages
    <2>3. ScreenInv'
      BY DEF ScreenInv
    <2>4. ASSUME ~torn
          PROVE  /\ {api'.user, stored.access.user, stored.refresh.user} \subseteq {Owner, None}
                 /\ \A e \in Calls : {call'[e].token.user, call'[e].refresh.user} \subseteq {Owner, None}
      <3>1. u \in {Owner, None}
        BY <2>4 DEF OwnerInv, u
      <3> QED
        BY <2>4, <3>1 DEF OwnerInv
    <2>5. OwnerInv'
      BY <2>4 DEF OwnerInv, Owner
    <2>6. LastInv'
      BY DEF LastInv
    <2> QED
      BY <2>2, <2>3, <2>5, <2>6
  <1> QED
    BY <1>2, <1>3 DEF refresh, Accepted, Step

LEMMA Session_refresh_fails ==
    ASSUME SessionInv, NEW c \in Calls, refresh_fails(c)
    PROVE  SessionInv'
  <1> USE NoTokenType DEF SessionInv, refresh_fails, Step
  <1>1. SessionTypeInv'
    BY DEF SessionTypeInv, Stages
  <1>2. ScreenInv'
    BY DEF ScreenInv, SessionTypeInv
  <1>3. OwnerInv'
    BY DEF OwnerInv, Owner, ScreenInv, SessionTypeInv
  <1>4. LastInv'
    BY DEF LastInv, ScreenInv, SessionTypeInv
  <1> QED
    BY <1>1, <1>2, <1>3, <1>4

LEMMA Session_set_refresh_token ==
    ASSUME SessionInv, NEW c \in Calls, set_refresh_token(c)
    PROVE  SessionInv'
  <1> USE NoTokenType DEF SessionInv, set_refresh_token, boundVars, Step
  <1>1. SessionTypeInv'
    BY DEF SessionTypeInv, Stages
  <1>2. ScreenInv'
    BY DEF ScreenInv, SessionTypeInv
  <1>3. OwnerInv'
    BY DEF OwnerInv, Owner, ScreenInv, SessionTypeInv
  <1>4. LastInv'
    BY DEF LastInv, ScreenInv, SessionTypeInv
  <1> QED
    BY <1>1, <1>2, <1>3, <1>4

LEMMA Session_clear_refresh_token ==
    ASSUME SessionInv, NEW c \in Calls, clear_refresh_token(c)
    PROVE  SessionInv'
  <1> USE NoTokenType DEF SessionInv, clear_refresh_token, boundVars, Return
  <1>1. SessionTypeInv'
    BY DEF SessionTypeInv, Stages
  <1>2. ScreenInv'
    BY DEF ScreenInv, SessionTypeInv
  <1>3. OwnerInv'
    BY DEF OwnerInv, Owner, ScreenInv, SessionTypeInv
  <1>4. LastInv'
    BY DEF LastInv, ScreenInv, SessionTypeInv
  <1> QED
    BY <1>1, <1>2, <1>3, <1>4

LEMMA Session_retry ==
    ASSUME SessionInv, NEW c \in Calls, retry(c)
    PROVE  SessionInv'
  <1> USE NoTokenType DEF SessionInv, retry, boundVars, Return
  <1>1. SessionTypeInv'
    BY DEF SessionTypeInv, Stages
  <1>2. ScreenInv'
    BY DEF ScreenInv, SessionTypeInv
  <1>3. OwnerInv'
    BY DEF OwnerInv, Owner, ScreenInv, SessionTypeInv
  <1>4. LastInv'
    BY DEF LastInv, ScreenInv, SessionTypeInv
  <1> QED
    BY <1>1, <1>2, <1>3, <1>4

-----------------------------------------------------------------------------
(* The theorems.                                                           *)

AccountsIInv == LimitsInv /\ SessionInv

LEMMA InitAccounts == Init => AccountsIInv
  <1> SUFFICES ASSUME Init PROVE AccountsIInv
    OBVIOUS
  <1> USE NoTokenType DEF Init, LimitsInit
  <1>1. LimitsInv
    <2>1. \A k \in Keys : passed[k] = <<>> /\ DOMAIN passed[k] = {}
      OBVIOUS
    <2>2. \A k \in Keys : quota[k].day = 0 /\ quota[k].count = 0
      OBVIOUS
    <2>3. LimitsTypeInv
      BY LimitsAssumption DEF LimitsTypeInv, Times
    <2>4. QuotaInv
      BY <2>2, LimitsAssumption DEF QuotaInv
    <2>5. PassedInv /\ DaysInv
      BY <2>1 DEF PassedInv, DaysInv
    <2> QED
      BY <2>3, <2>4, <2>5 DEF LimitsInv
  <1>2. SessionInv
    BY DEF SessionInv, SessionTypeInv, ScreenInv, OwnerInv, Owner, LastInv
  <1> QED
    BY <1>1, <1>2 DEF AccountsIInv

\* Every step keeps the session's part of the invariant.
LEMMA SessionKept ==
    ASSUME AccountsIInv, [Next]_vars
    PROVE  SessionInv'
  <1> USE DEF AccountsIInv, LimitsInv
  <1>1. CASE Tick \/ (\E u \in Users, r \in Roles : register(u, r) \/ update_user_role(u, r))
             \/ UNCHANGED vars
    BY <1>1, Session_quiet DEF Tick, register, update_user_role, vars
  <1>2. CASE restore_tokens \/ clear_tokens \/ set_access \/ set_refresh \/ restart
    BY <1>2, Session_restore_tokens, Session_clear_tokens, Session_set_access,
       Session_set_refresh, Session_restart
  <1>3. CASE \E u \in Users : log_in(u)
    BY <1>3, Session_log_in
  <1>4. ASSUME NEW c \in Calls,
               \/ login_refused(c) \/ api_request(c) \/ answer(c)
               \/ get_refresh_token(c) \/ refresh(c) \/ refresh_fails(c)
               \/ set_refresh_token(c) \/ clear_refresh_token(c) \/ retry(c)
        PROVE  SessionInv'
    BY <1>4, Session_login_refused, Session_api_request, Session_answer, Session_get_refresh_token,
       Session_refresh, Session_refresh_fails, Session_set_refresh_token,
       Session_clear_refresh_token, Session_retry
  <1> QED
    BY <1>1, <1>2, <1>3, <1>4 DEF Next

LEMMA AccountsInvariance == Spec => []AccountsIInv
  <1>1. AccountsIInv /\ [Next]_vars => AccountsIInv'
    BY LimitsKept, SessionKept DEF AccountsIInv, SessionInv
  <1> QED
    BY <1>1, InitAccounts, PTL DEF Spec

\* Unless the app was killed in the middle of a login or a logout, a session never mixes
\* users: what api.ts and store/auth.ts hold, store and send is of the user that is shown.
THEOREM SessionsDoNotMix == Spec => []OneUserPerSession
  <1>1. AccountsIInv => OneUserPerSession
    <2> SUFFICES ASSUME AccountsIInv, screen = "app", ~torn, NEW t \in Held
                 PROVE  t.user \in {shown.user, None}
      BY DEF OneUserPerSession
    <2>1. Owner = shown.user
      BY DEF Owner
    <2> QED
      BY <2>1 DEF Held, AccountsIInv, SessionInv, OwnerInv
  <1> QED
    BY <1>1, AccountsInvariance, PTL

\* Overlapping refreshes never cost a session its refresh token: only a network error, an
\* expired refresh token or a kill between two writes does (attemptRefresh).
THEOREM OnlyFailuresStrand == Spec => []StrandedOnlyByFailure
  <1>1. AccountsIInv => StrandedOnlyByFailure
    BY NoTokenType DEF AccountsIInv, SessionInv, LastInv, SessionTypeInv, StrandedOnlyByFailure
  <1> QED
    BY <1>1, AccountsInvariance, PTL

\* A counter lets a user or an address through as often as its limit in a calendar day
\* and twice as often in 24 hours, for every limit, whatever the order of requests, of
\* refusals by the other counter and of expiring keys (_check_rate_limit).
THEOREM LimitsHoldPerDay == Spec => []AtMostTwiceADay
  <1>1. AccountsIInv => AtMostTwiceADay
    <2> SUFFICES ASSUME AccountsIInv, NEW k \in Keys,
                        NEW i \in DOMAIN passed[k], NEW j \in DOMAIN passed[k]
                 PROVE  /\ j >= i + Limit(k) => passed[k][i] \div Day # passed[k][j] \div Day
                        /\ j >= i + 2 * Limit(k) => passed[k][j] >= passed[k][i] + Day
      BY DEF AtMostTwiceADay
    <2> USE DEF AccountsIInv, LimitsInv
    <2>0. Limit(k) \in Nat /\ i \in 1..Len(passed[k]) /\ j \in 1..Len(passed[k]) /\ Len(passed[k]) \in Nat
      BY LimitsAssumption, PassedNow DEF Limit
    <2>1. j >= i + Limit(k) => passed[k][i] \div Day # passed[k][j] \div Day
      BY DEF DaysInv
    <2>2. ASSUME j >= i + 2 * Limit(k) PROVE passed[k][j] >= passed[k][i] + Day
      <3> DEFINE m == i + Limit(k)
      <3>1. /\ m \in DOMAIN passed[k] /\ i <= m /\ m <= j
            /\ m >= i + Limit(k) /\ j >= m + Limit(k)
        BY <2>0, <2>2, PassedNow
      <3> HIDE DEF m
      <3>2. /\ passed[k][i] \in Nat /\ passed[k][m] \in Nat /\ passed[k][j] \in Nat
            /\ passed[k][i] \div Day \in Nat /\ passed[k][m] \div Day \in Nat
            /\ passed[k][j] \div Day \in Nat
        BY <3>1, PassedNow
      <3>3. passed[k][i] <= passed[k][m] /\ passed[k][m] <= passed[k][j]
        BY <3>1 DEF PassedInv
      <3>4. /\ passed[k][i] \div Day # passed[k][m] \div Day
            /\ passed[k][m] \div Day # passed[k][j] \div Day
        BY <3>1 DEF DaysInv
      <3>5. /\ passed[k][i] \div Day <= passed[k][m] \div Day
            /\ passed[k][m] \div Day <= passed[k][j] \div Day
        BY <3>2, <3>3, DayMonotone
      <3>6. (passed[k][i] \div Day) + 1 < passed[k][j] \div Day
        BY <3>2, <3>4, <3>5
      <3> QED
        BY <3>2, <3>6, TwoDaysApart
    <2> QED
      BY <2>1, <2>2
  <1> QED
    BY <1>1, AccountsInvariance, PTL
=============================================================================
