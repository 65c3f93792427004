--------------------------- MODULE ComplaintLimits ---------------------------
(***************************************************************************)
(* How many complaints a user and an address may file: counters in Redis    *)
(* with the calendar day in their key and a lifetime of a day.              *)
(*                                                                         *)
(* create_complaint is a coroutine that does not await before both counters *)
(* are checked and incremented, in the one process that serves requests: no *)
(* other request comes in between, and enforce is one step.                 *)
(***************************************************************************)
EXTENDS Integers, Sequences

CONSTANTS
    Users, Addresses,
    RATE_LIMIT_USER_MAX, RATE_LIMIT_IP_MAX,
    Day,     \* RATE_LIMIT_WINDOW_SECONDS, which is a day, in units of the clock
    MaxTime  \* bound on the clock

ASSUME LimitsAssumption ==
    /\ Users \cap Addresses = {}
    /\ RATE_LIMIT_USER_MAX \in Nat /\ RATE_LIMIT_IP_MAX \in Nat
    /\ Day \in Nat \ {0} /\ MaxTime \in Nat

VARIABLES
    now,    \* the clock
    quota,  \* the newest counter of every user and address
    passed  \* history: when the requests of a user or an address passed

limitVars == <<quota, passed>>

-----------------------------------------------------------------------------
Keys == Users \cup Addresses
Times == 0..MaxTime
Limit(k) == IF k \in Users THEN RATE_LIMIT_USER_MAX ELSE RATE_LIMIT_IP_MAX

LimitsInit ==
    /\ now = 0
    /\ quota = [k \in Keys |-> [day |-> 0, count |-> 0, expires |-> 0]]
    /\ passed = [k \in Keys |-> <<>>]

Today == now \div Day

\* A key of another day is another key, and an expired key is gone.
Count(k) == IF quota[k].day = Today /\ now < quota[k].expires THEN quota[k].count ELSE 0

\* Mutant: the limit itself is let through.
Exceeded_late(k) == Count(k) > Limit(k)

Exceeded(k) == Count(k) >= Limit(k)

\* INCR and EXPIRE: every increment starts the lifetime of the key anew.
Incremented(k) == [day |-> Today, count |-> Count(k) + 1, expires |-> now + Day]

\* The user's counter is incremented before the address is looked at, and stays so when
\* the address has exceeded its limit.
enforce(u, ip) ==
    /\ ~Exceeded(u)
    /\ quota' = [k \in Keys |-> IF k = u \/ (k = ip /\ ~Exceeded(ip)) THEN Incremented(k) ELSE quota[k]]
    /\ passed' = IF Exceeded(ip) THEN passed
                 ELSE [k \in Keys |-> IF k \in {u, ip} THEN Append(passed[k], now) ELSE passed[k]]

-----------------------------------------------------------------------------
(* Properties.                                                             *)

\* complaints.py:345, "3 per user per 24 hours and 10 per IP per 24 hours", holds of a
\* calendar day: of requests that passed, those as many as the limit apart are of two
\* days.  In 24 hours that two days share it is twice as many and no more: no order of
\* requests, refusals and expiring keys starts a counter a third time.
AtMostTwiceADay ==
    \A k \in Keys : \A i, j \in DOMAIN passed[k] :
        /\ j >= i + Limit(k) => passed[k][i] \div Day # passed[k][j] \div Day
        /\ j >= i + 2 * Limit(k) => passed[k][j] >= passed[k][i] + Day
=============================================================================
