----------------------------- MODULE RateLimit -----------------------------
(***************************************************************************)
(* The limits of one API key: rate_limit_middleware in front of the Redis  *)
(* counters of RateLimiter, a per-minute one and one per UTC day.  Keys    *)
(* share nothing, so one is enough; the gateway instances that serve it    *)
(* share the counters and appear as concurrent requests.                   *)
(*                                                                         *)
(* A Lua script is atomic in Redis; what interleaves is the middleware     *)
(* around it: it awaits each script, and it computes the day and the       *)
(* counter's lifetime before the script that uses them runs.  Time is in   *)
(* ticks, `Second` of them to the second, so that truncation to whole      *)
(* seconds shows.                                                          *)
(***************************************************************************)
EXTENDS Integers, FiniteSets

CONSTANTS
    Requests,
    Posts,          \* those that POST /v1/responses, on a key with a daily limit
    Limits,         \* values rate_limit_rpm takes while requests arrive
    DailyLimit,     \* daily_message_limit
    Second,         \* ticks in a second
    Window,         \* ticks in `window_size`
    Day,            \* ticks in a UTC day
    MinTtl,         \* `.max(60)` of the daily counter's lifetime, in ticks
    MaxNow          \* bound on time

ASSUME RateAssumption ==
    /\ Posts \subseteq Requests
    /\ Limits \subseteq Nat \ {0}
    /\ \E l \in Limits : \A k \in Limits : k <= l
    /\ DailyLimit \in Nat
    /\ {Second, Window, Day, MinTtl} \subseteq Nat \ {0}
    /\ MaxNow \in Nat

VARIABLES
    now,
    minute,     \* the per-minute counter: [count, until]
    days,       \* the daily counters by day
    pc,
    limit,      \* the limit a request found on its key
    planned,    \* the day and lifetime a request computed: [day, ttl]
    tokenAt,    \* when a request took a per-minute token
    countedAt,  \* when a request's message was counted
    endedAt     \* when a request was refused

rateVars == <<now, minute, days, pc, limit, planned, tokenAt, countedAt, endedAt>>

Never == -1
Days == 0 .. MaxNow \div Day
Absent == [count |-> 0, until |-> 0]

RateInit ==
    /\ now = 0
    /\ minute = Absent
    /\ days = [d \in Days |-> Absent]
    /\ pc = [r \in Requests |-> "idle"]
    /\ limit \in [Requests -> Limits]
    /\ planned = [r \in Requests |-> [day |-> 0, ttl |-> 0]]
    /\ tokenAt = [r \in Requests |-> Never]
    /\ countedAt = [r \in Requests |-> Never]
    /\ endedAt = [r \in Requests |-> Never]

-----------------------------------------------------------------------------
(* Redis counters.                                                         *)

\* GET: an expired key reads as zero.
Count(c) == IF c.until > now THEN c.count ELSE 0


\* Mutant of Incremented: the key expires a tick early.
IncrementedShort(c, ttl) ==
    IF Count(c) = 0 THEN [count |-> 1, until |-> now + ttl - 1]
                    ELSE [c EXCEPT !.count = @ + 1]

\* INCR, and EXPIRE when it made the first.
Incremented(c, ttl) ==
    IF Count(c) = 0 THEN [count |-> 1, until |-> now + ttl]
                    ELSE [c EXCEPT !.count = @ + 1]

\* Mutants of Full: one request too many, one too few.
FullTooLate(c, cap) == Count(c) > cap
FullTooSoon(c, cap) == Count(c) + 1 >= cap

\* Both scripts refuse before they increment.
Full(c, cap) == Count(c) >= cap

-----------------------------------------------------------------------------
MoveTo(r, place) == pc' = [pc EXCEPT ![r] = place]
RefuseAs(r, place) ==
    /\ MoveTo(r, place)
    /\ endedAt' = [endedAt EXCEPT ![r] = now]

\* The limiter is absent, switched off at runtime, or the route needs no key.
Bypass(r) ==
    /\ pc[r] = "idle"
    /\ MoveTo(r, "handled")
    /\ UNCHANGED <<now, minute, days, limit, planned, tokenAt, countedAt, endedAt>>

Arrive(r) ==
    /\ pc[r] = "idle"
    /\ MoveTo(r, "limiting")
    /\ UNCHANGED <<now, minute, days, limit, planned, tokenAt, countedAt, endedAt>>

TakeToken(r) ==
    /\ minute' = Incremented(minute, Window)
    /\ tokenAt' = [tokenAt EXCEPT ![r] = now]

\* RateLimiter::check grants; only a post goes on to be counted.
Grant(r) ==
    /\ pc[r] = "limiting"
    /\ ~Full(minute, limit[r])
    /\ TakeToken(r)
    /\ MoveTo(r, IF r \in Posts THEN "counting" ELSE "handled")
    /\ UNCHANGED <<now, days, limit, planned, countedAt, endedAt>>

\* 429 with the counter's remaining lifetime.
RefuseMinute(r) ==
    /\ pc[r] = "limiting"
    /\ Full(minute, limit[r])
    /\ RefuseAs(r, "minuteLimited")
    /\ UNCHANGED <<now, minute, days, limit, planned, tokenAt, countedAt>>

\* Redis fails before or after the script ran: the request goes through, and
\* skips the daily count as well.
MinuteFailsOpen(r) ==
    /\ pc[r] = "limiting"
    /\ \/ UNCHANGED <<minute, tokenAt>>
       \/ ~Full(minute, limit[r]) /\ TakeToken(r)
    /\ MoveTo(r, "handled")
    /\ UNCHANGED <<now, days, limit, planned, countedAt, endedAt>>

\* `(tomorrow - now).num_seconds().max(60)`: whole seconds, rounded down.
Lifetime(t) ==
    LET left == Day - (t % Day)
        seconds == (left \div Second) * Second
    IN  IF seconds >= MinTtl THEN seconds ELSE MinTtl

\* check_daily_messages before its await: the key names today.
PlanDaily(r) ==
    /\ pc[r] = "counting"
    /\ planned' = [planned EXCEPT ![r] = [day |-> now \div Day, ttl |-> Lifetime(now)]]
    /\ MoveTo(r, "counted?")
    /\ UNCHANGED <<now, minute, days, limit, tokenAt, countedAt, endedAt>>

CountMessage(r) ==
    /\ days' = [days EXCEPT ![planned[r].day] = Incremented(@, planned[r].ttl)]
    /\ countedAt' = [countedAt EXCEPT ![r] = now]

CountDaily(r) ==
    /\ pc[r] = "counted?"
    /\ ~Full(days[planned[r].day], DailyLimit)
    /\ CountMessage(r)
    /\ MoveTo(r, "handled")
    /\ UNCHANGED <<now, minute, limit, planned, tokenAt, endedAt>>

\* The per-minute token this request took is not returned.
RefuseDaily(r) ==
    /\ pc[r] = "counted?"
    /\ Full(days[planned[r].day], DailyLimit)
    /\ RefuseAs(r, "dayLimited")
    /\ UNCHANGED <<now, minute, days, limit, planned, tokenAt, countedAt>>

DailyFailsOpen(r) ==
    /\ pc[r] = "counted?"
    /\ \/ UNCHANGED <<days, countedAt>>
       \/ ~Full(days[planned[r].day], DailyLimit) /\ CountMessage(r)
    /\ MoveTo(r, "handled")
    /\ UNCHANGED <<now, minute, limit, planned, tokenAt, endedAt>>

TimePasses ==
    /\ now < MaxNow
    /\ now' = now + 1
    /\ UNCHANGED <<minute, days, pc, limit, planned, tokenAt, countedAt, endedAt>>

RateNext ==
    \/ \E r \in Requests :
          \/ Bypass(r) \/ Arrive(r)
          \/ Grant(r) \/ RefuseMinute(r) \/ MinuteFailsOpen(r)
          \/ PlanDaily(r) \/ CountDaily(r) \/ RefuseDaily(r) \/ DailyFailsOpen(r)
    \/ TimePasses

RateSpec == RateInit /\ [][RateNext]_rateVars
-----------------------------------------------------------------------------
(* Properties.                                                             *)

Largest == CHOOSE l \in Limits : \A k \in Limits : k <= l

\* The requests that took a token in the ticks from t on.
Tokens(from, ticks) ==
    {r \in Requests : tokenAt[r] # Never /\ tokenAt[r] \in from .. from + ticks - 1}

\* The counter knows every token of its window, those of requests whose
\* reply was lost included, and never exceeds the limit.
CounterCountsTokens ==
    Count(minute) > 0 =>
        /\ Count(minute) = Cardinality(Tokens(minute.until - Window, Window))
        /\ Count(minute) <= Largest

\* However requests straddle two windows, every stretch of `window_size`
\* admits less than twice the limit: a window opens with its first token, so
\* the stretch that reaches into the next one misses it (RateLimiter::check).
LessThanTwiceTheLimit ==
    \A t \in 0 .. now : Cardinality(Tokens(t, Window)) < 2 * Largest

\* Both kinds of 429 are earned: `limit` tokens were taken in the window before
\* the one, DailyLimit messages were counted for the same day before the other,
\* and a request that straddles midnight is charged to one day only.
RefusalsAreEarned ==
    \A r \in Requests :
        /\ pc[r] = "minuteLimited" =>
              Cardinality(Tokens(endedAt[r] - Window + 1, Window)) >= limit[r]
        /\ pc[r] = "dayLimited" =>
              Cardinality({q \in Requests : /\ countedAt[q] # Never
                                            /\ countedAt[q] <= endedAt[r]
                                            /\ planned[q].day = planned[r].day})
                  >= DailyLimit
=============================================================================
