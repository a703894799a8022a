------------------------------ MODULE RateLimit -----------------------------
(***************************************************************************)
(* The last middleware an update of one user passes: the Redis rate        *)
(* limiter, a script over a sorted set of event times, and its in-memory   *)
(* fallback (middlewares/).  The warnings, which let nothing through, are  *)
(* left out.  The two clocks the code reads run alike.                     *)
(***************************************************************************)
EXTENDS Naturals, FiniteSets

CONSTANTS Events,          \* tasks that handle updates of the user
          MaxEvents,       \* RATE_LIMIT_MAX_EVENTS
          Period,          \* RATE_LIMIT_PERIOD_SECONDS
          MaxTime,         \* bound: the clock
          MaxOutages       \* bound: calls to Redis that raise

ASSUME LimitAssumption == {MaxEvents, Period, MaxTime} \subseteq Nat \ {0}

VARIABLES
    time,
    event,        \* where each update is, and the clock it read
    window,       \* the user's sorted set in Redis: pairs of a score and a member
    expires,      \* when Redis drops the key
    fallback,     \* _user_events of the fallback limiter, as such a set
    outages,
    passed,       \* history: updates each limiter let through, by the clock they read
    newest,       \* history: the last time the Redis window was moved to
    overtaken     \* history: an update reached Redis after the window had moved past it

limitVars == <<time, event, window, expires, fallback, outages, passed, newest, overtaken>>

Times == 0..MaxTime
NeverExpires == MaxTime + Period + 1
NoEvents == {}
Away == [at |-> "idle", now |-> 0]

LimitInit ==
    /\ time = 0
    /\ event = [m \in Events |-> Away]
    /\ window = NoEvents
    /\ expires = NeverExpires
    /\ fallback = NoEvents
    /\ outages = 0
    /\ passed = [limiter \in {"redis", "memory"} |-> NoEvents]
    /\ newest = 0
    /\ overtaken = FALSE

LaterOf(a, b) == IF a > b THEN a ELSE b
From(t, length) == IF t >= length THEN t - length ELSE 0

------------------------------------------------------------------------------
\* RedisRateLimitMiddleware reads its clock, then asks Redis.
AskRedis(m) ==
    /\ event[m].at = "idle"
    /\ event' = [event EXCEPT ![m] = [at |-> "limiting", now |-> time]]
    /\ UNCHANGED <<time, window, expires, fallback, outages, passed, newest, overtaken>>

Trimmed(events, oldest) == {e \in events : e[1] >= oldest}

\* An event of time s that is not among the ones taken: the event_id with its uuid4.
Fresh(s, taken) == <<s, CHOOSE n \in 0..Cardinality(taken) : <<s, n>> \notin taken>>

\* Slip: one event too many.
OverFull(events) == Cardinality(events) > MaxEvents
Full(events) == Cardinality(events) >= MaxEvents

\* ZREMRANGEBYSCORE of everything up to now - Period: a half-open window.
RedisTrimmed(now) == Trimmed(window, From(now + 1, Period))

EventId(m) == Fresh(event[m].now, window \cup passed["redis"])
Counted(m) == ~Full(RedisTrimmed(event[m].now))

\* The script runs in Redis.
Script(m) ==
    LET now == event[m].now events == RedisTrimmed(now) IN
    /\ window' = IF Counted(m) THEN events \cup {EventId(m)} ELSE events
    /\ expires' = time + Period
    /\ newest' = LaterOf(newest, now)
    /\ overtaken' = (overtaken \/ now < newest)

Limit(m) ==
    /\ event[m].at = "limiting"
    /\ Script(m)
    /\ passed' = IF Counted(m) THEN [passed EXCEPT !["redis"] = @ \cup {EventId(m)}] ELSE passed
    /\ event' = [event EXCEPT ![m] = Away]
    /\ UNCHANGED <<time, fallback, outages>>

\* Redis fails, before it ran the script or after.
LimitFails(m) ==
    /\ event[m].at = "limiting"
    /\ outages < MaxOutages
    /\ outages' = outages + 1
    /\ \/ Script(m)
       \/ UNCHANGED <<window, expires, newest, overtaken>>
    /\ event' = [event EXCEPT ![m] = [at |-> "fallback", now |-> 0]]
    /\ UNCHANGED <<time, fallback, passed>>

\* RateLimitMiddleware._is_allowed: a closed window, on a clock of its own.
Fallback(m) ==
    LET events == Trimmed(fallback, From(time, Period)) new == Fresh(time, passed["memory"]) IN
    /\ event[m].at = "fallback"
    /\ \/ /\ Full(events)
          /\ fallback' = events
          /\ UNCHANGED passed
       \/ /\ ~Full(events)
          /\ fallback' = events \cup {new}
          /\ passed' = [passed EXCEPT !["memory"] = @ \cup {new}]
    /\ event' = [event EXCEPT ![m] = Away]
    /\ UNCHANGED <<time, window, expires, newest, overtaken, outages>>

\* Time passes; Redis drops a key nobody used for a period.
LimitTick ==
    /\ time < MaxTime
    /\ time' = time + 1
    /\ window' = IF time' >= expires THEN NoEvents ELSE window
    /\ expires' = IF time' >= expires THEN NeverExpires ELSE expires
    /\ newest' = IF time' >= expires THEN LaterOf(newest, time') ELSE newest
    /\ UNCHANGED <<event, fallback, passed, overtaken, outages>>

LimitNext ==
    \/ \E m \in Events : AskRedis(m) \/ Limit(m) \/ LimitFails(m) \/ Fallback(m)
    \/ LimitTick

LimitSpec == LimitInit /\ [][LimitNext]_limitVars

------------------------------------------------------------------------------
\* How many updates a limiter let through that read a clock in from..to.
PassedIn(limiter, from, to) ==
    Cardinality({e \in passed[limiter] : from <= e[1] /\ e[1] <= to})

(* Neither limiter lets more than MaxEvents updates through in a period,   *)
(* whichever errors come between and whenever Redis drops the key - for    *)
(* Redis, as long as no update reached it after the window had moved past  *)
(* the time the update was read.                                           *)
WindowRespected ==
    \A t \in Times :
        /\ PassedIn("memory", From(t, Period), t) <= MaxEvents
        /\ ~overtaken =>
               PassedIn("redis", From(t + 1, Period), t) <= MaxEvents
=============================================================================
