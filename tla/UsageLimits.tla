----------------------------- MODULE UsageLimits -----------------------------
(***************************************************************************)
(* Daily limits: the usage_daily table, the limits in app_settings, the    *)
(* plans in users, and the service that reserves and refunds.              *)
(*                                                                         *)
(* A reservation is four steps, because each query suspends: it fixes the  *)
(* date, reads the plan, reads the limit, and then counts in one           *)
(* transaction.  A refund fixes ITS date, and then counts back.            *)
(* Midnight, an administrator and other handlers come in between.          *)
(***************************************************************************)
EXTENDS Integers, FiniteSets

CONSTANTS Users,
          Handlers,       \* tasks of the event loop that run a handler
          Kinds,          \* the usage fields: "input" stands for four of them
          DefaultLimit,   \* FREE_DAILY_*_LIMIT, one for every kind
          MaxLimit,       \* bound: limits an administrator may set
          MaxDay,         \* bound: days of one behaviour
          MaxEdits        \* bound: administrator's actions, and deletions, of one behaviour

ASSUME UsageAssumption ==
    /\ MaxLimit \in Nat \ {0}
    /\ DefaultLimit \in 1..MaxLimit
    /\ MaxDay \in Nat \ {0}
    /\ MaxEdits \in Nat
    /\ IsFiniteSet(Handlers)

VARIABLES
    today,      \* datetime.now().date()
    counter,    \* usage_daily; a missing row counts as zero
    limit,      \* app_settings: limit.*
    premium,    \* is_premium_user(): the plan is paid for and has not run out
    adjusting,  \* adjust_editable_limit between its read and its write
    edits,      \* administrator's actions and deletions so far
    ticket,     \* the reservation each handler is making or holds
    net,        \* history: uses granted for a day and not given back
    highest,    \* history: the highest limit there ever was
    disturbed   \* history: counters that a reset, a plan or a midnight touched

usageVars == <<today, counter, limit, premium, adjusting, edits, ticket, net, highest, disturbed>>

Days == 1..MaxDay
Counters == Users \X Days \X Kinds
NoTicket == [step |-> "none", user |-> 0, day |-> 0, kind |-> "none", limit |-> 0, returns |-> 0]
NoAdjust == [kind |-> "none", value |-> 0]

\* The counter that a ticket was reserved on, and the one that its refund lowers.
Reserved(t) == <<t.user, t.day, t.kind>>
Returned(t) == <<t.user, t.returns, t.kind>>

UsageInit ==
    /\ today = 1
    /\ counter = [c \in Counters |-> 0]
    /\ limit = [k \in Kinds |-> DefaultLimit]
    /\ premium = [u \in Users |-> FALSE]
    /\ adjusting = NoAdjust
    /\ edits = 0
    /\ ticket = [h \in Handlers |-> NoTicket]
    /\ net = [c \in Counters |-> 0]
    /\ highest = limit
    /\ disturbed = [refund |-> {}, free |-> {}]

------------------------------------------------------------------------------
\* Reserving.

\* The date is read first, whatever day it is when the use is counted.
Reserve(h, u, k) ==
    /\ ticket' = [ticket EXCEPT ![h] =
                    [NoTicket EXCEPT !.step = "plan", !.user = u, !.day = today, !.kind = k]]
    /\ UNCHANGED <<today, counter, limit, premium, adjusting, edits, net, highest, disturbed>>

ReadPlan(h) ==
    /\ ticket[h].step = "plan"
    /\ ticket' = [ticket EXCEPT ![h].step = IF premium[ticket[h].user] THEN "record" ELSE "limit"]
    /\ UNCHANGED <<today, counter, limit, premium, adjusting, edits, net, highest, disturbed>>

ReadLimit(h) ==
    /\ ticket[h].step = "limit"
    /\ ticket' = [ticket EXCEPT ![h].step = "count", ![h].limit = limit[ticket[h].kind]]
    /\ UNCHANGED <<today, counter, limit, premium, adjusting, edits, net, highest, disturbed>>

Granted(h) ==
    LET c == Reserved(ticket[h]) IN
    /\ counter' = [counter EXCEPT ![c] = @ + 1]
    /\ net' = [net EXCEPT ![c] = @ + 1]
    /\ ticket' = [ticket EXCEPT ![h].step = "granted"]
    /\ UNCHANGED <<today, limit, premium, adjusting, edits, highest>>

\* Premium: counted for the statistics, never refused.
RecordUse(h) ==
    /\ ticket[h].step = "record"
    /\ Granted(h)
    /\ disturbed' = [disturbed EXCEPT !.free = @ \cup {Reserved(ticket[h])}]

\* Slip: the check lets the counter reach one more than the limit.
UnderLimitOffByOne(h) == counter[Reserved(ticket[h])] <= ticket[h].limit

UnderLimit(h) == counter[Reserved(ticket[h])] + 1 <= ticket[h].limit

\* BEGIN IMMEDIATE: the check and the count are one step.
TryIncrement(h) ==
    /\ ticket[h].step = "count"
    /\ IF UnderLimit(h)
       THEN Granted(h) /\ UNCHANGED disturbed
       ELSE /\ ticket' = [ticket EXCEPT ![h].step = "refused"]
            /\ UNCHANGED <<today, counter, limit, premium, adjusting, edits, net, highest, disturbed>>

------------------------------------------------------------------------------
\* Refunding.

\* The date of the refund, not of the reservation.
Refund(h) ==
    /\ ticket[h].step = "granted"
    /\ ticket' = [ticket EXCEPT ![h].step = "refund", ![h].returns = today]
    /\ UNCHANGED <<today, counter, limit, premium, adjusting, edits, net, highest, disturbed>>

\* Slip: the refund may take a counter below zero.
LoweredUnfloored(n) == n - 1

\* Slip: a refund gives two uses back.
LoweredTwice(n) == IF n > 1 THEN n - 2 ELSE 0

Lowered(n) == IF n > 0 THEN n - 1 ELSE 0

Decrement(h) ==
    LET t == ticket[h] IN
    /\ t.step = "refund"
    /\ counter' = [counter EXCEPT ![Returned(t)] = Lowered(@)]
    /\ net' = [net EXCEPT ![Reserved(t)] = @ - 1]
    /\ ticket' = [ticket EXCEPT ![h].step = "returned"]
    /\ disturbed' = IF t.returns = t.day THEN disturbed
                    ELSE [disturbed EXCEPT !.refund = @ \cup {Reserved(t), Returned(t)}]
    /\ UNCHANGED <<today, limit, premium, adjusting, edits, highest>>

\* The query fails: _refund_reserved_* logs it, and the use stays counted.
DecrementFails(h) ==
    /\ ticket[h].step = "refund"
    /\ ticket' = [ticket EXCEPT ![h].step = "unreturned"]
    /\ UNCHANGED <<today, counter, limit, premium, adjusting, edits, net, highest, disturbed>>

------------------------------------------------------------------------------
\* Time and the administrator.

Midnight ==
    /\ today < MaxDay
    /\ today' = today + 1
    /\ UNCHANGED <<counter, limit, premium, adjusting, edits, ticket, net, highest, disturbed>>

LimitSet(k, value) ==
    /\ limit' = [limit EXCEPT ![k] = value]
    /\ highest' = [highest EXCEPT ![k] = IF value > @ THEN value ELSE @]

\* adjust_editable_limit reads, adds, and writes later: another write in between
\* is lost.
ReadAdjust ==
    /\ edits < MaxEdits
    /\ adjusting = NoAdjust
    /\ \E k \in Kinds : \E value \in {limit[k] + 1, IF limit[k] > 1 THEN limit[k] - 1 ELSE 1} :
          /\ value <= MaxLimit /\ value # limit[k]
          /\ adjusting' = [kind |-> k, value |-> value]
    /\ edits' = edits + 1
    /\ UNCHANGED <<today, counter, limit, premium, ticket, net, highest, disturbed>>

WriteAdjust ==
    /\ adjusting # NoAdjust
    /\ LimitSet(adjusting.kind, adjusting.value)
    /\ adjusting' = NoAdjust
    /\ UNCHANGED <<today, counter, premium, edits, ticket, net, disturbed>>

SetLimit(k) ==
    /\ edits < MaxEdits
    /\ edits' = edits + 1
    /\ \E value \in (1..MaxLimit) \ {limit[k]} : LimitSet(k, value)
    /\ UNCHANGED <<today, counter, premium, adjusting, ticket, net, disturbed>>

\* Granted, revoked, or run out.
ChangePlan(u) ==
    /\ edits < MaxEdits
    /\ edits' = edits + 1
    /\ premium' = [premium EXCEPT ![u] = ~@]
    /\ UNCHANGED <<today, counter, limit, adjusting, ticket, net, highest, disturbed>>

\* reset_user_daily_limits deletes today's row, reservations in use included.
ResetUser(u) ==
    LET row == {c \in Counters : c[1] = u /\ c[2] = today} IN
    /\ edits < MaxEdits
    /\ edits' = edits + 1
    /\ \E c \in row : counter[c] # 0
    /\ counter' = [c \in Counters |-> IF c \in row THEN 0 ELSE counter[c]]
    /\ disturbed' = [disturbed EXCEPT !.refund = @ \cup row]
    /\ UNCHANGED <<today, limit, premium, adjusting, ticket, net, highest>>

UsageStep(h) ==
    ReadPlan(h) \/ ReadLimit(h) \/ RecordUse(h) \/ TryIncrement(h) \/ Decrement(h)

AdminStep ==
    \/ ReadAdjust \/ WriteAdjust
    \/ \E k \in Kinds : SetLimit(k)
    \/ \E u \in Users : ChangePlan(u) \/ ResetUser(u)

------------------------------------------------------------------------------
\* Properties.

UsageTypeOK ==
    /\ today \in Days
    /\ counter \in [Counters -> Nat]
    /\ limit \in [Kinds -> 1..MaxLimit]
    /\ premium \in [Users -> BOOLEAN]
    /\ adjusting \in [kind : Kinds, value : 1..MaxLimit] \cup {NoAdjust}
    /\ edits \in 0..MaxEdits
    /\ ticket \in [Handlers ->
          {NoTicket} \cup
          [step : {"plan", "record", "limit", "count", "granted", "refused", "refund",
                   "returned", "unreturned"},
           user : Users, day : Days, kind : Kinds, limit : 0..MaxLimit, returns : 0..MaxDay]]
    /\ net \in [Counters -> Int]
    /\ highest \in [Kinds -> 1..MaxLimit]
    /\ disturbed \in [refund : SUBSET Counters, free : SUBSET Counters]

\* Nobody without the paid plan is ever counted beyond the highest limit there was,
\* however reservations, refunds, edits and midnights interleave.
LimitRespected ==
    \A c \in Counters : c \notin disturbed.free => counter[c] <= highest[c[3]]

\* A counter is exactly the number of uses granted on its day and not given back:
\* only a reset, and a refund that crosses midnight, ever set the two apart.
CounterExact ==
    \A c \in Counters : c \notin disturbed.refund => counter[c] = net[c]
=============================================================================
