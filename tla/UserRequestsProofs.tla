-------------------------- MODULE UserRequestsProofs -------------------------
(***************************************************************************)
(* The limits, the counters, the locks, the charges and the catalog of     *)
(* UserRequests for any users, handlers, texts and days, and any number of *)
(* requests and failures.                                                  *)
(*                                                                         *)
(* First the steps of UsageLimits alone (a reservation, a refund, what an  *)
(* administrator and the clock do), which many actions of a handler hold;  *)
(* then the composition: records, locks, charges, and whose text the rows, *)
(* the sessions and the summaries are of.                                  *)
(***************************************************************************)
EXTENDS UserRequests, FiniteSetTheorems, TLAPS

------------------------------------------------------------------------------
(* The inductive invariant.  LimitRespected needs that the limit a handler *)
(* read is no higher than the highest.  CounterExact needs that the        *)
(* counter a refund lowers is not zero already: every use that a handler   *)
(* could still give back is counted.                                       *)

Tickets ==
    [step : {"plan", "record", "limit", "count", "granted", "refused", "refund",
             "returned", "unreturned"},
     user : Users, day : Days, kind : Kinds, limit : 0..MaxLimit, returns : 0..MaxDay]

Holding(t) == t.step \in {"granted", "refund", "unreturned"}
Holders(c) == {h \in Handlers : Holding(ticket[h]) /\ Reserved(ticket[h]) = c}

LimitsKnown ==
    /\ \A k \in Kinds : limit[k] <= highest[k]
    /\ \A h \in Handlers :
          ticket[h].step = "count" => ticket[h].limit <= highest[ticket[h].kind]

ReturnDated == \A h \in Handlers : ticket[h].step = "refund" => ticket[h].returns \in Days

HeldCounted == \A c \in Counters : Cardinality(Holders(c)) <= net[c]

UsageInv ==
    /\ UsageTypeOK /\ LimitsKnown /\ ReturnDated
    /\ LimitRespected /\ CounterExact /\ HeldCounted

\* The part of the invariant that is about the tickets alone.
TicketFacts(t) ==
    /\ t \in {NoTicket} \cup Tickets
    /\ t.step = "count" => t.limit <= highest[t.kind]
    /\ t.step = "refund" => t.returns \in Days

------------------------------------------------------------------------------
\* A ticket that is being made or held is a full record.
LEMMA TicketTyped ==
    ASSUME UsageTypeOK, NEW h \in Handlers, ticket[h].step # "none"
    PROVE  ticket[h] \in Tickets /\ Reserved(ticket[h]) \in Counters
<1>1. ticket[h] \in Tickets
  BY DEF UsageTypeOK, Tickets, NoTicket
<1> QED
  BY <1>1 DEF Tickets, Reserved, Counters

\* Who holds a use of a counter after one handler's ticket has changed.
LEMMA HoldersAfter ==
    ASSUME UsageTypeOK, NEW h \in Handlers, NEW t, ticket' = [ticket EXCEPT ![h] = t], NEW c
    PROVE  /\ ~(Holding(t) /\ Reserved(t) = c) => Holders(c)' = Holders(c) \ {h}
           /\ Holding(t) /\ Reserved(t) = c => Holders(c)' = Holders(c) \cup {h}
<1>1. ticket'[h] = t /\ \A g \in Handlers : g # h => ticket'[g] = ticket[g]
  BY DEF UsageTypeOK
<1> QED
  BY <1>1 DEF Holders, Reserved

\* Handlers are finitely many, and so are the holders.
LEMMA HoldersFinite ==
    ASSUME NEW c
    PROVE  IsFiniteSet(Holders(c)) /\ Cardinality(Holders(c)) \in Nat
<1>1. Holders(c) \in SUBSET Handlers
  BY DEF Holders
<1> QED
  BY <1>1, FS_Subset, FS_CardinalityType, UsageAssumption

\* A ticket that holds no more than before leaves the uses counted.
LEMMA TicketKeepsCounts ==
    ASSUME UsageInv, NEW h \in Handlers, NEW t, ticket' = [ticket EXCEPT ![h] = t], UNCHANGED net,
           Holding(t) => Holding(ticket[h]) /\ Reserved(t) = Reserved(ticket[h])
    PROVE  HeldCounted'
<1> SUFFICES ASSUME NEW c \in Counters PROVE Cardinality(Holders(c)') <= net[c]
  BY DEF HeldCounted
<1>1. Holders(c)' \in SUBSET Holders(c)
  <2>1. Holding(t) /\ Reserved(t) = c => h \in Holders(c)
    BY DEF Holders
  <2>2. Holders(c)' = Holders(c) \ {h} \/ (h \in Holders(c) /\ Holders(c)' = Holders(c) \cup {h})
    <3>1. UsageTypeOK
      BY DEF UsageInv
    <3>2. CASE Holding(t) /\ Reserved(t) = c
      BY <2>1, <3>1, <3>2, HoldersAfter
    <3>3. CASE ~(Holding(t) /\ Reserved(t) = c)
      BY <3>1, <3>3, HoldersAfter
    <3> QED
      BY <3>2, <3>3
  <2> QED
    BY <2>2
<1>2. Cardinality(Holders(c)') \in Nat /\ Cardinality(Holders(c)') <= Cardinality(Holders(c))
  BY <1>1, HoldersFinite, FS_Subset, FS_CardinalityType
<1>3. Cardinality(Holders(c)) <= net[c] /\ net[c] \in Int
  BY DEF UsageInv, HeldCounted, UsageTypeOK
<1>4. Cardinality(Holders(c)) \in Nat
  BY HoldersFinite
<1> QED
  BY <1>2, <1>3, <1>4

\* A step that only moves one ticket on preserves the invariant.
LEMMA TicketMoves ==
    ASSUME UsageInv, NEW h \in Handlers, NEW t, ticket' = [ticket EXCEPT ![h] = t],
           UNCHANGED <<today, counter, limit, premium, adjusting, edits, net, highest, disturbed>>,
           TicketFacts(t),
           Holding(t) => Holding(ticket[h]) /\ Reserved(t) = Reserved(ticket[h])
    PROVE  UsageInv'
<1>1. HeldCounted'
  BY TicketKeepsCounts
<1>2. ticket'[h] = t /\ \A g \in Handlers : g # h => ticket'[g] = ticket[g]
  BY DEF UsageInv, UsageTypeOK
<1>3. UsageTypeOK'
  BY DEF UsageInv, UsageTypeOK, TicketFacts, Tickets
<1>4. LimitsKnown' /\ ReturnDated'
  BY <1>2 DEF UsageInv, LimitsKnown, ReturnDated, TicketFacts
<1>5. LimitRespected' /\ CounterExact'
  BY DEF UsageInv, LimitRespected, CounterExact
<1> QED
  BY <1>1, <1>3, <1>4, <1>5 DEF UsageInv

\* Reserve, ReadPlan, ReadLimit, a refusal, Refund, DecrementFails and the end of a
\* request are such steps.
LEMMA ReservingStep ==
    ASSUME UsageInv, NEW h \in Handlers
    PROVE  /\ \A u \in Users, k \in Kinds : Reserve(h, u, k) => UsageInv'
           /\ ReadPlan(h) => UsageInv'
           /\ ReadLimit(h) => UsageInv'
<1>0. today \in Days /\ 0 \in 0..MaxDay /\ 0 \in 0..MaxLimit /\ ticket \in [Handlers -> {NoTicket} \cup Tickets]
  BY UsageAssumption DEF UsageInv, UsageTypeOK, Tickets
<1>1. ASSUME NEW u \in Users, NEW k \in Kinds, Reserve(h, u, k) PROVE UsageInv'
  <2> DEFINE t == [NoTicket EXCEPT !.step = "plan", !.user = u, !.day = today, !.kind = k]
  <2>1. t \in Tickets /\ t.step = "plan"
    BY <1>0 DEF NoTicket, Tickets
  <2>2. TicketFacts(t) /\ ~Holding(t)
    BY <2>1 DEF TicketFacts, Holding
  <2>3. /\ ticket' = [ticket EXCEPT ![h] = t]
        /\ UNCHANGED <<today, counter, limit, premium, adjusting, edits, net, highest, disturbed>>
    BY <1>1 DEF Reserve
  <2> HIDE DEF t
  <2> QED
    BY <2>2, <2>3, TicketMoves
<1>2. ASSUME ReadPlan(h) PROVE UsageInv'
  <2> DEFINE s == IF premium[ticket[h].user] THEN "record" ELSE "limit"
             t == [ticket[h] EXCEPT !.step = s]
  <2>1. ticket[h] \in Tickets
    BY <1>2, TicketTyped DEF ReadPlan, UsageInv
  <2>2. s \in {"record", "limit"}
    OBVIOUS
  <2> HIDE DEF s
  <2>3. TicketFacts(t) /\ ~Holding(t)
    BY <2>1, <2>2 DEF TicketFacts, Tickets, Holding
  <2>4. /\ ticket' = [ticket EXCEPT ![h] = t]
        /\ UNCHANGED <<today, counter, limit, premium, adjusting, edits, net, highest, disturbed>>
    BY <1>0, <1>2 DEF ReadPlan, s
  <2> HIDE DEF t
  <2> QED
    BY <2>3, <2>4, TicketMoves
<1>3. ASSUME ReadLimit(h) PROVE UsageInv'
  <2> DEFINE n == limit[ticket[h].kind]
             t == [ticket[h] EXCEPT !.step = "count", !.limit = n]
  <2>1. ticket[h] \in Tickets
    BY <1>3, TicketTyped DEF ReadLimit, UsageInv
  <2>2. n \in 0..MaxLimit /\ n <= highest[ticket[h].kind]
    <3>1. ticket[h].kind \in Kinds
      BY <2>1 DEF Tickets
    <3> QED
      BY <3>1, UsageAssumption DEF UsageInv, UsageTypeOK, LimitsKnown
  <2> HIDE DEF n
  <2>3. TicketFacts(t) /\ ~Holding(t)
    BY <2>1, <2>2 DEF TicketFacts, Tickets, Holding
  <2>4. /\ ticket' = [ticket EXCEPT ![h] = t]
        /\ UNCHANGED <<today, counter, limit, premium, adjusting, edits, net, highest, disturbed>>
    BY <1>0, <1>3 DEF ReadLimit, n
  <2> HIDE DEF t
  <2> QED
    BY <2>3, <2>4, TicketMoves
<1> QED
  BY <1>1, <1>2, <1>3

\* The steps of a refund, and the end of a request.
LEMMA RefundingStep ==
    ASSUME UsageInv, NEW h \in Handlers
    PROVE  /\ Refund(h) => UsageInv'
           /\ DecrementFails(h) => UsageInv'
           /\ (ticket' = [ticket EXCEPT ![h] = NoTicket] /\
               UNCHANGED <<today, counter, limit, premium, adjusting, edits, net, highest, disturbed>>)
              => UsageInv'
<1>0. today \in Days /\ Days = 1..MaxDay /\ ticket \in [Handlers -> {NoTicket} \cup Tickets]
  BY DEF UsageInv, UsageTypeOK, Tickets, Days
<1>1. ASSUME Refund(h) PROVE UsageInv'
  <2> DEFINE t == [ticket[h] EXCEPT !.step = "refund", !.returns = today]
  <2>1. ticket[h] \in Tickets /\ Holding(ticket[h])
    BY <1>1, TicketTyped DEF Refund, UsageInv, Holding
  <2>2. TicketFacts(t) /\ Reserved(t) = Reserved(ticket[h])
    <3>1. today \in 0..MaxDay
      BY <1>0, UsageAssumption
    <3>2. t \in Tickets /\ t.step = "refund" /\ t.returns = today
      BY <2>1, <3>1 DEF Tickets
    <3>3. t.user = ticket[h].user /\ t.day = ticket[h].day /\ t.kind = ticket[h].kind
      BY <2>1 DEF Tickets
    <3> HIDE DEF t
    <3> QED
      BY <1>0, <3>2, <3>3 DEF TicketFacts, Reserved
  <2>3. /\ ticket' = [ticket EXCEPT ![h] = t]
        /\ UNCHANGED <<today, counter, limit, premium, adjusting, edits, net, highest, disturbed>>
    BY <1>0, <1>1 DEF Refund
  <2> HIDE DEF t
  <2> QED
    BY <2>1, <2>2, <2>3, TicketMoves
<1>2. ASSUME DecrementFails(h) PROVE UsageInv'
  <2> DEFINE t == [ticket[h] EXCEPT !.step = "unreturned"]
  <2>1. ticket[h] \in Tickets /\ Holding(ticket[h])
    BY <1>2, TicketTyped DEF DecrementFails, UsageInv, Holding
  <2>2. TicketFacts(t) /\ Reserved(t) = Reserved(ticket[h])
    BY <2>1 DEF TicketFacts, Tickets, Reserved
  <2>3. /\ ticket' = [ticket EXCEPT ![h] = t]
        /\ UNCHANGED <<today, counter, limit, premium, adjusting, edits, net, highest, disturbed>>
    BY <1>0, <1>2 DEF DecrementFails
  <2> HIDE DEF t
  <2> QED
    BY <2>1, <2>2, <2>3, TicketMoves
<1>3. TicketFacts(NoTicket) /\ ~Holding(NoTicket)
  BY DEF TicketFacts, NoTicket, Holding
<1> QED
  BY <1>1, <1>2, <1>3, TicketMoves

\* A use is granted: counted, and held from now on.
LEMMA GrantedStep ==
    ASSUME UsageInv, NEW h \in Handlers, Granted(h), ticket[h].step \in {"record", "count"},
           LET c == Reserved(ticket[h]) IN
              \/ disturbed' = [disturbed EXCEPT !.free = @ \cup {c}]
              \/ UNCHANGED disturbed /\ counter[c] + 1 <= highest[c[3]]
    PROVE  UsageInv'
<1> DEFINE c0 == Reserved(ticket[h])
           t == [ticket[h] EXCEPT !.step = "granted"]
<1>1. ticket[h] \in Tickets /\ c0 \in Counters /\ ~Holding(ticket[h])
  BY TicketTyped DEF UsageInv, Holding
<1>2. /\ counter' = [counter EXCEPT ![c0] = @ + 1]
      /\ net' = [net EXCEPT ![c0] = @ + 1]
      /\ ticket' = [ticket EXCEPT ![h] = t]
      /\ UNCHANGED <<today, limit, premium, adjusting, edits, highest>>
  BY DEF Granted, UsageInv, UsageTypeOK
<1>3. t \in Tickets /\ t.step = "granted" /\ Reserved(t) = c0 /\ Holding(t)
  BY <1>1 DEF Tickets, Reserved, Holding
<1>4. \/ disturbed' = [disturbed EXCEPT !.free = @ \cup {c0}]
      \/ UNCHANGED disturbed /\ counter[c0] + 1 <= highest[c0[3]]
  OBVIOUS
<1> HIDE DEF t, c0
<1>5. /\ ticket'[h] = t /\ \A g \in Handlers : g # h => ticket'[g] = ticket[g]
      /\ counter[c0] \in Nat /\ counter'[c0] = counter[c0] + 1
      /\ net[c0] \in Int /\ net'[c0] = net[c0] + 1
      /\ \A c \in Counters : c # c0 => counter'[c] = counter[c] /\ net'[c] = net[c]
  BY <1>1, <1>2 DEF UsageInv, UsageTypeOK
<1>6. /\ disturbed' \in [refund : SUBSET Counters, free : SUBSET Counters]
      /\ disturbed'.refund = disturbed.refund
      /\ disturbed.free \subseteq disturbed'.free
      /\ c0 \in disturbed'.free \/ counter[c0] + 1 <= highest[c0[3]]
  BY <1>1, <1>4 DEF UsageInv, UsageTypeOK
<1>7. UsageTypeOK'
  <2>1. counter' \in [Counters -> Nat] /\ net' \in [Counters -> Int]
    BY <1>1, <1>2, <1>5 DEF UsageInv, UsageTypeOK
  <2>2. ticket' \in [Handlers -> {NoTicket} \cup Tickets]
    BY <1>2, <1>3 DEF UsageInv, UsageTypeOK, Tickets
  <2> QED
    BY <1>2, <1>6, <2>1, <2>2 DEF UsageInv, UsageTypeOK, Tickets
<1>8. LimitsKnown' /\ ReturnDated'
  BY <1>2, <1>3, <1>5 DEF UsageInv, LimitsKnown, ReturnDated
<1>9. LimitRespected'
  BY <1>2, <1>5, <1>6 DEF UsageInv, LimitRespected
<1>10. CounterExact'
  BY <1>5, <1>6 DEF UsageInv, CounterExact
<1>11. HeldCounted'
  <2> SUFFICES ASSUME NEW c \in Counters PROVE Cardinality(Holders(c)') <= net'[c]
    BY DEF HeldCounted
  <2>1. Cardinality(Holders(c)) <= net[c] /\ net[c] \in Int /\ Cardinality(Holders(c)) \in Nat
    BY HoldersFinite DEF UsageInv, HeldCounted, UsageTypeOK
  <2>2. h \notin Holders(c)
    BY <1>1 DEF Holders
  <2>3. CASE c = c0
    <3>1. Holders(c)' = Holders(c) \cup {h}
      BY <1>2, <1>3, <2>3, HoldersAfter DEF UsageInv
    <3>2. Cardinality(Holders(c)') = Cardinality(Holders(c)) + 1
      BY <2>2, <3>1, HoldersFinite, FS_AddElement
    <3> QED
      BY <1>5, <2>1, <2>3, <3>2
  <2>4. CASE c # c0
    <3>1. Holders(c)' = Holders(c) \ {h}
      BY <1>2, <1>3, <2>4, HoldersAfter DEF UsageInv
    <3>2. Holders(c)' = Holders(c)
      BY <2>2, <3>1
    <3> QED
      BY <1>5, <2>1, <2>4, <3>2
  <2> QED
    BY <2>3, <2>4
<1> QED
  BY <1>7, <1>8, <1>9, <1>10, <1>11 DEF UsageInv

\* Both ways to be granted a use, and the refusal.
LEMMA GrantingStep ==
    ASSUME UsageInv, NEW h \in Handlers
    PROVE  /\ RecordUse(h) => UsageInv'
           /\ TryIncrement(h) => UsageInv'
<1>1. ASSUME RecordUse(h) PROVE UsageInv'
  BY <1>1, GrantedStep DEF RecordUse
<1>2. ASSUME TryIncrement(h) PROVE UsageInv'
  <2> DEFINE c == Reserved(ticket[h])
  <2>1. ticket[h].step = "count" /\ ticket[h] \in Tickets /\ c \in Counters
    BY <1>2, TicketTyped DEF TryIncrement, UsageInv
  <2>2. CASE UnderLimit(h) /\ Granted(h) /\ UNCHANGED disturbed
    <3>1. counter[c] + 1 <= ticket[h].limit /\ ticket[h].limit <= highest[ticket[h].kind]
      BY <2>1, <2>2 DEF UnderLimit, UsageInv, LimitsKnown
    <3>2. c[3] = ticket[h].kind
      BY DEF Reserved
    <3>3. counter[c] \in Nat /\ ticket[h].limit \in Nat /\ highest[ticket[h].kind] \in Nat
      BY <2>1, UsageAssumption DEF UsageInv, UsageTypeOK, Tickets
    <3>4. counter[c] + 1 <= highest[c[3]]
      BY <3>1, <3>2, <3>3
    <3> QED
      BY <2>1, <2>2, <3>4, GrantedStep
  <2>3. CASE /\ ticket' = [ticket EXCEPT ![h].step = "refused"]
             /\ UNCHANGED <<today, counter, limit, premium, adjusting, edits, net, highest, disturbed>>
    <3> DEFINE t == [ticket[h] EXCEPT !.step = "refused"]
    <3>1. TicketFacts(t) /\ ~Holding(t)
      BY <2>1 DEF TicketFacts, Tickets, Holding
    <3>2. ticket' = [ticket EXCEPT ![h] = t]
      BY <2>3 DEF UsageInv, UsageTypeOK
    <3> HIDE DEF t
    <3> QED
      BY <2>3, <3>1, <3>2, TicketMoves
  <2> QED
    BY <1>2, <2>2, <2>3 DEF TryIncrement
<1> QED
  BY <1>1, <1>2

\* A refund lowers the counter of its own day; if that is the day of the reservation
\* the counter is not zero, because the use is still held.
LEMMA DecrementStep ==
    ASSUME UsageInv, NEW h \in Handlers, Decrement(h)
    PROVE  UsageInv'
<1> DEFINE c0 == Reserved(ticket[h])
           c1 == Returned(ticket[h])
           t == [ticket[h] EXCEPT !.step = "returned"]
<1>1. /\ ticket[h] \in Tickets /\ c0 \in Counters /\ Holding(ticket[h])
      /\ ticket[h].step = "refund"
  BY TicketTyped DEF Decrement, UsageInv, Holding
<1>2. c1 \in Counters /\ (ticket[h].returns = ticket[h].day => c1 = c0)
  <2>1. ticket[h].returns \in Days
    BY <1>1 DEF UsageInv, ReturnDated
  <2> QED
    BY <1>1, <2>1 DEF Returned, Reserved, Counters, Tickets
<1>3. /\ counter' = [counter EXCEPT ![c1] = Lowered(@)]
      /\ net' = [net EXCEPT ![c0] = @ - 1]
      /\ ticket' = [ticket EXCEPT ![h] = t]
      /\ UNCHANGED <<today, limit, premium, adjusting, edits, highest>>
      /\ \/ c0 = c1 /\ UNCHANGED disturbed
         \/ disturbed' = [disturbed EXCEPT !.refund = @ \cup {c0, c1}]
  BY <1>2 DEF Decrement, UsageInv, UsageTypeOK
<1>4. t \in Tickets /\ t.step = "returned" /\ ~Holding(t)
  BY <1>1 DEF Tickets, Holding
<1>0. h \in Holders(c0)
  BY <1>1 DEF Holders
<1> HIDE DEF t, c0, c1
<1>5. /\ ticket'[h] = t /\ \A g \in Handlers : g # h => ticket'[g] = ticket[g]
      /\ counter[c1] \in Nat /\ counter'[c1] = Lowered(counter[c1])
      /\ net[c0] \in Int /\ net'[c0] = net[c0] - 1
      /\ \A c \in Counters : c # c1 => counter'[c] = counter[c]
      /\ \A c \in Counters : c # c0 => net'[c] = net[c]
  BY <1>1, <1>2, <1>3 DEF UsageInv, UsageTypeOK
<1>6. Lowered(counter[c1]) \in Nat /\ Lowered(counter[c1]) <= counter[c1]
  BY <1>5 DEF Lowered
<1>7. /\ disturbed' \in [refund : SUBSET Counters, free : SUBSET Counters]
      /\ disturbed'.free = disturbed.free
      /\ disturbed.refund \subseteq disturbed'.refund
      /\ c0 # c1 => c0 \in disturbed'.refund /\ c1 \in disturbed'.refund
  BY <1>1, <1>2, <1>3 DEF UsageInv, UsageTypeOK
<1>8. UsageTypeOK'
  <2>1. counter' \in [Counters -> Nat] /\ net' \in [Counters -> Int]
    BY <1>1, <1>2, <1>3, <1>5, <1>6 DEF UsageInv, UsageTypeOK
  <2>2. ticket' \in [Handlers -> {NoTicket} \cup Tickets]
    BY <1>3, <1>4 DEF UsageInv, UsageTypeOK, Tickets
  <2> QED
    BY <1>3, <1>7, <2>1, <2>2 DEF UsageInv, UsageTypeOK, Tickets
<1>9. LimitsKnown' /\ ReturnDated'
  BY <1>3, <1>4, <1>5 DEF UsageInv, LimitsKnown, ReturnDated
<1>10. LimitRespected'
  <2> SUFFICES ASSUME NEW c \in Counters, c \notin disturbed'.free
               PROVE  counter'[c] <= highest'[c[3]]
    BY DEF LimitRespected
  <2>1. counter[c] <= highest[c[3]] /\ highest' = highest
    BY <1>3, <1>7 DEF UsageInv, LimitRespected
  <2>2. counter[c] \in Nat /\ counter'[c] \in Nat /\ counter'[c] <= counter[c]
    BY <1>5, <1>6 DEF UsageInv, UsageTypeOK
  <2>3. c[3] \in Kinds /\ highest[c[3]] \in Nat
    BY UsageAssumption DEF Counters, UsageInv, UsageTypeOK
  <2> QED
    BY <2>1, <2>2, <2>3
<1>11. Cardinality(Holders(c0)) <= net[c0] /\ Cardinality(Holders(c0)) > 0 /\ Cardinality(Holders(c0)) \in Nat
  BY <1>0, <1>1, HoldersFinite, FS_EmptySet DEF UsageInv, HeldCounted
<1>12. CounterExact'
  <2> SUFFICES ASSUME NEW c \in Counters, c \notin disturbed'.refund
               PROVE  counter'[c] = net'[c]
    BY DEF CounterExact
  <2>1. counter[c] = net[c]
    BY <1>7 DEF UsageInv, CounterExact
  <2>2. CASE c # c0 /\ c # c1
    BY <1>5, <2>1, <2>2
  <2>3. CASE c = c0 /\ c0 = c1
    <3>1. counter[c] \in Nat /\ counter[c] > 0
      BY <1>5, <1>11, <2>1, <2>3
    <3> QED
      BY <1>5, <2>1, <2>3, <3>1 DEF Lowered
  <2> QED
    BY <1>7, <2>2, <2>3
<1>13. HeldCounted'
  <2> SUFFICES ASSUME NEW c \in Counters PROVE Cardinality(Holders(c)') <= net'[c]
    BY DEF HeldCounted
  <2>1. Cardinality(Holders(c)) <= net[c] /\ net[c] \in Int /\ Cardinality(Holders(c)) \in Nat
    BY HoldersFinite DEF UsageInv, HeldCounted, UsageTypeOK
  <2>2. Holders(c)' = Holders(c) \ {h}
    BY <1>3, <1>4, HoldersAfter DEF UsageInv
  <2>3. CASE c = c0
    <3>1. Cardinality(Holders(c)') = Cardinality(Holders(c)) - 1
      BY <1>0, <2>2, <2>3, HoldersFinite, FS_RemoveElement
    <3> QED
      BY <1>5, <2>1, <2>3, <3>1
  <2>4. CASE c # c0
    <3>1. h \notin Holders(c)
      BY <2>4 DEF Holders, c0
    <3>2. Holders(c)' = Holders(c)
      BY <2>2, <3>1
    <3> QED
      BY <1>5, <2>1, <2>4, <3>2
  <2> QED
    BY <2>3, <2>4
<1> QED
  BY <1>8, <1>9, <1>10, <1>12, <1>13 DEF UsageInv

------------------------------------------------------------------------------
\* Limits, old and new, stay below the highest.
LEMMA LimitSetStep ==
    ASSUME UsageInv, NEW k \in Kinds, NEW value \in 1..MaxLimit, LimitSet(k, value)
    PROVE  /\ limit' \in [Kinds -> 1..MaxLimit] /\ highest' \in [Kinds -> 1..MaxLimit]
           /\ \A q \in Kinds : highest[q] <= highest'[q] /\ limit'[q] <= highest'[q]
<1>1. /\ limit' = [limit EXCEPT ![k] = value]
      /\ highest' = [highest EXCEPT ![k] = IF value > highest[k] THEN value ELSE highest[k]]
      /\ limit \in [Kinds -> 1..MaxLimit] /\ highest \in [Kinds -> 1..MaxLimit]
      /\ \A q \in Kinds : limit[q] <= highest[q]
  BY DEF LimitSet, UsageInv, UsageTypeOK, LimitsKnown
<1> DEFINE m == IF value > highest[k] THEN value ELSE highest[k]
<1>2. m \in 1..MaxLimit /\ highest[k] <= m /\ value <= m
  BY <1>1, UsageAssumption
<1>3. highest' = [highest EXCEPT ![k] = m]
  BY <1>1
<1> HIDE DEF m
<1>4. limit' \in [Kinds -> 1..MaxLimit] /\ highest' \in [Kinds -> 1..MaxLimit]
  BY <1>1, <1>2, <1>3
<1>5. ASSUME NEW q \in Kinds PROVE highest[q] <= highest'[q] /\ limit'[q] <= highest'[q]
  BY <1>1, <1>2, <1>3, UsageAssumption
<1> QED
  BY <1>4, <1>5

\* A new limit leaves what was counted and read below the highest.
LEMMA LimitSetKeeps ==
    ASSUME UsageInv, NEW k \in Kinds, NEW value \in 1..MaxLimit, LimitSet(k, value),
           UNCHANGED <<counter, ticket, net, disturbed>>
    PROVE  LimitsKnown' /\ ReturnDated' /\ LimitRespected' /\ CounterExact' /\ HeldCounted'
<1>1. /\ highest \in [Kinds -> 1..MaxLimit] /\ highest' \in [Kinds -> 1..MaxLimit]
      /\ \A q \in Kinds : highest[q] <= highest'[q] /\ limit'[q] <= highest'[q]
  BY LimitSetStep DEF UsageInv, UsageTypeOK
<1>2. \A q \in Kinds : highest[q] \in Nat /\ highest'[q] \in Nat
  BY <1>1, UsageAssumption
<1>3. LimitsKnown'
  <2> SUFFICES ASSUME NEW h \in Handlers, ticket[h].step = "count"
               PROVE  ticket[h].limit <= highest'[ticket[h].kind]
    BY <1>1 DEF LimitsKnown
  <2>1. ticket[h] \in Tickets
    BY TicketTyped DEF UsageInv
  <2>2. ticket[h].kind \in Kinds /\ ticket[h].limit \in Nat
    BY <2>1, UsageAssumption DEF Tickets
  <2>3. ticket[h].limit <= highest[ticket[h].kind]
    BY DEF UsageInv, LimitsKnown
  <2> QED
    BY <1>1, <1>2, <2>2, <2>3
<1>4. LimitRespected'
  <2> SUFFICES ASSUME NEW c \in Counters, c \notin disturbed.free
               PROVE  counter[c] <= highest'[c[3]]
    BY DEF LimitRespected
  <2>1. c[3] \in Kinds /\ counter[c] \in Nat
    BY DEF Counters, UsageInv, UsageTypeOK
  <2>2. counter[c] <= highest[c[3]]
    BY DEF UsageInv, LimitRespected
  <2> QED
    BY <1>1, <1>2, <2>1, <2>2
<1>5. ReturnDated' /\ CounterExact' /\ HeldCounted'
  BY DEF UsageInv, ReturnDated, CounterExact, HeldCounted, Holders
<1> QED
  BY <1>3, <1>4, <1>5

\* The administrator's steps.
LEMMA AdminStepKeeps == UsageInv /\ AdminStep => UsageInv'
<1> SUFFICES ASSUME UsageInv, AdminStep PROVE UsageInv'
  OBVIOUS
<1>0. edits \in 0..MaxEdits
  BY DEF UsageInv, UsageTypeOK
<1>1. CASE ReadAdjust
  <2>1. adjusting' \in [kind : Kinds, value : 1..MaxLimit]
    <3>1. PICK k \in Kinds :
            \E value \in {limit[k] + 1, IF limit[k] > 1 THEN limit[k] - 1 ELSE 1} :
               value <= MaxLimit /\ adjusting' = [kind |-> k, value |-> value]
      BY <1>1 DEF ReadAdjust
    <3>2. limit[k] \in 1..MaxLimit
      BY DEF UsageInv, UsageTypeOK
    <3> QED
      BY <3>1, <3>2, UsageAssumption
  <2>2. edits' \in 0..MaxEdits
    BY <1>0, <1>1, UsageAssumption DEF ReadAdjust
  <2> QED
    BY <1>1, <2>1, <2>2
    DEF ReadAdjust, UsageInv, UsageTypeOK, LimitsKnown, ReturnDated, LimitRespected, CounterExact,
        HeldCounted, Holders
<1>2. CASE WriteAdjust
  <2>1. adjusting.kind \in Kinds /\ adjusting.value \in 1..MaxLimit
    BY <1>2 DEF WriteAdjust, UsageInv, UsageTypeOK
  <2>2. /\ LimitSet(adjusting.kind, adjusting.value) /\ adjusting' = NoAdjust
        /\ UNCHANGED <<today, counter, premium, edits, ticket, net, disturbed>>
    BY <1>2 DEF WriteAdjust
  <2>3. limit' \in [Kinds -> 1..MaxLimit] /\ highest' \in [Kinds -> 1..MaxLimit]
    BY <2>1, <2>2, LimitSetStep
  <2>4. UsageTypeOK'
    BY <2>2, <2>3 DEF UsageInv, UsageTypeOK
  <2>5. LimitsKnown' /\ ReturnDated' /\ LimitRespected' /\ CounterExact' /\ HeldCounted'
    BY <2>1, <2>2, LimitSetKeeps
  <2> QED
    BY <2>4, <2>5 DEF UsageInv
<1>3. ASSUME NEW k \in Kinds, SetLimit(k) PROVE UsageInv'
  <2>1. PICK value \in 1..MaxLimit : LimitSet(k, value)
    BY <1>3 DEF SetLimit
  <2>2. limit' \in [Kinds -> 1..MaxLimit] /\ highest' \in [Kinds -> 1..MaxLimit]
    BY <2>1, LimitSetStep
  <2>3. edits' \in 0..MaxEdits
    BY <1>0, <1>3, UsageAssumption DEF SetLimit
  <2>4. UNCHANGED <<today, counter, premium, adjusting, ticket, net, disturbed>>
    BY <1>3 DEF SetLimit
  <2>5. UsageTypeOK'
    BY <2>2, <2>3, <2>4 DEF UsageInv, UsageTypeOK
  <2>6. LimitsKnown' /\ ReturnDated' /\ LimitRespected' /\ CounterExact' /\ HeldCounted'
    BY <2>1, <2>4, LimitSetKeeps
  <2> QED
    BY <2>5, <2>6 DEF UsageInv
<1>4. ASSUME NEW u \in Users, ChangePlan(u) PROVE UsageInv'
  <2>1. premium' \in [Users -> BOOLEAN]
    BY <1>4 DEF ChangePlan, UsageInv, UsageTypeOK
  <2>2. edits' \in 0..MaxEdits
    BY <1>0, <1>4, UsageAssumption DEF ChangePlan
  <2> QED
    BY <1>4, <2>1, <2>2
    DEF ChangePlan, UsageInv, UsageTypeOK, LimitsKnown, ReturnDated, LimitRespected, CounterExact,
        HeldCounted, Holders
<1>5. ASSUME NEW u \in Users, ResetUser(u) PROVE UsageInv'
  <2> DEFINE row == {c \in Counters : c[1] = u /\ c[2] = today}
  <2>1. /\ counter' = [c \in Counters |-> IF c \in row THEN 0 ELSE counter[c]]
        /\ disturbed' = [disturbed EXCEPT !.refund = @ \cup row]
        /\ edits' = edits + 1 /\ edits < MaxEdits
        /\ UNCHANGED <<today, limit, premium, adjusting, ticket, net, highest>>
    BY <1>5 DEF ResetUser
  <2>2. row \subseteq Counters
    OBVIOUS
  <2> HIDE DEF row
  <2>3. counter' \in [Counters -> Nat] /\ edits' \in 0..MaxEdits
    BY <1>0, <2>1, UsageAssumption DEF UsageInv, UsageTypeOK
  <2>4. /\ disturbed' \in [refund : SUBSET Counters, free : SUBSET Counters]
        /\ disturbed'.refund = disturbed.refund \cup row /\ disturbed'.free = disturbed.free
    BY <2>1, <2>2 DEF UsageInv, UsageTypeOK
  <2>5. UsageTypeOK'
    BY <2>1, <2>3, <2>4 DEF UsageInv, UsageTypeOK
  <2>6. LimitRespected'
    <3> SUFFICES ASSUME NEW c \in Counters, c \notin disturbed'.free
                 PROVE  counter'[c] <= highest[c[3]]
      BY <2>1 DEF LimitRespected
    <3>1. c[3] \in Kinds
      BY DEF Counters
    <3>2. highest[c[3]] \in Nat /\ 0 <= highest[c[3]]
      BY <3>1, UsageAssumption DEF UsageInv, UsageTypeOK
    <3>3. counter[c] <= highest[c[3]]
      BY <2>4 DEF UsageInv, LimitRespected
    <3> QED
      BY <2>1, <3>2, <3>3
  <2>7. CounterExact'
    BY <2>1, <2>4 DEF UsageInv, CounterExact
  <2>8. LimitsKnown' /\ ReturnDated' /\ HeldCounted'
    BY <2>1 DEF UsageInv, LimitsKnown, ReturnDated, HeldCounted, Holders
  <2> QED
    BY <2>5, <2>6, <2>7, <2>8 DEF UsageInv
<1> QED
  BY <1>1, <1>2, <1>3, <1>4, <1>5 DEF AdminStep

\* Midnight, and steps that leave the limits alone but for the number of edits.
LEMMA ClockStep ==
    ASSUME UsageInv,
           \/ Midnight
           \/ /\ edits' \in 0..MaxEdits
              /\ UNCHANGED <<today, counter, limit, premium, adjusting, ticket, net, highest, disturbed>>
    PROVE  UsageInv'
<1>1. today' \in Days /\ edits' \in 0..MaxEdits
  BY UsageAssumption DEF Midnight, UsageInv, UsageTypeOK, Days
<1>2. UNCHANGED <<counter, limit, premium, adjusting, ticket, net, highest, disturbed>>
  BY DEF Midnight
<1> QED
  BY <1>1, <1>2
  DEF UsageInv, UsageTypeOK, LimitsKnown, ReturnDated, LimitRespected, CounterExact, HeldCounted,
      Holders

\* The invariant holds of a first day on which nothing was counted.
LEMMA UsageInitially == UsageInit => UsageInv
<1> SUFFICES ASSUME UsageInit PROVE UsageInv
  OBVIOUS
<1>1. UsageTypeOK
  BY UsageAssumption DEF UsageInit, UsageTypeOK, Days
<1>2. LimitsKnown /\ ReturnDated
  BY UsageAssumption DEF UsageInit, LimitsKnown, ReturnDated, NoTicket
<1>3. LimitRespected /\ CounterExact
  <2> SUFFICES ASSUME NEW c \in Counters PROVE counter[c] <= highest[c[3]] /\ counter[c] = net[c]
    BY DEF LimitRespected, CounterExact
  <2>1. c[3] \in Kinds
    BY DEF Counters
  <2> QED
    BY <2>1, UsageAssumption DEF UsageInit
<1>4. HeldCounted
  <2> SUFFICES ASSUME NEW c \in Counters PROVE Cardinality(Holders(c)) <= net[c]
    BY DEF HeldCounted
  <2>1. Holders(c) = {}
    BY DEF UsageInit, Holders, Holding, NoTicket
  <2> QED
    BY <2>1, FS_EmptySet DEF UsageInit
<1> QED
  BY <1>1, <1>2, <1>3, <1>4 DEF UsageInv

------------------------------------------------------------------------------
(* What the records hold.  A handler inside a message or the catalog has a *)
(* lock; one that works on a summary has none.                             *)

Text == Contents \cup {None}
Row == [owner : Users \cup {None}, content : Text, summary : Text, audio : Text]
Sess == [sid : Nat, doc : Nat, content : Text, summary : Text, audio : Text,
         delivered : BOOLEAN, generating : BOOLEAN]
LockedPlaces == {"queued", "reserving", "extracting", "saving", "matching", "announcing",
                 "leaving", "fetching", "opening"}
FreePlaces == {"charging", "voicing", "storing", "keeping", "repeating", "apologising"}
Seat == [at : LockedPlaces \cup FreePlaces \cup {"idle"}, user : Users \cup {0}, content : Text,
         doc : Nat, session : Sess, scope : Scopes \cup {"none"}, lock : Nat]

SeatFits(r) ==
    /\ r.at \in LockedPlaces => r.user \in Users /\ r.scope \in Scopes /\ r.lock \in Locks
    /\ r.at \in FreePlaces => r.user \in Users /\ r.lock = 0
    /\ r.at = "idle" => r.lock = 0
    /\ r.doc <= Len(docs)
    /\ r.at = "announcing" => r.session.sid \in 1..opened

DocsFit == docs \in Seq(Row) /\ Len(docs) <= MaxDocs
SessionsFit ==
    /\ opened \in Nat
    /\ session \in [Users -> Sess]
    /\ \A u \in Users : session[u].sid <= opened /\ session[u].doc <= Len(docs)
    /\ voicing \subseteq 1..opened
SeatsFit == handler \in [Handlers -> Seat] /\ \A h \in Handlers : SeatFits(handler[h])

WorldFits == DocsFit /\ SessionsFit /\ SeatsFit

\* Nothing shrinks: rows are never reused, and sessions are numbered.
Grows == /\ Len(docs') \in Nat /\ Len(docs) <= Len(docs')
         /\ opened' \in Nat /\ opened <= opened'

------------------------------------------------------------------------------
\* One seat, one session or one row changes.
LEMMA LenDocs == ASSUME DocsFit PROVE Len(docs) \in Nat /\ DOMAIN docs = 1..Len(docs)
  BY DEF DocsFit

\* A row of the catalog is a record of texts.
LEMMA RowTyped == ASSUME WorldFits, NEW n \in DOMAIN docs PROVE docs[n] \in Row
  BY DEF WorldFits, DocsFit

\* One handler takes another place, and the others fit as before.
LEMMA SeatTaken ==
    ASSUME WorldFits, NEW h \in Handlers, NEW r \in Seat, Grows,
           handler' = [handler EXCEPT ![h] = r], SeatFits(r)'
    PROVE  SeatsFit'
<1>1. handler' \in [Handlers -> Seat]
  BY DEF WorldFits, SeatsFit
<1>2. handler'[h] = r /\ \A g \in Handlers : g # h => handler'[g] = handler[g]
  BY DEF WorldFits, SeatsFit
<1>3. ASSUME NEW g \in Handlers, g # h PROVE SeatFits(handler[g])'
  <2>1. SeatFits(handler[g]) /\ handler[g] \in Seat /\ handler'[g] = handler[g]
    BY <1>2, <1>3 DEF WorldFits, SeatsFit
  <2>2. handler[g].doc \in Nat /\ handler[g].session.sid \in Nat /\ Len(docs) \in Nat /\ opened \in Nat
    BY <2>1, LenDocs DEF Seat, Sess, WorldFits, SessionsFit
  <2> QED
    BY <2>1, <2>2 DEF SeatFits, Grows, Locks
<1>4. SeatFits(handler[h])'
  BY <1>2 DEF SeatFits
<1> QED
  BY <1>1, <1>3, <1>4 DEF SeatsFit

\* No handler moves.
LEMMA SeatsKept == ASSUME WorldFits, Grows, UNCHANGED handler PROVE SeatsFit'
<1> SUFFICES ASSUME NEW g \in Handlers PROVE SeatFits(handler[g])'
  BY DEF WorldFits, SeatsFit
<1>1. SeatFits(handler[g]) /\ handler[g] \in Seat
  BY DEF WorldFits, SeatsFit
<1>2. handler[g].doc \in Nat /\ handler[g].session.sid \in Nat /\ Len(docs) \in Nat /\ opened \in Nat
  BY <1>1, LenDocs DEF Seat, Sess, WorldFits, SessionsFit
<1> QED
  BY <1>1, <1>2 DEF SeatFits, Grows, Locks

\* An idle handler fits anywhere.
LEMMA IdleFits ==
    ASSUME WorldFits, Grows PROVE Idle \in Seat /\ SeatFits(Idle)'
<1>1. NoSession \in Sess
  BY DEF NoSession, Sess, Text, None
<1>2. Idle \in Seat
  BY <1>1 DEF Idle, Seat, Text, None
<1> QED
  BY <1>2, LenDocs DEF SeatFits, Idle, LockedPlaces, FreePlaces, Grows

\* One session is stored, and the others fit as before.
LEMMA SessionStored ==
    ASSUME WorldFits, Grows, NEW u \in Users, NEW s \in Sess, UNCHANGED voicing,
           s.sid <= opened', s.doc <= Len(docs'),
           session' = [session EXCEPT ![u] = s] \/ session' = session
    PROVE  SessionsFit'
<1>1. session' \in [Users -> Sess]
  BY DEF WorldFits, SessionsFit
<1>2. \A v \in Users : session'[v] = session[v] \/ session'[v] = s
  BY DEF WorldFits, SessionsFit
<1>3. ASSUME NEW v \in Users PROVE session'[v].sid <= opened' /\ session'[v].doc <= Len(docs')
  <2>1. session[v] \in Sess /\ session[v].sid <= opened /\ session[v].doc <= Len(docs)
    BY DEF WorldFits, SessionsFit
  <2>2. session[v].sid \in Nat /\ session[v].doc \in Nat /\ opened \in Nat /\ Len(docs) \in Nat
    BY <2>1, LenDocs DEF Sess, WorldFits, SessionsFit
  <2> QED
    BY <1>2, <2>1, <2>2 DEF Grows
<1>4. voicing' \subseteq 1..opened'
  BY DEF WorldFits, SessionsFit, Grows
<1> QED
  BY <1>1, <1>3, <1>4 DEF SessionsFit, Grows

\* No session changes.
LEMMA SessionsKept == ASSUME WorldFits, Grows, UNCHANGED <<session, voicing>> PROVE SessionsFit'
<1>1. ASSUME NEW v \in Users PROVE session[v].sid <= opened' /\ session[v].doc <= Len(docs')
  <2>1. session[v] \in Sess /\ session[v].sid <= opened /\ session[v].doc <= Len(docs)
    BY DEF WorldFits, SessionsFit
  <2>2. session[v].sid \in Nat /\ session[v].doc \in Nat /\ opened \in Nat /\ Len(docs) \in Nat
    BY <2>1, LenDocs DEF Sess, WorldFits, SessionsFit
  <2> QED
    BY <2>1, <2>2 DEF Grows
<1>2. voicing' \subseteq 1..opened'
  BY DEF WorldFits, SessionsFit, Grows
<1> QED
  BY <1>1, <1>2 DEF WorldFits, SessionsFit, Grows

\* A summary or a voice is stored in a row: rows stay in shape, none is added.
LEMMA DocsStored ==
    ASSUME WorldFits, NEW u, NEW n, NEW s \in Text,
           docs' = SummarySaved(u, n, s) \/ docs' = AudioSaved(u, n, s)
    PROVE  DocsFit' /\ Len(docs') = Len(docs)
<1>0. docs \in Seq(Row) /\ Len(docs) <= MaxDocs
  BY DEF WorldFits, DocsFit
<1>1. CASE docs' = docs
  BY <1>0, <1>1 DEF DocsFit
<1>2. ASSUME n \in DOMAIN docs, NEW r \in Row, docs' = [docs EXCEPT ![n] = r]
      PROVE  DocsFit' /\ Len(docs') = Len(docs)
  BY <1>0, <1>2 DEF DocsFit
<1>3. CASE docs' # docs
  <2>1. n \in DOMAIN docs
    BY <1>3 DEF SummarySaved, AudioSaved, OwnRow, Rows
  <2>2. docs[n] \in Row
    BY <1>0, <2>1
  <2>3. [docs[n] EXCEPT !.summary = s] \in Row /\ [docs[n] EXCEPT !.audio = s] \in Row
    BY <2>2 DEF Row
  <2>4. \/ docs' = [docs EXCEPT ![n] = [docs[n] EXCEPT !.summary = s]]
        \/ docs' = [docs EXCEPT ![n] = [docs[n] EXCEPT !.audio = s]]
    BY <1>3 DEF SummarySaved, AudioSaved
  <2> QED
    BY <1>2, <2>1, <2>3, <2>4
<1> QED
  BY <1>1, <1>3

\* Rows are deleted: the ids of the others stay.
LEMMA DocsDropped ==
    ASSUME WorldFits, NEW ns, docs' = RowsDeleted(ns)
    PROVE  DocsFit' /\ Len(docs') = Len(docs)
<1> DEFINE n == Len(docs)
<1>1. docs \in Seq(Row) /\ n \in Nat /\ DOMAIN docs = 1..n /\ n <= MaxDocs
  BY DEF WorldFits, DocsFit
<1>2. Gone \in Row
  BY DEF Gone, Row, Text, None
<1>3. \A i \in 1..n : docs[i] \in Row
  BY <1>1
<1>4. docs' = [i \in 1..n |-> IF i \in ns THEN Gone ELSE docs[i]]
  BY <1>1 DEF RowsDeleted
<1> HIDE DEF n
<1>5. docs' \in [1..n -> Row]
  BY <1>2, <1>3, <1>4
<1>6. docs' \in Seq(Row) /\ Len(docs') = n
  BY <1>1, <1>5
<1> QED
  BY <1>1, <1>6 DEF DocsFit, n

------------------------------------------------------------------------------
(* What a step does to the handlers and their locks.                       *)

Moves(h, r) ==
    /\ handler' = [handler EXCEPT ![h] = r]
    /\ UNCHANGED lockVars
    /\ r.user = handler[h].user /\ r.scope = handler[h].scope /\ r.lock = handler[h].lock
    /\ r.at \notin {"idle", "queued"} /\ handler[h].at # "idle"
    /\ handler[h].at = "queued" => LockFree(handler[h].lock)

Presses(h, r) ==
    /\ handler[h].at = "idle"
    /\ handler' = [handler EXCEPT ![h] = r]
    /\ UNCHANGED lockVars
    /\ r.lock = 0

Enters(h) ==
    /\ handler[h].at = "idle"
    /\ \E u \in Users, scope \in Scopes : ReserveLock(h, u, scope)

Departs(h) ==
    /\ handler' = [handler EXCEPT ![h] = Idle]
    /\ \/ handler[h].at \in LockedPlaces /\ ReleaseLock(h)
       \/ handler[h].at \in FreePlaces /\ UNCHANGED lockVars

HandlerStep ==
    \/ UNCHANGED <<handler, lockVars>>
    \/ \E h \in Handlers : Enters(h) \/ Departs(h) \/ \E r \in Seat : Moves(h, r) \/ Presses(h, r)

\* A handler that takes another place in the same lock keeps fitting.
LEMMA PlaceTaken ==
    ASSUME WorldFits, Grows, NEW h \in Handlers, NEW r \in Seat,
           handler' = [handler EXCEPT ![h] = r], UNCHANGED lockVars,
           r.user = handler[h].user, r.scope = handler[h].scope, r.lock = handler[h].lock,
           \/ handler[h].at \in LockedPlaces /\ r.at \in LockedPlaces \ {"queued"}
           \/ handler[h].at \in FreePlaces /\ r.at \in FreePlaces,
           handler[h].at = "queued" => LockFree(handler[h].lock),
           r.doc <= Len(docs'), r.at = "announcing" => r.session.sid \in 1..opened'
    PROVE  SeatsFit' /\ HandlerStep
<1>1. SeatFits(handler[h])
  BY DEF WorldFits, SeatsFit
<1>2. SeatFits(r)'
  BY <1>1 DEF SeatFits, LockedPlaces, FreePlaces, Locks
<1>3. SeatsFit'
  BY <1>2, SeatTaken
<1>4. Moves(h, r)
  BY DEF Moves, LockedPlaces, FreePlaces
<1> QED
  BY <1>3, <1>4 DEF HandlerStep

\* The same for a change of the place alone.
LEMMA PlaceAlone ==
    ASSUME WorldFits, Grows, NEW h \in Handlers, NEW place, Goes(h, place), UNCHANGED lockVars,
           \/ handler[h].at \in LockedPlaces /\ place \in LockedPlaces \ {"queued", "announcing"}
           \/ handler[h].at \in FreePlaces /\ place \in FreePlaces,
           handler[h].at = "queued" => LockFree(handler[h].lock)
    PROVE  SeatsFit' /\ HandlerStep
<1> DEFINE r == [handler[h] EXCEPT !.at = place]
<1>1. handler[h] \in Seat /\ handler' = [handler EXCEPT ![h] = r]
  BY DEF Goes, WorldFits, SeatsFit
<1>2. r \in Seat /\ r.at = place /\ r.user = handler[h].user /\ r.scope = handler[h].scope
      /\ r.lock = handler[h].lock /\ r.doc = handler[h].doc
  BY <1>1 DEF Seat
<1>3. r.doc <= Len(docs')
  <2>1. handler[h].doc \in Nat /\ handler[h].doc <= Len(docs) /\ Len(docs) \in Nat
    BY <1>1, LenDocs DEF Seat, WorldFits, SeatsFit, SeatFits
  <2> QED
    BY <1>2, <2>1 DEF Grows
<1> HIDE DEF r
<1>4. r.at # "announcing"
  BY <1>2 DEF FreePlaces
<1> QED
  BY <1>1, <1>2, <1>3, <1>4, PlaceTaken

\* Leaving for good.
LEMMA HandlerLeaves ==
    ASSUME WorldFits, Grows, NEW h \in Handlers, handler' = [handler EXCEPT ![h] = Idle],
           \/ handler[h].at \in LockedPlaces /\ ReleaseLock(h)
           \/ handler[h].at \in FreePlaces /\ UNCHANGED lockVars
    PROVE  SeatsFit' /\ HandlerStep
<1>1. SeatsFit'
  BY IdleFits, SeatTaken
<1> QED
  BY <1>1 DEF HandlerStep, Departs

------------------------------------------------------------------------------
(* Every step keeps the records in shape and is a step of a handler.       *)

\* Rows and sessions only become more.
LEMMA Grown ==
    ASSUME WorldFits, DocsFit', Len(docs) <= Len(docs'), opened' \in {opened, opened + 1}
    PROVE  Grows
<1>1. Len(docs') \in Nat
  BY DEF DocsFit
<1>2. opened \in Nat
  BY DEF WorldFits, SessionsFit
<1> QED
  BY <1>1, <1>2 DEF Grows

\* Neither the catalog nor the number of sessions changes.
LEMMA Still == ASSUME WorldFits, UNCHANGED <<docs, opened>> PROVE Grows /\ DocsFit'
  BY LenDocs DEF WorldFits, SessionsFit, Grows, DocsFit

\* What a handler remembers is typed.
LEMMA Seated ==
    ASSUME WorldFits, NEW h \in Handlers
    PROVE  /\ handler[h] \in Seat /\ SeatFits(handler[h])
           /\ handler[h].session \in Sess /\ handler[h].doc \in Nat /\ handler[h].content \in Text
           /\ handler[h].at \in LockedPlaces \cup FreePlaces => handler[h].user \in Users
  BY DEF WorldFits, SeatsFit, Seat, SeatFits

\* What the session of a user holds is typed.
LEMMA OwnSession ==
    ASSUME WorldFits, NEW u \in Users
    PROVE  session[u] \in Sess /\ session[u].sid <= opened /\ session[u].doc <= Len(docs)
  BY DEF WorldFits, SessionsFit

\* The empty session is a session.
LEMMA NoSessionFits == NoSession \in Sess /\ NoSession.sid = 0 /\ NoSession.doc = 0
  BY DEF NoSession, Sess, Text, None

\* A session stays within what was opened and inserted.
LEMMA SessionBelow ==
    ASSUME WorldFits, Grows, NEW u \in Users
    PROVE  session[u].sid <= opened' /\ session[u].doc <= Len(docs')
<1>1. session[u] \in Sess /\ session[u].sid <= opened /\ session[u].doc <= Len(docs)
  BY OwnSession
<1>2. session[u].sid \in Nat /\ session[u].doc \in Nat /\ opened \in Nat /\ Len(docs) \in Nat
  BY <1>1, LenDocs DEF Sess, WorldFits, SessionsFit
<1> QED
  BY <1>1, <1>2 DEF Grows

\* A session is dropped.
LEMMA SessionDropped ==
    ASSUME WorldFits, Grows, NEW u \in Users, UNCHANGED voicing,
           session' = [session EXCEPT ![u] = NoSession]
    PROVE  SessionsFit'
<1>1. opened' \in Nat /\ Len(docs') \in Nat
  BY DEF Grows
<1>2. 0 <= opened' /\ 0 <= Len(docs')
  BY <1>1
<1>3. NoSession \in Sess /\ NoSession.sid <= opened' /\ NoSession.doc <= Len(docs')
  BY <1>2, NoSessionFits
<1> QED
  BY <1>3, SessionStored

\* Messages.
LEMMA ArriveStep ==
    ASSUME WorldFits, NEW h \in Handlers, NEW u \in Users, NEW scope \in Scopes,
           Arrive(h, u, scope), FreshLock \in Locks,
           lockOf[<<u, scope>>] = 0 \/ lockOf[<<u, scope>>] \in Locks
    PROVE  WorldFits' /\ HandlerStep
<1>1. handler[h].at = "idle" /\ ReserveLock(h, u, scope) /\ UNCHANGED <<docs, session, voicing, opened>>
  BY DEF Arrive, At
<1>2. Grows /\ DocsFit'
  BY <1>1, Still
<1>3. SessionsFit'
  BY <1>1, <1>2, SessionsKept
<1>4. PICK l \in Locks : handler' = [handler EXCEPT ![h] =
                 [Idle EXCEPT !.at = "queued", !.user = u, !.scope = scope, !.lock = l]]
  BY <1>1 DEF ReserveLock
<1> DEFINE r == [Idle EXCEPT !.at = "queued", !.user = u, !.scope = scope, !.lock = l]
<1>5. Idle \in Seat /\ l \in Nat
  BY <1>2, IdleFits DEF Locks
<1>6. r \in Seat /\ r.at = "queued" /\ r.user = u /\ r.scope = scope /\ r.lock = l /\ r.doc = 0
  BY <1>5 DEF Seat, LockedPlaces, Idle
<1>7. SeatFits(r)'
  BY <1>2, <1>6, LenDocs DEF SeatFits, LockedPlaces, FreePlaces, Grows, Locks
<1> HIDE DEF r
<1>8. SeatsFit'
  BY <1>2, <1>4, <1>6, <1>7, SeatTaken DEF r
<1> QED
  BY <1>1, <1>2, <1>3, <1>8 DEF WorldFits, HandlerStep, Enters

\* The message handler enters the lock: it is turned away, or drops the session.
LEMMA StartMessageStep ==
    ASSUME WorldFits, NEW h \in Handlers, StartMessage(h)
    PROVE  WorldFits' /\ HandlerStep
<1>1. /\ handler[h].at = "queued" /\ handler[h].user \in Users /\ LockFree(handler[h].lock)
      /\ UNCHANGED <<docs, voicing, lockVars, opened>>
  BY Seated DEF StartMessage, At, LockedPlaces, countVars
<1>2. Grows /\ DocsFit'
  BY <1>1, Still
<1>3. CASE Goes(h, "leaving") /\ UNCHANGED session
  <2>1. SessionsFit'
    BY <1>1, <1>2, <1>3, SessionsKept
  <2>2. SeatsFit' /\ HandlerStep
    BY <1>1, <1>2, <1>3, PlaceAlone DEF LockedPlaces
  <2> QED
    BY <1>2, <2>1, <2>2 DEF WorldFits
<1>4. ASSUME NEW c \in Contents, handler' = [handler EXCEPT ![h].at = "reserving", ![h].content = c],
             session' = [session EXCEPT ![handler[h].user] = NoSession]
      PROVE  WorldFits' /\ HandlerStep
  <2>1. SessionsFit'
    BY <1>1, <1>2, <1>4, SessionDropped
  <2> DEFINE r == [handler[h] EXCEPT !.at = "reserving", !.content = c]
  <2>2. handler[h] \in Seat /\ handler' = [handler EXCEPT ![h] = r]
    BY <1>4, Seated DEF WorldFits, SeatsFit
  <2>3. /\ r \in Seat /\ r.at = "reserving" /\ r.user = handler[h].user /\ r.scope = handler[h].scope
        /\ r.lock = handler[h].lock /\ r.doc = handler[h].doc
    BY <2>2 DEF Seat, LockedPlaces, Text
  <2> HIDE DEF r
  <2>4. r.doc <= Len(docs')
    BY <1>1, <2>3, Seated DEF SeatFits
  <2>5. SeatsFit' /\ HandlerStep
    BY <1>1, <1>2, <2>2, <2>3, <2>4, PlaceTaken DEF LockedPlaces
  <2> QED
    BY <1>2, <2>1, <2>5 DEF WorldFits
<1> QED
  BY <1>3, <1>4 DEF StartMessage

\* Steps that move a handler on and touch no session.
LEMMA AnalyzeStep ==
    ASSUME WorldFits, NEW h \in Handlers,
           Analyze(h) \/ Extract(h) \/ Summarize(h) \/ SummaryFails(h)
    PROVE  WorldFits' /\ HandlerStep
<1>1. UNCHANGED <<docs, session, voicing, lockVars, opened>>
  BY DEF Analyze, Extract, Summarize, SummaryFails, countVars
<1>2. Grows /\ DocsFit' /\ SessionsFit'
  BY <1>1, Still, SessionsKept
<1>3. PICK place \in (LockedPlaces \cup FreePlaces) \ {"queued", "announcing"} :
         /\ Goes(h, place)
         /\ \/ handler[h].at \in LockedPlaces /\ place \in LockedPlaces
            \/ handler[h].at \in FreePlaces /\ place \in FreePlaces
         /\ handler[h].at # "queued"
  BY DEF Analyze, Extract, Summarize, SummaryFails, At, LockedPlaces, FreePlaces
<1>4. SeatsFit' /\ HandlerStep
  BY <1>1, <1>2, <1>3, PlaceAlone
<1> QED
  BY <1>2, <1>4 DEF WorldFits

\* The document is inserted, or not.
LEMMA SaveStep ==
    ASSUME WorldFits, NEW h \in Handlers, Save(h)
    PROVE  WorldFits' /\ HandlerStep
<1>1. /\ handler[h].at = "saving" /\ UNCHANGED <<session, voicing, lockVars, opened>>
      /\ handler[h].at \in LockedPlaces /\ handler[h].at # "queued"
  BY DEF Save, At, LockedPlaces
<1>0. handler[h] \in Seat /\ handler[h].user \in Users /\ handler[h].content \in Text
  BY <1>1, Seated
<1>2. CASE /\ Len(docs) < MaxDocs
           /\ docs' = RowAdded(handler[h].user, handler[h].content)
           /\ handler' = [handler EXCEPT ![h].at = "matching", ![h].doc = Len(docs) + 1]
  <2> DEFINE row == [owner |-> handler[h].user, content |-> handler[h].content, summary |-> None,
                     audio |-> None]
  <2>1. row \in Row
    BY <1>0 DEF Row, Text
  <2>2. /\ Len(docs) \in Nat /\ Len(docs) < MaxDocs /\ MaxDocs \in Nat /\ docs \in Seq(Row)
        /\ docs' = Append(docs, row)
    BY <1>2, LenDocs, RequestsAssumption DEF WorldFits, DocsFit, RowAdded
  <2> HIDE DEF row
  <2>6. docs' \in Seq(Row) /\ Len(docs') = Len(docs) + 1
    BY <2>1, <2>2
  <2>3. PICK m \in Nat : m = Len(docs) + 1
    BY <2>2
  <2>0. Len(docs) <= m /\ m <= MaxDocs
    BY <2>2, <2>3
  <2> DEFINE r == [handler[h] EXCEPT !.at = "matching", !.doc = m]
  <2>4. handler' = [handler EXCEPT ![h] = r]
    BY <1>0, <1>2, <2>3 DEF WorldFits, SeatsFit
  <2>5. /\ r \in Seat /\ r.at = "matching" /\ r.user = handler[h].user /\ r.scope = handler[h].scope
        /\ r.lock = handler[h].lock /\ r.doc = m
    BY <1>0 DEF Seat, LockedPlaces
  <2> HIDE DEF r
  <2>7. DocsFit'
    BY <2>0, <2>3, <2>6 DEF DocsFit
  <2>8. Grows
    BY <1>1, <2>0, <2>3, <2>6, <2>7, Grown
  <2>9. SessionsFit'
    BY <1>1, <2>8, SessionsKept
  <2>10. r.doc <= Len(docs')
    BY <2>3, <2>5, <2>6
  <2>11. SeatsFit' /\ HandlerStep
    BY <1>1, <2>4, <2>5, <2>8, <2>10, PlaceTaken DEF LockedPlaces
  <2> QED
    BY <2>7, <2>9, <2>11 DEF WorldFits
<1>3. CASE Goes(h, "matching") /\ UNCHANGED docs
  <2>1. Grows /\ DocsFit'
    BY <1>1, <1>3, Still
  <2>2. SessionsFit'
    BY <1>1, <2>1, SessionsKept
  <2>3. SeatsFit' /\ HandlerStep
    BY <1>1, <1>3, <2>1, PlaceAlone DEF LockedPlaces
  <2> QED
    BY <2>1, <2>2, <2>3 DEF WorldFits
<1> QED
  BY <1>2, <1>3 DEF Save

\* A session is opened, from a message or from the catalog.
LEMMA OpensStep ==
    ASSUME WorldFits, NEW h \in Handlers, handler[h].at \in {"matching", "opening"},
           NEW s \in Text, NEW a \in Text,
           Opens(h, handler[h].user, handler[h].doc, handler[h].content, s, a),
           UNCHANGED <<docs, voicing, lockVars>>
    PROVE  WorldFits' /\ HandlerStep
<1>1. /\ handler[h] \in Seat /\ handler[h].user \in Users /\ handler[h].content \in Text
      /\ handler[h].doc \in Nat /\ handler[h].doc <= Len(docs) /\ handler[h].session \in Sess
      /\ handler[h].at \in LockedPlaces
  BY Seated DEF LockedPlaces, SeatFits
<1>2. opened' = opened + 1 /\ opened \in Nat
  BY DEF Opens, WorldFits, SessionsFit
<1>3. DocsFit' /\ Len(docs') = Len(docs) /\ Len(docs) \in Nat
  BY LenDocs DEF WorldFits, DocsFit
<1>4. Grows
  BY <1>2, <1>3, Grown
<1>5. PICK m \in Nat : m = opened + 1
  BY <1>2
<1> DEFINE base == [NoSession EXCEPT !.sid = m, !.doc = handler[h].doc,
                      !.content = handler[h].content, !.summary = s, !.audio = a]
           new == [NoSession EXCEPT !.sid = m, !.doc = handler[h].doc,
                     !.content = handler[h].content, !.summary = s, !.audio = a, !.generating = TRUE]
           own == [handler[h].session EXCEPT !.sid = m]
           r == [handler[h] EXCEPT !.at = "announcing", !.session = own]
<1>6. new \in Sess /\ new.sid = m /\ new.doc = handler[h].doc
  <2>1. base \in Sess /\ base.sid = m /\ base.doc = handler[h].doc
    BY <1>1, NoSessionFits DEF Sess
  <2>2. new = [base EXCEPT !.generating = TRUE]
    OBVIOUS
  <2> HIDE DEF base, new
  <2> QED
    BY <2>1, <2>2 DEF Sess
<1>7. session' = [session EXCEPT ![handler[h].user] = new]
  BY <1>5 DEF Opens
<1>8. own \in Sess /\ own.sid = m
  BY <1>1 DEF Sess
<1>0. handler' = [handler EXCEPT ![h] = r]
  BY <1>1, <1>5 DEF Opens, WorldFits, SeatsFit, Seat
<1> HIDE DEF new, own
<1>12. /\ r \in Seat /\ r.at = "announcing" /\ r.user = handler[h].user /\ r.scope = handler[h].scope
       /\ r.lock = handler[h].lock /\ r.doc = handler[h].doc /\ r.session = own
  BY <1>1, <1>8 DEF Seat, LockedPlaces
<1> HIDE DEF r
<1>13. opened' = m /\ m \in 1..m /\ m <= m
  BY <1>2, <1>5
<1>14. new.sid <= opened' /\ new.doc <= Len(docs')
  BY <1>1, <1>3, <1>6, <1>13
<1>9. SessionsFit'
  BY <1>1, <1>4, <1>6, <1>7, <1>14, SessionStored
<1>10. r.session.sid \in 1..opened' /\ r.doc <= Len(docs')
  BY <1>1, <1>3, <1>8, <1>12, <1>13
<1>11. SeatsFit' /\ HandlerStep
  BY <1>1, <1>4, <1>0, <1>12, <1>10, PlaceTaken DEF LockedPlaces
<1> QED
  BY <1>3, <1>9, <1>11 DEF WorldFits

\* Both ways to open a session.
LEMMA OpeningStep ==
    ASSUME WorldFits, NEW h \in Handlers, Match(h) \/ StartFromCatalog(h)
    PROVE  WorldFits' /\ HandlerStep
<1>1. CASE StartFromCatalog(h)
  <2>1. handler[h].session.summary \in Text /\ handler[h].session.audio \in Text
    BY Seated DEF Sess
  <2> QED
    BY <1>1, <2>1, OpensStep DEF StartFromCatalog, At
<1>2. CASE Match(h)
  <2> DEFINE twins == Twins(handler[h].user, handler[h].content, handler[h].doc)
             Opening(s, a) == Opens(h, handler[h].user, handler[h].doc, handler[h].content, s, a)
  <2>0. /\ handler[h].at = "matching" /\ UNCHANGED <<docs, voicing, lockVars>>
        /\ Opening(None, None) \/ \E n \in twins : Opening(docs[n].summary, docs[n].audio)
    BY <1>2 DEF Match, At
  <2>1. twins \subseteq DOMAIN docs
    BY DEF Twins, Rows
  <2> HIDE DEF twins
  <2>2. CASE Opening(None, None)
    BY <2>0, <2>2, OpensStep DEF Text
  <2>3. ASSUME NEW n \in twins, Opening(docs[n].summary, docs[n].audio)
        PROVE  WorldFits' /\ HandlerStep
    <3>1. docs[n].summary \in Text /\ docs[n].audio \in Text
      BY <2>1, RowTyped DEF Row
    <3> QED
      BY <2>0, <2>3, <3>1, OpensStep
  <2> QED
    BY <2>0, <2>2, <2>3
<1> QED
  BY <1>1, <1>2

\* A handler ends inside its lock, and gives the lock up.
LEMMA LeavingStep ==
    ASSUME WorldFits, NEW h \in Handlers, Announce(h) \/ MessageRaises(h) \/ Leave(h)
    PROVE  WorldFits' /\ HandlerStep
<1>1. /\ handler[h].at \in LockedPlaces /\ ReleaseLock(h) /\ handler' = [handler EXCEPT ![h] = Idle]
      /\ UNCHANGED <<docs, session, opened>>
  BY DEF Announce, MessageRaises, Leave, Ends, Fails, At, LockedPlaces, countVars
<1>2. Grows /\ DocsFit'
  BY <1>1, Still
<1>3. SeatsFit' /\ HandlerStep
  BY <1>1, <1>2, HandlerLeaves
<1>4. voicing' \subseteq 1..opened'
  <2>1. CASE Announce(h)
    <3>1. handler[h].session.sid \in 1..opened
      BY <2>1, Seated DEF Announce, At, SeatFits
    <3> QED
      BY <1>1, <2>1, <3>1 DEF Announce, WorldFits, SessionsFit
  <2>2. CASE MessageRaises(h) \/ Leave(h)
    BY <1>1, <2>2 DEF MessageRaises, Leave, WorldFits, SessionsFit
  <2> QED
    BY <2>1, <2>2
<1>5. SessionsFit'
  BY <1>1, <1>4 DEF WorldFits, SessionsFit
<1> QED
  BY <1>2, <1>3, <1>5 DEF WorldFits

\* The end of a send_chunk job.
LEMMA ChunkDoneStep ==
    ASSUME WorldFits, NEW s \in voicing, ChunkDone(s)
    PROVE  WorldFits' /\ HandlerStep
<1>1. UNCHANGED <<docs, handler, lockVars, opened>> /\ voicing' = voicing \ {s}
  BY DEF ChunkDone, countVars
<1>2. Grows /\ DocsFit' /\ SeatsFit'
  BY <1>1, Still, SeatsKept
<1>3. ASSUME NEW u \in Users
      PROVE  [session[u] EXCEPT !.generating = FALSE] \in Sess
             /\ [session[u] EXCEPT !.generating = FALSE].sid = session[u].sid
             /\ [session[u] EXCEPT !.generating = FALSE].doc = session[u].doc
  BY OwnSession DEF Sess
<1>4. /\ session' \in [Users -> Sess]
      /\ \A u \in Users : session'[u].sid = session[u].sid /\ session'[u].doc = session[u].doc
  BY <1>3, OwnSession DEF ChunkDone
<1>5. SessionsFit'
  BY <1>1, <1>4 DEF WorldFits, SessionsFit
<1> QED
  BY <1>1, <1>2, <1>5 DEF WorldFits, HandlerStep

\* The catalog.
LEMMA CatalogStep ==
    ASSUME WorldFits, NEW h \in Handlers, StartOpen(h) \/ Fetch(h)
    PROVE  WorldFits' /\ HandlerStep
<1>1. /\ UNCHANGED <<docs, session, voicing, lockVars, opened>>
      /\ handler[h].at \in {"queued", "fetching"} /\ handler[h].at \in LockedPlaces
      /\ handler[h].at = "queued" => LockFree(handler[h].lock)
  BY DEF StartOpen, Fetch, At, LockedPlaces, countVars
<1>2. Grows /\ DocsFit' /\ SessionsFit'
  BY <1>1, Still, SessionsKept
<1>3. handler[h] \in Seat /\ handler[h].session \in Sess /\ handler[h].doc <= Len(docs)
  BY Seated DEF SeatFits
<1>4. CASE Goes(h, "leaving")
  <2>1. SeatsFit' /\ HandlerStep
    BY <1>1, <1>2, <1>4, PlaceAlone DEF LockedPlaces
  <2> QED
    BY <1>2, <2>1 DEF WorldFits
<1>5. ASSUME NEW n \in DOMAIN docs, handler' = [handler EXCEPT ![h].at = "fetching", ![h].doc = n]
      PROVE  WorldFits' /\ HandlerStep
  <2> DEFINE r == [handler[h] EXCEPT !.at = "fetching", !.doc = n]
  <2>1. n \in Nat /\ n <= Len(docs)
    BY LenDocs DEF WorldFits
  <2>2. /\ r \in Seat /\ r.at = "fetching" /\ r.user = handler[h].user /\ r.scope = handler[h].scope
        /\ r.lock = handler[h].lock /\ r.doc = n
    BY <1>3, <2>1 DEF Seat, LockedPlaces
  <2>3. handler' = [handler EXCEPT ![h] = r]
    BY <1>5, <1>3 DEF WorldFits, SeatsFit
  <2> HIDE DEF r
  <2>4. SeatsFit' /\ HandlerStep
    BY <1>1, <1>2, <2>1, <2>2, <2>3, PlaceTaken DEF LockedPlaces
  <2> QED
    BY <1>2, <2>4 DEF WorldFits
<1>6. ASSUME NEW n \in DOMAIN docs,
             handler' = [handler EXCEPT ![h].at = "opening", ![h].content = docs[n].content,
                           ![h].session.summary = docs[n].summary, ![h].session.audio = docs[n].audio]
      PROVE  WorldFits' /\ HandlerStep
  <2> DEFINE s == [handler[h].session EXCEPT !.summary = docs[n].summary, !.audio = docs[n].audio]
             r == [handler[h] EXCEPT !.at = "opening", !.content = docs[n].content, !.session = s]
  <2>1. docs[n].content \in Text /\ docs[n].summary \in Text /\ docs[n].audio \in Text
    BY RowTyped DEF Row
  <2>2. s \in Sess
    BY <1>3, <2>1 DEF Sess
  <2>3. handler' = [handler EXCEPT ![h] = r]
    BY <1>6, <1>3 DEF WorldFits, SeatsFit, Seat, Sess
  <2> HIDE DEF s
  <2>4. /\ r \in Seat /\ r.at = "opening" /\ r.user = handler[h].user /\ r.scope = handler[h].scope
        /\ r.lock = handler[h].lock /\ r.doc = handler[h].doc
    BY <1>3, <2>1, <2>2 DEF Seat, LockedPlaces
  <2> HIDE DEF r
  <2>5. SeatsFit' /\ HandlerStep
    BY <1>1, <1>2, <1>3, <2>3, <2>4, PlaceTaken DEF LockedPlaces
  <2> QED
    BY <1>2, <2>5 DEF WorldFits
<1>7. CASE StartOpen(h)
  BY <1>4, <1>5, <1>7 DEF StartOpen
<1>8. CASE Fetch(h)
  BY <1>4, <1>6, <1>8 DEF Fetch, OwnRow, Rows
<1> QED
  BY <1>7, <1>8

------------------------------------------------------------------------------
\* The summary.
LEMMA PressStep ==
    ASSUME WorldFits, NEW h \in Handlers, NEW u \in Users, PressSummary(h, u)
    PROVE  WorldFits' /\ HandlerStep
<1>1. handler[h].at = "idle" /\ UNCHANGED <<docs, voicing, lockVars, opened>>
  BY DEF PressSummary, At
<1>2. Grows /\ DocsFit'
  BY <1>1, Still
<1>3. session[u] \in Sess /\ session[u].sid <= opened /\ session[u].doc <= Len(docs)
  BY OwnSession
<1> DEFINE s == [session[u] EXCEPT !.generating = TRUE]
<1>4. s \in Sess /\ s.sid = session[u].sid /\ s.doc = session[u].doc
  BY <1>3 DEF Sess
<1>5. session' = [session EXCEPT ![u] = s]
  BY DEF PressSummary, WorldFits, SessionsFit
<1> HIDE DEF s
<1>6. SessionsFit'
  BY <1>1, <1>2, <1>3, <1>4, <1>5, SessionStored
<1>7. PICK place \in {"charging", "repeating"}, own \in Sess :
         handler' = [handler EXCEPT ![h] =
                       [Idle EXCEPT !.at = place, !.user = u, !.session = own]]
  BY <1>3 DEF PressSummary
<1>0. Len(docs') \in Nat /\ 0 <= Len(docs')
  BY <1>2 DEF Grows
<1> DEFINE r == [Idle EXCEPT !.at = place, !.user = u, !.session = own]
<1>8. Idle \in Seat
  BY <1>2, IdleFits
<1>9. r \in Seat /\ r.at = place /\ r.user = u /\ r.lock = 0 /\ r.doc = 0
  BY <1>3, <1>8 DEF Seat, FreePlaces, Idle
<1>10. SeatFits(r)'
  BY <1>0, <1>9 DEF SeatFits, LockedPlaces, FreePlaces
<1> HIDE DEF r
<1>11. handler' = [handler EXCEPT ![h] = r]
  BY <1>7 DEF r
<1>12. SeatsFit'
  BY <1>2, <1>9, <1>10, <1>11, SeatTaken
<1>13. Presses(h, r)
  BY <1>1, <1>9, <1>11 DEF Presses
<1> QED
  BY <1>2, <1>6, <1>9, <1>12, <1>13 DEF WorldFits, HandlerStep

\* What a summary handler writes into the session the user has now.
LEMMA SessionUpdated ==
    ASSUME WorldFits, Grows, NEW u \in Users, UNCHANGED voicing,
           \/ \E a \in Text : session' = Updated(u, [session[u] EXCEPT !.summary = a, !.delivered = FALSE])
           \/ \E a \in Text : session' = Updated(u, [session[u] EXCEPT !.delivered = TRUE, !.audio = a])
           \/ session' = Updated(u, [session[u] EXCEPT !.generating = FALSE])
           \/ session' = session
    PROVE  SessionsFit'
<1>1. session[u] \in Sess /\ session[u].sid <= opened /\ session[u].doc <= Len(docs)
  BY OwnSession
<1>2. session[u].sid <= opened' /\ session[u].doc <= Len(docs')
  BY SessionBelow
<1>3. PICK s \in Sess : /\ s.sid = session[u].sid /\ s.doc = session[u].doc
                        /\ session' = [session EXCEPT ![u] = s] \/ session' = session
  <2>1. ASSUME NEW a \in Text
        PROVE  /\ [session[u] EXCEPT !.summary = a, !.delivered = FALSE] \in Sess
               /\ [session[u] EXCEPT !.summary = a, !.delivered = FALSE].sid = session[u].sid
               /\ [session[u] EXCEPT !.summary = a, !.delivered = FALSE].doc = session[u].doc
               /\ [session[u] EXCEPT !.delivered = TRUE, !.audio = a] \in Sess
               /\ [session[u] EXCEPT !.delivered = TRUE, !.audio = a].sid = session[u].sid
               /\ [session[u] EXCEPT !.delivered = TRUE, !.audio = a].doc = session[u].doc
    BY <1>1 DEF Sess
  <2>2. /\ [session[u] EXCEPT !.generating = FALSE] \in Sess
        /\ [session[u] EXCEPT !.generating = FALSE].sid = session[u].sid
        /\ [session[u] EXCEPT !.generating = FALSE].doc = session[u].doc
    BY <1>1 DEF Sess
  <2> QED
    BY <1>1, <2>1, <2>2 DEF Updated
<1> QED
  BY <1>2, <1>3, SessionStored

\* The summary is written into the session of the moment.
LEMMA SummarySentStep ==
    ASSUME WorldFits, NEW h \in Handlers, SummarySent(h)
    PROVE  WorldFits' /\ HandlerStep
<1>1. handler[h].at = "voicing" /\ UNCHANGED <<docs, voicing, lockVars, opened>>
  BY DEF SummarySent, At, countVars
<1>2. Grows /\ DocsFit'
  BY <1>1, Still
<1>3. /\ handler[h] \in Seat /\ handler[h].session \in Sess /\ handler[h].user \in Users
      /\ handler[h].session.content \in Text /\ handler[h].doc <= Len(docs)
  BY <1>1, Seated DEF SeatFits, FreePlaces, Sess
<1>4. SessionsFit'
  BY <1>1, <1>2, <1>3, SessionUpdated DEF SummarySent
<1> DEFINE s == [handler[h].session EXCEPT !.summary = handler[h].session.content]
           r == [handler[h] EXCEPT !.at = "storing", !.session = s]
<1>5. s \in Sess
  BY <1>3 DEF Sess
<1>6. handler' = [handler EXCEPT ![h] = r]
  BY <1>3 DEF SummarySent, WorldFits, SeatsFit, Seat, Sess
<1> HIDE DEF s
<1>7. /\ r \in Seat /\ r.at = "storing" /\ r.user = handler[h].user /\ r.scope = handler[h].scope
      /\ r.lock = handler[h].lock /\ r.doc = handler[h].doc
  BY <1>3, <1>5 DEF Seat, FreePlaces
<1> HIDE DEF r
<1>8. SeatsFit' /\ HandlerStep
  BY <1>1, <1>2, <1>3, <1>6, <1>7, PlaceTaken DEF FreePlaces
<1> QED
  BY <1>2, <1>4, <1>8 DEF WorldFits

\* The summary is stored in the catalog.
LEMMA StoreSummaryStep ==
    ASSUME WorldFits, NEW h \in Handlers, StoreSummary(h)
    PROVE  WorldFits' /\ HandlerStep
<1>1. handler[h].at = "storing" /\ UNCHANGED <<voicing, lockVars, opened>>
  BY DEF StoreSummary, At, countVars
<1>3. /\ handler[h] \in Seat /\ handler[h].session \in Sess /\ handler[h].user \in Users
      /\ handler[h].session.summary \in Text /\ handler[h].doc <= Len(docs)
  BY <1>1, Seated DEF SeatFits, FreePlaces, Sess
<1>0. DocsFit' /\ Len(docs') = Len(docs) /\ Len(docs) \in Nat
  BY <1>3, DocsStored, LenDocs DEF StoreSummary, WorldFits
<1>2. Grows
  BY <1>0, <1>1, Grown
<1>4. SessionsFit'
  BY <1>1, <1>2, <1>3, SessionUpdated DEF StoreSummary
<1> DEFINE s == [handler[h].session EXCEPT !.audio = handler[h].session.summary]
           r == [handler[h] EXCEPT !.at = "keeping", !.session = s]
<1>5. s \in Sess
  BY <1>3 DEF Sess
<1>6. handler' = [handler EXCEPT ![h] = r]
  BY <1>3 DEF StoreSummary, WorldFits, SeatsFit, Seat, Sess
<1> HIDE DEF s
<1>7. /\ r \in Seat /\ r.at = "keeping" /\ r.user = handler[h].user /\ r.scope = handler[h].scope
      /\ r.lock = handler[h].lock /\ r.doc = handler[h].doc
  BY <1>3, <1>5 DEF Seat, FreePlaces
<1> HIDE DEF r
<1>8. SeatsFit' /\ HandlerStep
  BY <1>0, <1>1, <1>2, <1>3, <1>6, <1>7, PlaceTaken DEF FreePlaces
<1> QED
  BY <1>0, <1>4, <1>8 DEF WorldFits

\* The handler of a summary ends.
LEMMA SummaryEndsStep ==
    ASSUME WorldFits, NEW h \in Handlers, KeepVoice(h) \/ SummaryEnds(h)
    PROVE  WorldFits' /\ HandlerStep
<1>1. /\ handler[h].at \in FreePlaces /\ handler' = [handler EXCEPT ![h] = Idle]
      /\ UNCHANGED <<voicing, lockVars, opened>> /\ session' = Finished(handler[h].user)
  BY DEF KeepVoice, SummaryEnds, Ends, At, FreePlaces, countVars
<1>2. handler[h].user \in Users /\ handler[h].session.audio \in Text
  BY <1>1, Seated DEF Sess
<1>3. DocsFit' /\ Len(docs') = Len(docs) /\ Len(docs) \in Nat
  BY <1>2, DocsStored, LenDocs, Still DEF KeepVoice, SummaryEnds, WorldFits, DocsFit, countVars
<1>4. Grows
  BY <1>1, <1>3, Grown
<1>5. SessionsFit'
  BY <1>1, <1>2, <1>4, SessionUpdated DEF Finished
<1>6. SeatsFit' /\ HandlerStep
  BY <1>1, <1>4, HandlerLeaves
<1> QED
  BY <1>3, <1>5, <1>6 DEF WorldFits

\* The stored summary is sent again, or fails to be.
LEMMA RepeatStep ==
    ASSUME WorldFits, NEW h \in Handlers, Repeat(h)
    PROVE  WorldFits' /\ HandlerStep
<1>1. handler[h].at = "repeating" /\ UNCHANGED <<docs, voicing, lockVars, opened>>
  BY DEF Repeat, At, countVars
<1>2. Grows /\ DocsFit'
  BY <1>1, Still
<1>3. /\ handler[h] \in Seat /\ handler[h].session \in Sess /\ handler[h].user \in Users
      /\ handler[h].doc <= Len(docs)
  BY <1>1, Seated DEF SeatFits, FreePlaces
<1>4. Local(h) \in Sess
  BY <1>3, OwnSession DEF Local
<1>5. CASE Goes(h, "apologising") /\ UNCHANGED session
  <2>1. SessionsFit'
    BY <1>1, <1>2, <1>5, SessionsKept
  <2>2. SeatsFit' /\ HandlerStep
    BY <1>1, <1>2, <1>5, PlaceAlone DEF FreePlaces
  <2> QED
    BY <1>2, <2>1, <2>2 DEF WorldFits
<1>6. ASSUME NEW voice \in {Local(h).summary, Local(h).audio} \ {None},
             session' = Updated(handler[h].user,
                [session[handler[h].user] EXCEPT !.delivered = TRUE, !.audio = voice]),
             handler' = [handler EXCEPT ![h].at = "keeping",
                                        ![h].session = [Local(h) EXCEPT !.audio = voice]]
      PROVE  WorldFits' /\ HandlerStep
  <2> DEFINE s == [Local(h) EXCEPT !.audio = voice]
             r == [handler[h] EXCEPT !.at = "keeping", !.session = s]
  <2>1. voice \in Text
    BY <1>4 DEF Sess
  <2>2. SessionsFit'
    BY <1>1, <1>2, <1>3, <1>6, <2>1, SessionUpdated
  <2>3. s \in Sess
    BY <1>4, <2>1 DEF Sess
  <2>4. handler' = [handler EXCEPT ![h] = r]
    BY <1>3, <1>6 DEF WorldFits, SeatsFit
  <2> HIDE DEF s
  <2>5. /\ r \in Seat /\ r.at = "keeping" /\ r.user = handler[h].user /\ r.scope = handler[h].scope
        /\ r.lock = handler[h].lock /\ r.doc = handler[h].doc
    BY <1>3, <2>3 DEF Seat, FreePlaces
  <2> HIDE DEF r
  <2>6. SeatsFit' /\ HandlerStep
    BY <1>1, <1>2, <1>3, <2>4, <2>5, PlaceTaken DEF FreePlaces
  <2> QED
    BY <1>2, <2>2, <2>6 DEF WorldFits
<1> QED
  BY <1>5, <1>6 DEF Repeat

\* Stop, deletions, and the steps of the limits alone.
LEMMA RestStep ==
    ASSUME WorldFits,
           \/ \E u \in Users : Stop(u)
           \/ Delete \/ World
           \/ \E h \in Handlers : UsageQuery(h) \/ RefundFails(h)
           \/ UNCHANGED allVars
    PROVE  WorldFits' /\ HandlerStep
<1>1. UNCHANGED <<voicing, handler, lockVars, opened>>
  BY DEF Stop, Delete, World, UsageQuery, RefundFails, Fails, allVars, requestVars, countVars
<1>2. DocsFit' /\ Len(docs') = Len(docs) /\ Len(docs) \in Nat
  <2>1. CASE Delete
    BY <2>1, DocsDropped, LenDocs DEF Delete, DeleteRow, ClearCatalog, DeleteOlder, WorldFits
  <2>2. CASE UNCHANGED docs
    BY <2>2, LenDocs DEF WorldFits, DocsFit
  <2> QED
    BY <2>1, <2>2 DEF Stop, World, UsageQuery, RefundFails, allVars, requestVars
<1>3. Grows
  BY <1>1, <1>2, Grown
<1>4. SessionsFit'
  <2>1. ASSUME NEW u \in Users, Stop(u) PROVE SessionsFit'
    BY <1>1, <1>3, <2>1, SessionDropped DEF Stop
  <2>2. CASE UNCHANGED session
    BY <1>1, <1>3, <2>2, SessionsKept
  <2> QED
    BY <2>1, <2>2 DEF Delete, World, UsageQuery, RefundFails, allVars, requestVars
<1>5. SeatsFit'
  BY <1>1, <1>3, SeatsKept
<1> QED
  BY <1>1, <1>2, <1>4, <1>5 DEF WorldFits, HandlerStep
------------------------------------------------------------------------------
(* The locks.  The invariant counts who refers to an entry, so that a      *)
(* handler that waits keeps the lock it waits for in the table.            *)

LockUsers(k) == {h \in Handlers : handler[h].lock # 0 /\ LockKey(h) = k}

EntryExact(k) ==
    /\ lockUses[k] = Cardinality(LockUsers(k))
    /\ lockOf[k] = 0 <=> LockUsers(k) = {}
    /\ \A h \in LockUsers(k) : handler[h].lock = lockOf[k]

LockTypes == lockOf \in [LockKeys -> 0..Cardinality(Handlers)] /\ lockUses \in [LockKeys -> Nat]

LockInv == LockTypes /\ OneHandlerPerLock /\ \A k \in LockKeys : EntryExact(k)

\* The table is exact when every entry is.
LEMMA TableExact == (\A k \in LockKeys : EntryExact(k)) <=> LockTableExact
  BY DEF EntryExact, LockTableExact, LockUsers

\* The users of a lock are finitely many.
LEMMA UsersFinite ==
    ASSUME NEW k
    PROVE  /\ IsFiniteSet(LockUsers(k)) /\ Cardinality(LockUsers(k)) \in Nat
           /\ Cardinality(LockUsers(k)) <= Cardinality(Handlers)
<1>1. LockUsers(k) \in SUBSET Handlers
  BY DEF LockUsers
<1> QED
  BY <1>1, FS_Subset, FS_CardinalityType, UsageAssumption

\* A handler with a lock knows whose it is.
LEMMA LockKeyTyped ==
    ASSUME SeatsFit, NEW h \in Handlers, handler[h].lock # 0
    PROVE  handler[h].at \in LockedPlaces /\ LockKey(h) \in LockKeys
<1>1. handler[h].at \in LockedPlaces
  BY DEF SeatsFit, SeatFits, Seat
<1>2. handler[h].user \in Users /\ handler[h].scope \in Scopes
  BY <1>1 DEF SeatsFit, SeatFits
<1> QED
  BY <1>1, <1>2 DEF LockKey, LockKeys

\* Who uses a lock after one handler has moved.
LEMMA UsersAfter ==
    ASSUME SeatsFit, NEW h \in Handlers, NEW r, handler' = [handler EXCEPT ![h] = r], NEW k
    PROVE  /\ r.lock # 0 /\ <<r.user, r.scope>> = k => LockUsers(k)' = LockUsers(k) \cup {h}
           /\ ~(r.lock # 0 /\ <<r.user, r.scope>> = k) => LockUsers(k)' = LockUsers(k) \ {h}
<1>1. handler'[h] = r /\ \A g \in Handlers : g # h => handler'[g] = handler[g]
  BY DEF SeatsFit
<1> QED
  BY <1>1 DEF LockUsers, LockKey

\* There are as many locks as handlers: one that arrives finds a free one.
LEMMA FreshLockFound ==
    ASSUME SeatsFit, NEW h \in Handlers, handler[h].at = "idle"
    PROVE  FreshLock \in Locks /\ \A g \in Handlers : handler[g].lock # FreshLock
<1>1. handler[h].lock = 0
  BY DEF SeatsFit, SeatFits
<1> DEFINE n == Cardinality(Handlers)
           f == [l \in Locks |-> CHOOSE g \in Handlers : handler[g].lock = l]
<1>2. n \in Nat /\ IsFiniteSet(Locks) /\ Cardinality(Locks) = n
  <2>1. n \in Nat
    BY FS_CardinalityType, UsageAssumption
  <2> HIDE DEF n
  <2>2. IsFiniteSet(1..n) /\ Cardinality(1..n) = n
    BY <2>1, FS_Interval
  <2> QED
    BY <2>1, <2>2 DEF Locks, n
<1>3. IsFiniteSet(Handlers \ {h}) /\ Cardinality(Handlers \ {h}) = n - 1
  BY FS_RemoveElement, UsageAssumption
<1>4. \E l \in Locks : \A g \in Handlers : handler[g].lock # l
  <2> SUFFICES ASSUME \A l \in Locks : \E g \in Handlers : handler[g].lock = l PROVE FALSE
    OBVIOUS
  <2>1. ASSUME NEW l \in Locks PROVE f[l] \in Handlers \ {h} /\ handler[f[l]].lock = l
    <3>1. f[l] \in Handlers /\ handler[f[l]].lock = l
      OBVIOUS
    <3>2. l # 0
      BY <1>2 DEF Locks
    <3> QED
      BY <1>1, <3>1, <3>2
  <2>2. f \in [Locks -> Handlers \ {h}]
    BY <2>1
  <2> HIDE DEF f, n
  <2>3. n - 1 < n
    BY <1>2
  <2>4. \E x, y \in Locks : x # y /\ f[x] = f[y]
    BY <1>2, <1>3, <2>2, <2>3, FS_PigeonHole
  <2> QED
    BY <2>1, <2>4
<1> QED
  BY <1>4 DEF FreshLock

\* A handler that stays in its lock, or out of one, changes no entry.
LEMMA UsersKept ==
    ASSUME SeatsFit, LockInv, UNCHANGED lockVars,
           \A k : LockUsers(k)' = LockUsers(k),
           \A g \in Handlers : handler'[g].lock = handler[g].lock
    PROVE  LockTypes' /\ \A k \in LockKeys : EntryExact(k)'
<1>1. LockTypes'
  BY DEF LockInv, LockTypes, lockVars
<1>2. ASSUME NEW k \in LockKeys PROVE EntryExact(k)'
  <2>1. EntryExact(k) /\ LockUsers(k)' = LockUsers(k)
    BY DEF LockInv
  <2>2. \A h \in LockUsers(k) : h \in Handlers
    BY DEF LockUsers
  <2> QED
    BY <2>1, <2>2 DEF EntryExact, lockVars
<1> QED
  BY <1>1, <1>2

\* A handler moves on inside its lock, or takes it: the lock was free.
LEMMA MovesKeeps ==
    ASSUME SeatsFit, LockInv, NEW h \in Handlers, NEW r \in Seat, Moves(h, r)
    PROVE  LockInv'
<1>1. /\ handler' = [handler EXCEPT ![h] = r] /\ UNCHANGED lockVars
      /\ handler'[h] = r /\ \A g \in Handlers : g # h => handler'[g] = handler[g]
      /\ r.user = handler[h].user /\ r.scope = handler[h].scope /\ r.lock = handler[h].lock
  BY DEF Moves, SeatsFit
<1>2. \A g \in Handlers : handler'[g].lock = handler[g].lock /\ LockKey(g)' = LockKey(g)
  BY <1>1 DEF LockKey
<1>3. \A k : LockUsers(k)' = LockUsers(k)
  BY <1>2 DEF LockUsers
<1>4. LockTypes' /\ \A k \in LockKeys : EntryExact(k)'
  BY <1>1, <1>2, <1>3, UsersKept
<1>5. OneHandlerPerLock'
  <2> SUFFICES ASSUME NEW g \in Handlers, NEW i \in Handlers, Holds(g)', Holds(i)',
                      LockKey(g)' = LockKey(i)', g # i
               PROVE  FALSE
    BY DEF OneHandlerPerLock
  <2>1. handler[g].lock # 0 /\ handler[i].lock # 0 /\ LockKey(g) = LockKey(i)
    BY <1>2 DEF Holds
  <2>2. handler[g].lock = handler[i].lock
    <3>1. LockKey(g) \in LockKeys
      BY <2>1, LockKeyTyped
    <3>2. PICK k \in LockKeys : k = LockKey(g)
      BY <3>1
    <3>3. g \in LockUsers(k) /\ i \in LockUsers(k)
      BY <2>1, <3>2 DEF LockUsers
    <3> QED
      BY <3>3 DEF LockInv, EntryExact
  <2>3. ASSUME NEW a \in Handlers, NEW b \in Handlers, a # b, Holds(a)', Holds(b)', a # h,
               handler[a].lock = handler[b].lock, LockKey(a) = LockKey(b),
               handler[a].lock # 0, handler[b].lock # 0
        PROVE  FALSE
    <3>1. Holds(a)
      BY <1>1, <2>3 DEF Holds
    <3>2. CASE handler[b].at # "queued"
      BY <2>3, <3>1, <3>2 DEF Holds, LockInv, OneHandlerPerLock
    <3>3. CASE handler[b].at = "queued" /\ b # h
      BY <1>1, <2>3, <3>3 DEF Holds
    <3>4. CASE handler[b].at = "queued" /\ b = h
      BY <2>3, <3>1, <3>4 DEF Moves, LockFree
    <3> QED
      BY <3>2, <3>3, <3>4
  <2> QED
    BY <2>1, <2>2, <2>3
<1> QED
  BY <1>4, <1>5 DEF LockInv
\* A summary works without a lock.
LEMMA PressesKeeps ==
    ASSUME SeatsFit, LockInv, NEW h \in Handlers, NEW r \in Seat, Presses(h, r)
    PROVE  LockInv'
<1>1. /\ handler' = [handler EXCEPT ![h] = r] /\ UNCHANGED lockVars /\ r.lock = 0
      /\ handler'[h] = r /\ \A g \in Handlers : g # h => handler'[g] = handler[g]
      /\ handler[h].lock = 0
  BY DEF Presses, SeatsFit, SeatFits
<1>2. \A g \in Handlers : handler'[g].lock = handler[g].lock
  BY <1>1
<1>3. \A k : LockUsers(k)' = LockUsers(k)
  BY <1>1 DEF LockUsers, LockKey
<1>4. LockTypes' /\ \A k \in LockKeys : EntryExact(k)'
  BY <1>1, <1>2, <1>3, UsersKept
<1>5. OneHandlerPerLock'
  BY <1>1 DEF LockInv, OneHandlerPerLock, Holds, LockKey
<1> QED
  BY <1>4, <1>5 DEF LockInv

\* A handler queues for a lock: a new one, or the one in the table.
LEMMA EntersKeeps ==
    ASSUME SeatsFit, LockInv, NEW h \in Handlers, Enters(h)
    PROVE  LockInv'
<1>1. handler[h].at = "idle" /\ handler[h].lock = 0
  BY DEF Enters, SeatsFit, SeatFits
<1>2. PICK u \in Users, scope \in Scopes : ReserveLock(h, u, scope)
  BY DEF Enters
<1>3. PICK k \in LockKeys : k = <<u, scope>>
  BY DEF LockKeys
<1>4. LockTypes /\ EntryExact(k) /\ FreshLock \in Locks
  BY <1>1, FreshLockFound DEF LockInv
<1>5. lockOf[k] \in 0..Cardinality(Handlers) /\ Cardinality(Handlers) \in Nat
  BY <1>4, FS_CardinalityType, UsageAssumption DEF LockTypes
<1>0. PICK l \in Locks : l = IF lockOf[k] = 0 THEN FreshLock ELSE lockOf[k]
  <2>1. lockOf[k] = 0 \/ lockOf[k] \in 1..Cardinality(Handlers)
    BY <1>5
  <2> QED
    BY <1>4, <2>1 DEF Locks
<1>6. /\ lockOf' = [lockOf EXCEPT ![k] = l]
      /\ lockUses' = [lockUses EXCEPT ![k] = @ + 1]
      /\ handler' = [handler EXCEPT ![h] =
           [Idle EXCEPT !.at = "queued", !.user = u, !.scope = scope, !.lock = l]]
  BY <1>0, <1>2, <1>3 DEF ReserveLock
<1> DEFINE r == [Idle EXCEPT !.at = "queued", !.user = u, !.scope = scope, !.lock = l]
<1>7. r.at = "queued" /\ <<r.user, r.scope>> = k /\ r.lock = l /\ l # 0 /\ l \in 0..Cardinality(Handlers)
  BY <1>3, <1>5 DEF Idle, Locks
<1> HIDE DEF r
<1>8. /\ handler'[h] = r /\ \A g \in Handlers : g # h => handler'[g] = handler[g]
  BY <1>6 DEF SeatsFit, r
<1>9. \A q : LockUsers(q)' = IF q = k THEN LockUsers(q) \cup {h} ELSE LockUsers(q) \ {h}
  BY <1>6, <1>7, UsersAfter DEF r
<1>10. h \notin LockUsers(k) /\ \A q : h \notin LockUsers(q)
  BY <1>1 DEF LockUsers
<1>11. LockTypes'
  BY <1>4, <1>6, <1>7 DEF LockTypes
<1>12. EntryExact(k)'
  <2>1. LockUsers(k)' = LockUsers(k) \cup {h}
    BY <1>9
  <2>2. Cardinality(LockUsers(k)') = Cardinality(LockUsers(k)) + 1
    BY <1>10, <2>1, UsersFinite, FS_AddElement
  <2>3. lockUses'[k] = lockUses[k] + 1 /\ lockOf'[k] = l
    BY <1>4, <1>6 DEF LockTypes
  <2>4. \A g \in LockUsers(k) : handler[g].lock = l
    BY <1>4, <1>0 DEF EntryExact
  <2>5. \A g \in LockUsers(k)' : handler'[g].lock = l
    BY <1>7, <1>8, <1>10, <2>1, <2>4 DEF LockUsers
  <2> QED
    BY <1>4, <1>7, <2>1, <2>2, <2>3, <2>5 DEF EntryExact
<1>13. ASSUME NEW q \in LockKeys, q # k PROVE EntryExact(q)'
  <2>1. LockUsers(q)' = LockUsers(q)
    BY <1>9, <1>10, <1>13
  <2>2. lockUses'[q] = lockUses[q] /\ lockOf'[q] = lockOf[q] /\ EntryExact(q)
    BY <1>4, <1>6, <1>13 DEF LockTypes, LockInv
  <2>3. \A g \in LockUsers(q) : handler'[g] = handler[g]
    BY <1>8, <1>10 DEF LockUsers
  <2> QED
    BY <2>1, <2>2, <2>3 DEF EntryExact
<1>14. OneHandlerPerLock'
  BY <1>7, <1>8 DEF LockInv, OneHandlerPerLock, Holds, LockKey
<1> QED
  BY <1>11, <1>12, <1>13, <1>14 DEF LockInv

\* A handler gives its lock up; the entry goes with the last one.
LEMMA DepartsKeeps ==
    ASSUME SeatsFit, LockInv, NEW h \in Handlers, Departs(h)
    PROVE  LockInv'
<1>1. /\ handler' = [handler EXCEPT ![h] = Idle] /\ Idle.lock = 0
      /\ handler'[h] = Idle /\ \A g \in Handlers : g # h => handler'[g] = handler[g]
  BY DEF Departs, SeatsFit, Idle
<1>2. OneHandlerPerLock'
  BY <1>1 DEF LockInv, OneHandlerPerLock, Holds, LockKey
<1>3. \A q : LockUsers(q)' = LockUsers(q) \ {h}
  BY <1>1, UsersAfter
<1>4. CASE handler[h].at \in FreePlaces /\ UNCHANGED lockVars
  <2>1. handler[h].lock = 0
    BY <1>4 DEF SeatsFit, SeatFits
  <2>2. \A q : LockUsers(q)' = LockUsers(q)
    BY <1>3, <2>1 DEF LockUsers
  <2>3. \A g \in Handlers : handler'[g].lock = handler[g].lock
    BY <1>1, <2>1
  <2>4. LockTypes' /\ \A q \in LockKeys : EntryExact(q)'
    BY <1>4, <2>2, <2>3, UsersKept
  <2> QED
    BY <1>2, <2>4 DEF LockInv
<1>5. CASE handler[h].at \in LockedPlaces /\ ReleaseLock(h)
  <2>1. PICK k \in LockKeys : k = LockKey(h)
    BY <1>5 DEF SeatsFit, SeatFits, LockKey, LockKeys
  <2>2. handler[h].lock # 0
    <3>1. handler[h].lock \in 1..Cardinality(Handlers) /\ Cardinality(Handlers) \in Nat
      BY <1>5, FS_CardinalityType, UsageAssumption DEF SeatsFit, SeatFits, Locks
    <3> QED
      BY <3>1
  <2>3. h \in LockUsers(k) /\ \A q \in LockKeys : q # k => h \notin LockUsers(q)
    BY <2>1, <2>2 DEF LockUsers
  <2>4. LockTypes /\ EntryExact(k) /\ lockUses[k] \in Nat /\ lockOf[k] \in 0..Cardinality(Handlers)
    BY DEF LockInv, LockTypes
  <2>5. /\ Cardinality(LockUsers(k)) \in Nat
        /\ Cardinality(LockUsers(k)') = Cardinality(LockUsers(k)) - 1
        /\ Cardinality(LockUsers(k)') \in Nat
        /\ Cardinality(LockUsers(k)') = 0 <=> LockUsers(k)' = {}
    <3>1. LockUsers(k) \ {h} \in SUBSET LockUsers(k)
      OBVIOUS
    <3> QED
      BY <1>3, <2>3, <3>1, UsersFinite, FS_RemoveElement, FS_EmptySet, FS_CardinalityType
  <2>6. /\ lockUses' = [lockUses EXCEPT ![k] = @ - 1]
        /\ lockOf' = [lockOf EXCEPT ![k] = IF lockUses[k] > 1 THEN @ ELSE 0]
    BY <1>5, <2>1 DEF ReleaseLock
  <2>7. /\ lockUses'[k] = lockUses[k] - 1 /\ lockUses[k] = Cardinality(LockUsers(k))
        /\ lockOf'[k] = IF lockUses[k] > 1 THEN lockOf[k] ELSE 0
        /\ \A q \in LockKeys : q # k => lockUses'[q] = lockUses[q] /\ lockOf'[q] = lockOf[q]
    BY <2>4, <2>6 DEF LockTypes, EntryExact
  <2>8. LockTypes'
    <3>1. lockUses[k] - 1 \in Nat /\ 0 \in 0..Cardinality(Handlers)
      BY <2>5, <2>7, FS_CardinalityType, UsageAssumption
    <3> QED
      BY <2>4, <2>6, <3>1 DEF LockTypes
  <2>9. EntryExact(k)'
    <3>1. lockUses'[k] = Cardinality(LockUsers(k)')
      BY <2>5, <2>7
    <3>2. lockOf[k] # 0 /\ \A g \in LockUsers(k) : handler[g].lock = lockOf[k]
      BY <2>3, <2>4 DEF EntryExact
    <3>3. lockOf'[k] = 0 <=> LockUsers(k)' = {}
      BY <2>5, <2>7, <3>2
    <3>4. ASSUME NEW g \in LockUsers(k)' PROVE handler'[g].lock = lockOf'[k]
      <4>1. g \in LockUsers(k) /\ g \in Handlers /\ g # h
        BY <1>3, <3>4 DEF LockUsers
      <4>2. lockOf'[k] # 0
        BY <3>3, <3>4
      <4> QED
        BY <1>1, <2>7, <3>2, <4>1, <4>2
    <3> QED
      BY <3>1, <3>3, <3>4 DEF EntryExact
  <2>10. ASSUME NEW q \in LockKeys, q # k PROVE EntryExact(q)'
    <3>1. LockUsers(q)' = LockUsers(q) /\ EntryExact(q)
      BY <1>3, <2>3, <2>10 DEF LockInv
    <3>2. \A g \in LockUsers(q) : handler'[g] = handler[g]
      BY <1>1, <2>3, <2>10 DEF LockUsers
    <3> QED
      BY <2>7, <2>10, <3>1, <3>2 DEF EntryExact
  <2> QED
    BY <1>2, <2>8, <2>9, <2>10 DEF LockInv
<1> QED
  BY <1>4, <1>5 DEF Departs

\* Whatever a step does to the handlers keeps the locks exact.
LEMMA LocksKept == ASSUME SeatsFit, LockInv, HandlerStep PROVE LockInv'
<1>1. CASE UNCHANGED <<handler, lockVars>>
  <2>1. \A k : LockUsers(k)' = LockUsers(k)
    BY <1>1 DEF LockUsers, LockKey
  <2>2. LockTypes' /\ \A k \in LockKeys : EntryExact(k)'
    BY <1>1, <2>1, UsersKept
  <2>3. OneHandlerPerLock'
    BY <1>1 DEF LockInv, OneHandlerPerLock, Holds, LockKey
  <2> QED
    BY <2>2, <2>3 DEF LockInv
<1> QED
  BY <1>1, EntersKeeps, DepartsKeeps, MovesKeeps, PressesKeeps DEF HandlerStep
------------------------------------------------------------------------------
(* All steps of all handlers.                                              *)

RequestsInv == WorldFits /\ LockInv /\ UsageInv

\* Every step keeps the records in shape and is a step of one handler, if of any.
LEMMA WorldKept ==
    ASSUME WorldFits, LockInv, RequestsNext \/ UNCHANGED allVars
    PROVE  WorldFits' /\ HandlerStep
<1>1. ASSUME NEW h \in Handlers, NEW u \in Users, NEW scope \in Scopes, Arrive(h, u, scope)
      PROVE  WorldFits' /\ HandlerStep
  <2>1. handler[h].at = "idle" /\ SeatsFit
    BY <1>1 DEF Arrive, At, WorldFits
  <2>2. FreshLock \in Locks
    BY <2>1, FreshLockFound
  <2>3. lockOf[<<u, scope>>] \in 0..Cardinality(Handlers) /\ Cardinality(Handlers) \in Nat
    BY FS_CardinalityType, UsageAssumption DEF LockInv, LockTypes, LockKeys
  <2>4. lockOf[<<u, scope>>] = 0 \/ lockOf[<<u, scope>>] \in Locks
    BY <2>3 DEF Locks
  <2> QED
    BY <1>1, <2>2, <2>4, ArriveStep
<1>2. ASSUME NEW h \in Handlers,
             \/ StartMessage(h) \/ Analyze(h) \/ Extract(h) \/ Save(h) \/ Match(h)
             \/ Announce(h) \/ MessageRaises(h) \/ Leave(h)
             \/ StartOpen(h) \/ Fetch(h) \/ StartFromCatalog(h)
             \/ Summarize(h) \/ SummaryFails(h) \/ SummarySent(h) \/ StoreSummary(h)
             \/ KeepVoice(h) \/ SummaryEnds(h) \/ Repeat(h)
      PROVE  WorldFits' /\ HandlerStep
  BY <1>2, StartMessageStep, AnalyzeStep, SaveStep, OpeningStep, LeavingStep, CatalogStep,
     SummarySentStep, StoreSummaryStep, SummaryEndsStep, RepeatStep
<1>3. ASSUME NEW h \in Handlers, NEW u \in Users, PressSummary(h, u) PROVE WorldFits' /\ HandlerStep
  BY <1>3, PressStep
<1>4. ASSUME NEW s \in voicing, ChunkDone(s) PROVE WorldFits' /\ HandlerStep
  BY <1>4, ChunkDoneStep
<1>5. ASSUME \/ \E u \in Users : Stop(u)
             \/ Delete \/ World
             \/ \E h \in Handlers : UsageQuery(h) \/ RefundFails(h)
             \/ UNCHANGED allVars
      PROVE  WorldFits' /\ HandlerStep
  BY <1>5, RestStep
<1> QED
  BY <1>1, <1>2, <1>3, <1>4, <1>5 DEF RequestsNext

\* A step that leaves the limits alone.
LEMMA UsageStill == ASSUME UsageInv, UNCHANGED usageVars PROVE UsageInv'
<1>1. edits' \in 0..MaxEdits
  BY DEF UsageInv, UsageTypeOK, usageVars
<1> QED
  BY <1>1, ClockStep DEF usageVars

\* Every step keeps what is counted.
LEMMA UsageKept ==
    ASSUME WorldFits, UsageInv, RequestsNext \/ UNCHANGED allVars
    PROVE  UsageInv'
<1>1. CASE UNCHANGED usageVars
  BY <1>1, UsageStill
<1>2. ASSUME NEW h \in Handlers, StartMessage(h) PROVE UsageInv'
  <2>1. handler[h].user \in Users
    BY <1>2, Seated DEF StartMessage, At, LockedPlaces
  <2>2. UNCHANGED usageVars \/ Reserve(h, handler[h].user, "input")
    BY <1>2 DEF StartMessage
  <2> QED
    BY <1>1, <2>1, <2>2, ReservingStep, RequestsAssumption
<1>3. ASSUME NEW h \in Handlers, NEW u \in Users, PressSummary(h, u) PROVE UsageInv'
  <2>1. UNCHANGED usageVars \/ Reserve(h, u, "summary")
    BY <1>3 DEF PressSummary
  <2> QED
    BY <1>1, <2>1, ReservingStep, RequestsAssumption
<1>4. ASSUME NEW h \in Handlers, Extract(h) \/ SummaryFails(h) \/ RefundFails(h) PROVE UsageInv'
  <2>1. UNCHANGED usageVars \/ Refund(h) \/ DecrementFails(h)
    BY <1>4 DEF Extract, SummaryFails, RefundFails
  <2> QED
    BY <1>1, <2>1, RefundingStep
<1>5. ASSUME NEW h \in Handlers,
             Announce(h) \/ MessageRaises(h) \/ Leave(h) \/ KeepVoice(h) \/ SummaryEnds(h)
      PROVE  UsageInv'
  <2>1. TicketDropped(h)
    BY <1>5 DEF Announce, MessageRaises, Leave, KeepVoice, SummaryEnds, Ends
  <2> QED
    BY <2>1, RefundingStep DEF TicketDropped
<1>6. ASSUME NEW h \in Handlers, UsageQuery(h) PROVE UsageInv'
  BY <1>6, ReservingStep, GrantingStep, DecrementStep DEF UsageQuery, UsageStep
<1>7. ASSUME World PROVE UsageInv'
  BY <1>7, ClockStep, AdminStepKeeps DEF World
<1>8. ASSUME Delete PROVE UsageInv'
  <2>1. edits \in 0..MaxEdits /\ edits < MaxEdits /\ edits' = edits + 1
    BY <1>8 DEF Delete, UsageInv, UsageTypeOK
  <2>2. edits' \in 0..MaxEdits
    BY <2>1, UsageAssumption
  <2> QED
    BY <1>8, <2>2, ClockStep DEF Delete
<1>9. ASSUME NEW h \in Handlers,
             \/ Analyze(h) \/ Save(h) \/ Match(h) \/ StartOpen(h) \/ Fetch(h) \/ StartFromCatalog(h)
             \/ Summarize(h) \/ SummarySent(h) \/ StoreSummary(h) \/ Repeat(h)
             \/ \E u \in Users, scope \in Scopes : Arrive(h, u, scope)
      PROVE  UsageInv'
  <2>1. UNCHANGED usageVars
    BY <1>9 DEF Analyze, Save, Match, StartOpen, Fetch, StartFromCatalog, Summarize, SummarySent,
       StoreSummary, Repeat, Arrive
  <2> QED
    BY <1>1, <2>1
<1>10. ASSUME (\E u \in Users : Stop(u)) \/ (\E s \in voicing : ChunkDone(s)) \/ UNCHANGED allVars
       PROVE  UsageInv'
  BY <1>1, <1>10 DEF Stop, ChunkDone, allVars
<1> QED
  BY <1>2, <1>3, <1>4, <1>5, <1>6, <1>7, <1>8, <1>9, <1>10 DEF RequestsNext

\* The bot starts with one catalog row at most, and nothing else.
LEMMA RequestsInitially == RequestsInit => RequestsInv
<1> SUFFICES ASSUME RequestsInit PROVE RequestsInv
  OBVIOUS
<1>1. UsageInv
  BY UsageInitially DEF RequestsInit
<1>2. DocsFit
  <2>1. CASE docs = <<>>
    BY <2>1, RequestsAssumption DEF DocsFit
  <2>2. ASSUME NEW u \in Users, NEW c \in Contents,
               docs = <<[owner |-> u, content |-> c, summary |-> c, audio |-> None]>>
        PROVE  DocsFit
    <3> DEFINE row == [owner |-> u, content |-> c, summary |-> c, audio |-> None]
    <3>1. row \in Row
      BY DEF Row, Text
    <3>2. docs = <<row>>
      BY <2>2
    <3> HIDE DEF row
    <3>3. docs \in Seq(Row) /\ Len(docs) = 1
      BY <3>1, <3>2
    <3> QED
      BY <3>3, RequestsAssumption DEF DocsFit
  <2> QED
    BY <2>1, <2>2 DEF RequestsInit, CatalogInit
<1>3. SessionsFit
  <2>1. session = [u \in Users |-> NoSession] /\ voicing = {} /\ opened = 0
    BY DEF RequestsInit
  <2>2. 0 <= Len(docs)
    BY <1>2, LenDocs
  <2> QED
    BY <2>1, <2>2, NoSessionFits DEF SessionsFit
<1>4. SeatsFit
  <2>1. handler = [h \in Handlers |-> Idle] /\ 0 <= Len(docs)
    BY <1>2, LenDocs DEF RequestsInit
  <2>2. Idle \in Seat
    BY NoSessionFits DEF Idle, Seat, Text, None
  <2>3. SeatFits(Idle)
    BY <2>1 DEF SeatFits, Idle, LockedPlaces, FreePlaces
  <2> QED
    BY <2>1, <2>2, <2>3 DEF SeatsFit
<1>5. LockInv
  <2>1. \A h \in Handlers : handler[h].lock = 0
    BY DEF RequestsInit, Idle
  <2>2. \A k : LockUsers(k) = {}
    BY <2>1 DEF LockUsers
  <2>3. LockTypes
    <3>1. 0 \in 0..Cardinality(Handlers)
      BY FS_CardinalityType, UsageAssumption
    <3> QED
      BY <3>1 DEF LockTypes, RequestsInit
  <2>4. \A k \in LockKeys : EntryExact(k)
    BY <2>2, FS_EmptySet DEF EntryExact, RequestsInit
  <2>5. OneHandlerPerLock
    BY <2>1 DEF OneHandlerPerLock, Holds
  <2> QED
    BY <2>3, <2>4, <2>5 DEF LockInv
<1> QED
  BY <1>1, <1>2, <1>3, <1>4, <1>5 DEF RequestsInv, WorldFits

\* The invariant of the composition: records, locks and counters together.
THEOREM RequestsInvariant == RequestsSpec => []RequestsInv
<1>1. RequestsInv /\ [RequestsNext]_allVars => RequestsInv'
  BY WorldKept, UsageKept, LocksKept DEF RequestsInv, WorldFits
<1> QED
  BY RequestsInitially, <1>1, PTL DEF RequestsSpec

\* Type correctness: ids stay within the rows inserted and the sessions opened, and no
\* lock has more users than there are handlers.
THEOREM RequestsTypesCorrect == RequestsSpec => []RequestsTypeOK
<1>1. RequestsInv => RequestsTypeOK
  <2> SUFFICES ASSUME RequestsInv PROVE RequestsTypeOK
    OBVIOUS
  <2>1. UsageTypeOK /\ voicing \subseteq 1..opened
    BY DEF RequestsInv, UsageInv, WorldFits, SessionsFit
  <2>2. Len(docs) \in 0..MaxDocs
    <3>1. Len(docs) \in Nat /\ Len(docs) <= MaxDocs /\ MaxDocs \in Nat
      BY LenDocs, RequestsAssumption DEF RequestsInv, WorldFits, DocsFit
    <3> QED
      BY <3>1
  <2>3. ASSUME NEW u \in Users
        PROVE  session[u].sid \in 0..opened /\ session[u].doc \in 0..Len(docs)
    <3>1. /\ session[u] \in Sess /\ session[u].sid <= opened /\ session[u].doc <= Len(docs)
          /\ opened \in Nat /\ Len(docs) \in Nat
      BY OwnSession, LenDocs DEF RequestsInv, WorldFits, SessionsFit
    <3>2. session[u].sid \in Nat /\ session[u].doc \in Nat
      BY <3>1 DEF Sess
    <3> QED
      BY <3>1, <3>2
  <2>4. lockOf \in [LockKeys -> 0..Cardinality(Handlers)]
    BY DEF RequestsInv, LockInv, LockTypes
  <2>5. lockUses \in [LockKeys -> 0..Cardinality(Handlers)]
    <3>1. ASSUME NEW k \in LockKeys PROVE lockUses[k] \in 0..Cardinality(Handlers)
      <4>1. /\ lockUses[k] = Cardinality(LockUsers(k)) /\ Cardinality(LockUsers(k)) \in Nat
            /\ Cardinality(LockUsers(k)) <= Cardinality(Handlers) /\ Cardinality(Handlers) \in Nat
        BY UsersFinite, FS_CardinalityType, UsageAssumption DEF RequestsInv, LockInv, EntryExact
      <4> QED
        BY <4>1
    <3> QED
      BY <3>1 DEF RequestsInv, LockInv, LockTypes
  <2> QED
    BY <2>1, <2>2, <2>3, <2>4, <2>5 DEF RequestsTypeOK
<1> QED
  BY RequestsInvariant, <1>1, PTL

\* No free user is ever counted beyond the highest limit there was.
THEOREM LimitRespectedHolds == RequestsSpec => []LimitRespected
<1>1. RequestsInv => LimitRespected
  BY DEF RequestsInv, UsageInv
<1> QED
  BY RequestsInvariant, <1>1, PTL

\* A counter is the number of uses granted on its day and not given back.
THEOREM CounterExactHolds == RequestsSpec => []CounterExact
<1>1. RequestsInv => CounterExact
  BY DEF RequestsInv, UsageInv
<1> QED
  BY RequestsInvariant, <1>1, PTL

\* One handler per lock, and a table of exactly the locks in use.
THEOREM LocksExactHold == RequestsSpec => []LocksExact
<1>1. RequestsInv => LocksExact
  BY TableExact DEF RequestsInv, LockInv, LocksExact
<1> QED
  BY RequestsInvariant, <1>1, PTL

------------------------------------------------------------------------------
(* What a request has paid by the place its handler has reached.           *)

Paid(at, step) ==
    /\ at \in {"idle", "queued", "fetching", "opening", "repeating"} => step = "none"
    /\ at \in {"reserving", "charging"} =>
          step \in {"plan", "record", "limit", "count", "granted", "refused"}
    /\ at \in {"extracting", "saving", "matching", "voicing", "storing"} => step = "granted"
    /\ at \in {"announcing", "keeping"} => step \in {"granted", "none"}
    /\ at \in {"leaving", "apologising"} => step \in {"none", "refund", "returned", "unreturned"}

HandlerPaid(h) == Paid(handler[h].at, ticket[h].step)
ChargeInv == (\A h \in Handlers : HandlerPaid(h)) /\ ChargeMatchesDelivery

\* A ticket and a seat for every handler: what a record update needs to be evaluated.
Seats == DOMAIN handler = Handlers /\ DOMAIN ticket = Handlers

\* The tickets and the seats are functions on the handlers.
LEMMA SeatsThere == RequestsInv => Seats
  BY DEF RequestsInv, WorldFits, SeatsFit, UsageInv, UsageTypeOK, Seats

\* One handler moves with its ticket, and the others are left alone.
LEMMA PaidMoved ==
    ASSUME ChargeInv, NEW h \in Handlers,
           \A g \in Handlers : g # h => UNCHANGED <<handler[g], ticket[g]>>,
           HandlerPaid(h)', ChargeMatchesDelivery'
    PROVE  ChargeInv'
  BY DEF ChargeInv, HandlerPaid

\* A handler goes somewhere, whatever else it remembers, and its ticket stays.
LEMMA PaidGoes ==
    ASSUME ChargeInv, Seats, NEW h \in Handlers, NEW r,
           handler' = [handler EXCEPT ![h] = r], UNCHANGED <<ticket, unfair>>,
           Paid(r.at, ticket[h].step)
    PROVE  ChargeInv'
  BY PaidMoved DEF Seats, HandlerPaid, ChargeInv, ChargeMatchesDelivery

\* A request ends with its ticket: what it was charged is what was delivered, unless
\* the refund failed or something raised.
LEMMA PaidEnds ==
    ASSUME ChargeInv, Seats, NEW h \in Handlers, NEW delivered \in BOOLEAN, NEW cause,
           Ends(h, delivered, cause),
           \/ cause # "none"
           \/ ticket[h].step \in {"none", "unreturned"}
           \/ (ticket[h].step = "granted") = delivered
    PROVE  ChargeInv'
<1>1. handler'[h] = Idle /\ ticket'[h] = NoTicket
  BY DEF Ends, TicketDropped, Seats
<1>2. HandlerPaid(h)'
  BY <1>1 DEF HandlerPaid, Paid, Idle, NoTicket
<1>3. \A g \in Handlers : g # h => UNCHANGED <<handler[g], ticket[g]>>
  BY DEF Ends, TicketDropped, Seats
<1>4. "none" \notin unfair'
  BY DEF Ends, Charged, ChargeInv, ChargeMatchesDelivery
<1> QED
  BY <1>2, <1>3, <1>4, PaidMoved DEF ChargeMatchesDelivery

\* A ticket changes its step alone.
LEMMA TicketSteps ==
    ASSUME UsageTypeOK, NEW h \in Handlers, NEW s, ticket[h].step # "none",
           ticket' = [ticket EXCEPT ![h].step = s]
    PROVE  ticket'[h].step = s /\ \A g \in Handlers : g # h => ticket'[g] = ticket[g]
<1>1. ticket[h] \in Tickets /\ DOMAIN ticket = Handlers
  BY TicketTyped DEF UsageTypeOK
<1>2. [ticket[h] EXCEPT !.step = s].step = s
  BY <1>1 DEF Tickets
<1> QED
  BY <1>1, <1>2

\* A reservation goes on, or a refund does, while the handler waits for it.
LEMMA PaidQueries ==
    ASSUME RequestsInv, ChargeInv, NEW h \in Handlers, UsageStep(h) \/ DecrementFails(h),
           UNCHANGED <<handler, unfair>>
    PROVE  ChargeInv'
<1>0. UsageTypeOK /\ DOMAIN ticket = Handlers
  BY SeatsThere DEF Seats, RequestsInv, UsageInv
<1>1. /\ \A g \in Handlers : g # h => ticket'[g] = ticket[g]
      /\ \/ /\ ticket[h].step \in {"plan", "limit", "record", "count"}
            /\ ticket'[h].step \in {"plan", "record", "limit", "count", "granted", "refused"}
         \/ ticket[h].step = "refund" /\ ticket'[h].step \in {"returned", "unreturned"}
  <2>1. ASSUME NEW s, ticket' = [ticket EXCEPT ![h].step = s],
               \/ /\ ticket[h].step \in {"plan", "limit", "record", "count"}
                  /\ s \in {"plan", "record", "limit", "count", "granted", "refused"}
               \/ ticket[h].step = "refund" /\ s \in {"returned", "unreturned"}
        PROVE  /\ \A g \in Handlers : g # h => ticket'[g] = ticket[g]
               /\ \/ /\ ticket[h].step \in {"plan", "limit", "record", "count"}
                     /\ ticket'[h].step \in {"plan", "record", "limit", "count", "granted", "refused"}
                  \/ ticket[h].step = "refund" /\ ticket'[h].step \in {"returned", "unreturned"}
    BY <1>0, <2>1, TicketSteps
  <2>2. CASE ReadLimit(h)
    <3>1. ticket[h] \in Tickets
      BY <1>0, <2>2, TicketTyped DEF ReadLimit
    <3>2. [ticket[h] EXCEPT !.step = "count", !.limit = limit[ticket[h].kind]].step = "count"
      BY <3>1 DEF Tickets
    <3> QED
      BY <1>0, <2>2, <3>2 DEF ReadLimit
  <2>3. CASE ReadPlan(h) \/ RecordUse(h) \/ TryIncrement(h)
    BY <2>1, <2>3 DEF ReadPlan, RecordUse, TryIncrement, Granted
  <2>4. CASE Decrement(h) \/ DecrementFails(h)
    BY <2>1, <2>4 DEF Decrement, DecrementFails
  <2> QED
    BY <2>2, <2>3, <2>4 DEF UsageStep
<1>2. handler[h].at \in LockedPlaces \cup FreePlaces \cup {"idle"}
  BY DEF RequestsInv, WorldFits, SeatsFit, Seat
<1>3. HandlerPaid(h)'
  BY <1>1, <1>2 DEF ChargeInv, HandlerPaid, Paid, LockedPlaces, FreePlaces
<1> QED
  BY <1>1, <1>3, PaidMoved DEF ChargeInv, ChargeMatchesDelivery

\* A handler goes somewhere with the ticket it has.
LEMMA PaidPlace ==
    ASSUME RequestsInv, ChargeInv, NEW h \in Handlers, NEW r,
           handler' = [handler EXCEPT ![h] = r], UNCHANGED <<ticket, unfair>>,
           Paid(r.at, ticket[h].step)
    PROVE  ChargeInv'
  BY PaidGoes, SeatsThere

\* The same for a change of the place alone.
LEMMA PaidAt ==
    ASSUME RequestsInv, ChargeInv, NEW h \in Handlers, NEW place,
           Goes(h, place), UNCHANGED <<ticket, unfair>>, Paid(place, ticket[h].step)
    PROVE  ChargeInv'
<1>1. handler[h] \in Seat
  BY Seated DEF RequestsInv
<1>2. [handler[h] EXCEPT !.at = place].at = place
  BY <1>1 DEF Seat
<1> QED
  BY <1>2, PaidPlace DEF Goes

\* The steps of a message and of the catalog that move a handler on.
LEMMA PaidOnward ==
    ASSUME RequestsInv, ChargeInv, NEW h \in Handlers,
           \/ Analyze(h) \/ Save(h) \/ Match(h)
           \/ StartOpen(h) \/ Fetch(h) \/ StartFromCatalog(h)
           \/ Summarize(h) \/ SummarySent(h) \/ StoreSummary(h) \/ Repeat(h)
    PROVE  ChargeInv'
<1>0. handler[h] \in Seat /\ HandlerPaid(h)
  BY Seated DEF RequestsInv, ChargeInv
<1>2. CASE Analyze(h) \/ Summarize(h)
  BY <1>2, PaidAt DEF Analyze, Summarize, usageVars, Paid
<1>3. CASE Save(h)
  <2>1. UNCHANGED <<ticket, unfair>> /\ Paid("matching", ticket[h].step)
    BY <1>0, <1>3 DEF Save, At, HandlerPaid, Paid, usageVars
  <2>2. CASE Goes(h, "matching")
    BY <2>1, <2>2, PaidAt
  <2>3. CASE handler' = [handler EXCEPT ![h].at = "matching", ![h].doc = Len(docs) + 1]
    <3> DEFINE r == [handler[h] EXCEPT !.at = "matching", !.doc = Len(docs) + 1]
    <3>1. handler' = [handler EXCEPT ![h] = r]
      BY <2>3
    <3>2. r.at = "matching"
      BY <1>0 DEF Seat
    <3> HIDE DEF r
    <3> QED
      BY <2>1, <3>1, <3>2, PaidPlace
  <2> QED
    BY <1>3, <2>2, <2>3 DEF Save
<1>4. CASE Match(h) \/ StartFromCatalog(h)
  <2>1. UNCHANGED <<ticket, unfair>> /\ Paid("announcing", ticket[h].step)
    BY <1>0, <1>4 DEF Match, StartFromCatalog, At, HandlerPaid, Paid, usageVars
  <2>2. handler' = [handler EXCEPT ![h].at = "announcing", ![h].session.sid = opened + 1]
    BY <1>4 DEF Match, StartFromCatalog, Opens
  <2> DEFINE r == [handler[h] EXCEPT !.at = "announcing", !.session.sid = opened + 1]
  <2>3. handler' = [handler EXCEPT ![h] = r]
    BY <2>2
  <2>4. r.at = "announcing"
    BY <1>0 DEF Seat
  <2> HIDE DEF r
  <2> QED
    BY <2>1, <2>3, <2>4, PaidPlace
<1>5. CASE StartOpen(h)
  <2>1. /\ UNCHANGED <<ticket, unfair>>
        /\ Paid("leaving", ticket[h].step) /\ Paid("fetching", ticket[h].step)
    BY <1>0, <1>5 DEF StartOpen, At, HandlerPaid, Paid, usageVars
  <2>2. ASSUME NEW n, handler' = [handler EXCEPT ![h].at = "fetching", ![h].doc = n] PROVE ChargeInv'
    <3> DEFINE r == [handler[h] EXCEPT !.at = "fetching", !.doc = n]
    <3>1. handler' = [handler EXCEPT ![h] = r]
      BY <2>2
    <3>2. r.at = "fetching"
      BY <1>0 DEF Seat
    <3> HIDE DEF r
    <3> QED
      BY <2>1, <3>1, <3>2, PaidPlace
  <2> QED
    BY <1>5, <2>1, <2>2, PaidAt DEF StartOpen
<1>6. CASE Fetch(h)
  <2>1. /\ UNCHANGED <<ticket, unfair>>
        /\ Paid("leaving", ticket[h].step) /\ Paid("opening", ticket[h].step)
    BY <1>0, <1>6 DEF Fetch, At, HandlerPaid, Paid, usageVars
  <2>2. CASE Goes(h, "leaving")
    BY <2>1, <2>2, PaidAt
  <2>3. CASE ~Goes(h, "leaving")
    <3> DEFINE row == docs[handler[h].doc]
               r == [handler[h] EXCEPT !.at = "opening", !.content = row.content,
                        !.session.summary = row.summary, !.session.audio = row.audio]
    <3>1. handler' = [handler EXCEPT ![h] = r]
      BY <1>6, <2>3 DEF Fetch
    <3>2. r.at = "opening"
      BY <1>0 DEF Seat
    <3> HIDE DEF r
    <3> QED
      BY <2>1, <3>1, <3>2, PaidPlace
  <2> QED
    BY <2>2, <2>3
<1>7. CASE SummarySent(h) \/ StoreSummary(h)
  <2>1. UNCHANGED <<ticket, unfair>>
    BY <1>7 DEF SummarySent, StoreSummary, usageVars
  <2>2. CASE SummarySent(h)
    <3> DEFINE r == [handler[h] EXCEPT !.at = "storing", !.session.summary = handler[h].session.content]
    <3>1. handler' = [handler EXCEPT ![h] = r]
      BY <2>2 DEF SummarySent
    <3>2. r.at = "storing" /\ Paid("storing", ticket[h].step)
      BY <1>0, <2>2 DEF Seat, SummarySent, At, HandlerPaid, Paid
    <3> HIDE DEF r
    <3> QED
      BY <2>1, <3>1, <3>2, PaidPlace
  <2>3. CASE StoreSummary(h)
    <3> DEFINE r == [handler[h] EXCEPT !.at = "keeping", !.session.audio = handler[h].session.summary]
    <3>1. handler' = [handler EXCEPT ![h] = r]
      BY <2>3 DEF StoreSummary
    <3>2. r.at = "keeping" /\ Paid("keeping", ticket[h].step)
      BY <1>0, <2>3 DEF Seat, StoreSummary, At, HandlerPaid, Paid
    <3> HIDE DEF r
    <3> QED
      BY <2>1, <3>1, <3>2, PaidPlace
  <2> QED
    BY <1>7, <2>2, <2>3
<1>8. CASE Repeat(h)
  <2>1. /\ UNCHANGED <<ticket, unfair>>
        /\ Paid("keeping", ticket[h].step) /\ Paid("apologising", ticket[h].step)
    BY <1>0, <1>8 DEF Repeat, At, HandlerPaid, Paid, usageVars
  <2>2. ASSUME NEW s, handler' = [handler EXCEPT ![h].at = "keeping", ![h].session = s]
        PROVE  ChargeInv'
    <3> DEFINE r == [handler[h] EXCEPT !.at = "keeping", !.session = s]
    <3>1. handler' = [handler EXCEPT ![h] = r]
      BY <2>2
    <3>2. r.at = "keeping"
      BY <1>0 DEF Seat
    <3> HIDE DEF r
    <3> QED
      BY <2>1, <3>1, <3>2, PaidPlace
  <2> QED
    BY <1>8, <2>1, <2>2, PaidAt DEF Repeat
<1> QED
  BY <1>2, <1>3, <1>4, <1>5, <1>6, <1>7, <1>8

\* A handler starts a reservation or a refund: it moves, and its ticket with it.
LEMMA PaidTurns ==
    ASSUME RequestsInv, ChargeInv, NEW h \in Handlers, NEW r, NEW t,
           handler' = [handler EXCEPT ![h] = r], ticket' = [ticket EXCEPT ![h] = t],
           UNCHANGED unfair, Paid(r.at, t.step)
    PROVE  ChargeInv'
<1>1. /\ handler'[h] = r /\ ticket'[h] = t
      /\ \A g \in Handlers : g # h => UNCHANGED <<handler[g], ticket[g]>>
  BY SeatsThere DEF Seats
<1>2. HandlerPaid(h)' /\ ChargeMatchesDelivery'
  BY <1>1 DEF HandlerPaid, ChargeInv, ChargeMatchesDelivery
<1> QED
  BY <1>1, <1>2, PaidMoved

\* A reservation starts where its handler goes on to wait for it.
LEMMA PaidReserves ==
    ASSUME RequestsInv, ChargeInv, NEW h \in Handlers, NEW r, NEW u, NEW k,
           handler' = [handler EXCEPT ![h] = r], r.at \in {"reserving", "charging"},
           Reserve(h, u, k), UNCHANGED unfair
    PROVE  ChargeInv'
<1> DEFINE t == [NoTicket EXCEPT !.step = "plan", !.user = u, !.day = today, !.kind = k]
<1>1. ticket' = [ticket EXCEPT ![h] = t]
  BY DEF Reserve
<1>2. t.step = "plan"
  BY DEF NoTicket
<1> HIDE DEF t
<1>3. Paid(r.at, t.step)
  BY <1>2 DEF Paid
<1> QED
  BY <1>1, <1>3, PaidTurns

\* A refund starts where its handler goes on to apologise.
LEMMA PaidRefunds ==
    ASSUME RequestsInv, ChargeInv, NEW h \in Handlers, NEW place \in {"leaving", "apologising"},
           Goes(h, place), Refund(h), UNCHANGED unfair
    PROVE  ChargeInv'
<1> DEFINE r == [handler[h] EXCEPT !.at = place]
           t == [ticket[h] EXCEPT !.step = "refund", !.returns = today]
<1>1. handler' = [handler EXCEPT ![h] = r] /\ ticket' = [ticket EXCEPT ![h] = t]
  BY DEF Goes, Refund
<1>2. handler[h] \in Seat /\ ticket[h] \in Tickets
  BY Seated, TicketTyped DEF RequestsInv, UsageInv, Refund
<1>3. r.at = place /\ t.step = "refund"
  BY <1>2 DEF Seat, Tickets
<1> HIDE DEF r, t
<1>4. Paid(r.at, t.step)
  BY <1>3 DEF Paid
<1> QED
  BY <1>1, <1>4, PaidTurns

\* The steps of a handler that turn to the limits.
LEMMA PaidCharging ==
    ASSUME RequestsInv, ChargeInv, NEW h \in Handlers,
           \/ StartMessage(h) \/ Extract(h) \/ SummaryFails(h)
           \/ \E u \in Users : PressSummary(h, u)
    PROVE  ChargeInv'
<1>0. handler[h] \in Seat /\ HandlerPaid(h)
  BY Seated DEF RequestsInv, ChargeInv
<1>1. CASE StartMessage(h)
  <2>1. CASE Goes(h, "leaving") /\ UNCHANGED usageVars
    <3>1. UNCHANGED <<ticket, unfair>> /\ Paid("leaving", ticket[h].step)
      BY <1>0, <1>1, <2>1 DEF StartMessage, At, HandlerPaid, Paid, usageVars
    <3> QED
      BY <2>1, <3>1, PaidAt
  <2>2. ASSUME NEW c \in Contents, Reserve(h, handler[h].user, "input"),
               handler' = [handler EXCEPT ![h].at = "reserving", ![h].content = c]
        PROVE  ChargeInv'
    <3> DEFINE r == [handler[h] EXCEPT !.at = "reserving", !.content = c]
    <3>1. handler' = [handler EXCEPT ![h] = r]
      BY <2>2
    <3>2. r.at = "reserving"
      BY <1>0 DEF Seat
    <3>3. UNCHANGED unfair
      BY <1>1 DEF StartMessage
    <3> HIDE DEF r
    <3> QED
      BY <2>2, <3>1, <3>2, <3>3, PaidReserves
  <2> QED
    BY <1>1, <2>1, <2>2 DEF StartMessage
<1>2. CASE Extract(h)
  <2>1. UNCHANGED unfair /\ Paid("saving", ticket[h].step)
    BY <1>0, <1>2 DEF Extract, At, HandlerPaid, Paid
  <2> QED
    BY <1>2, <2>1, PaidAt, PaidRefunds DEF Extract, usageVars
<1>3. CASE SummaryFails(h)
  BY <1>3, PaidRefunds DEF SummaryFails
<1>4. ASSUME NEW u \in Users, PressSummary(h, u) PROVE ChargeInv'
  <2>1. UNCHANGED unfair /\ handler[h].at = "idle"
    BY <1>4 DEF PressSummary, At
  <2> DEFINE charging == [Idle EXCEPT !.at = "charging", !.user = u, !.session = session[u]]
             repeating == [Idle EXCEPT !.at = "repeating", !.user = u, !.session = session[u]]
  <2>2. charging.at = "charging" /\ repeating.at = "repeating"
    BY DEF Idle
  <2>3. \/ Reserve(h, u, "summary") /\ handler' = [handler EXCEPT ![h] = charging]
        \/ UNCHANGED usageVars /\ handler' = [handler EXCEPT ![h] = repeating]
    BY <1>4 DEF PressSummary
  <2> HIDE DEF charging, repeating
  <2>4. Paid(repeating.at, ticket[h].step)
    BY <1>0, <2>1, <2>2 DEF HandlerPaid, Paid
  <2> QED
    BY <2>1, <2>2, <2>3, <2>4, PaidReserves, PaidPlace DEF usageVars
<1> QED
  BY <1>1, <1>2, <1>3, <1>4

\* The steps that end a request.
LEMMA PaidLeaving ==
    ASSUME RequestsInv, ChargeInv, NEW h \in Handlers,
           Announce(h) \/ MessageRaises(h) \/ Leave(h) \/ KeepVoice(h) \/ SummaryEnds(h)
    PROVE  ChargeInv'
<1>0. Seats /\ HandlerPaid(h)
  BY SeatsThere DEF ChargeInv
<1>1. CASE Announce(h) \/ KeepVoice(h)
  <2>1. Ends(h, TRUE, "none") /\ ticket[h].step \in {"granted", "none"}
    BY <1>0, <1>1 DEF Announce, KeepVoice, At, HandlerPaid, Paid
  <2> QED
    BY <1>0, <2>1, PaidEnds
<1>2. CASE MessageRaises(h)
  BY <1>0, <1>2, PaidEnds DEF MessageRaises
<1>3. CASE Leave(h) \/ SummaryEnds(h)
  <2>1. Ends(h, FALSE, "none") /\ ticket[h].step \in {"none", "returned", "unreturned", "refused"}
    BY <1>0, <1>3 DEF Leave, SummaryEnds, At, HandlerPaid, Paid
  <2> QED
    BY <1>0, <2>1, PaidEnds
<1> QED
  BY <1>1, <1>2, <1>3

\* Every step keeps what was paid in line with the place reached.
LEMMA ChargeKept ==
    ASSUME RequestsInv, ChargeInv, RequestsNext \/ UNCHANGED allVars
    PROVE  ChargeInv'
<1>1. CASE UNCHANGED <<handler, ticket, unfair>>
  BY <1>1 DEF ChargeInv, HandlerPaid, ChargeMatchesDelivery
<1>2. ASSUME NEW h \in Handlers, NEW u \in Users, NEW scope \in Scopes, Arrive(h, u, scope)
      PROVE  ChargeInv'
  <2>1. /\ UNCHANGED <<ticket, unfair>> /\ ReserveLock(h, u, scope)
        /\ Paid("queued", ticket[h].step)
    BY <1>2 DEF Arrive, At, usageVars, ChargeInv, HandlerPaid, Paid
  <2>2. PICK l : handler' = [handler EXCEPT ![h] =
                     [Idle EXCEPT !.at = "queued", !.user = u, !.scope = scope, !.lock = l]]
    BY <2>1 DEF ReserveLock
  <2> DEFINE r == [Idle EXCEPT !.at = "queued", !.user = u, !.scope = scope, !.lock = l]
  <2>3. r.at = "queued"
    BY DEF Idle
  <2> HIDE DEF r
  <2> QED
    BY <2>1, <2>2, <2>3, PaidPlace DEF r
<1>3. ASSUME NEW h \in Handlers, UsageQuery(h) \/ RefundFails(h) PROVE ChargeInv'
  BY <1>3, PaidQueries DEF UsageQuery, RefundFails, requestVars
<1>4. ASSUME \/ \E u \in Users : Stop(u)
             \/ \E s \in voicing : ChunkDone(s)
             \/ Delete \/ World \/ UNCHANGED allVars
      PROVE  ChargeInv'
  <2>1. UNCHANGED <<handler, ticket, unfair>>
    BY <1>4 DEF Stop, ChunkDone, Delete, World, Midnight, AdminStep, ReadAdjust, WriteAdjust,
       SetLimit, ChangePlan, ResetUser, usageVars, requestVars, allVars
  <2> QED
    BY <1>1, <2>1
<1> QED
  BY <1>2, <1>3, <1>4, PaidOnward, PaidCharging, PaidLeaving DEF RequestsNext

\* Every finished request is charged exactly when it was served, unless a call to
\* Telegram outside the try blocks raised or a refund failed.
THEOREM ChargeMatchesDeliveryHolds == RequestsSpec => []ChargeMatchesDelivery
<1>1. RequestsInit => ChargeInv
  BY DEF RequestsInit, UsageInit, NoTicket, Idle, ChargeInv, HandlerPaid, Paid,
     ChargeMatchesDelivery
<1>2. RequestsInv /\ ChargeInv /\ [RequestsNext]_allVars => ChargeInv'
  BY ChargeKept
<1>3. ChargeInv => ChargeMatchesDelivery
  BY DEF ChargeInv
<1> QED
  BY <1>1, <1>2, <1>3, RequestsInvariant, PTL DEF RequestsSpec

------------------------------------------------------------------------------
(* Which text a row, a session and a handler speak of.                     *)

DocMatches(D, d, c) == d # 0 => d \in DOMAIN D /\ (D[d] = Gone \/ D[d].content = c)

SeatTied(D, r) ==
    /\ r.at \in {"queued", "reserving", "extracting", "saving"} => r.doc = 0
    /\ r.at \in {"matching", "opening"} => DocMatches(D, r.doc, r.content)
    /\ r.at \in {"charging", "voicing", "storing"} =>
          DocMatches(D, r.session.doc, r.session.content)
    /\ r.at = "storing" => r.session.summary = r.session.content

RowOwn(row) == row = Gone \/ row.summary \in {None, row.content}

RowsOwn == \A n \in DOMAIN docs : RowOwn(docs[n])
SessionsTied == \A u \in Users : DocMatches(docs, session[u].doc, session[u].content)
SeatsTied == \A h \in Handlers : SeatTied(docs, handler[h])
CatalogInv == RowsOwn /\ SessionsTied /\ SeatsTied

\* A row keeps its text until it is deleted, and its id for ever.
TextsStay(D, E) ==
    \A n \in DOMAIN D :
       /\ n \in DOMAIN E
       /\ E[n] = D[n] \/ E[n] = Gone \/ (D[n] # Gone /\ E[n].content = D[n].content)

\* What matched a row matches it when rows are added, filled in and deleted.
LEMMA MatchStays ==
    ASSUME NEW D, NEW E, TextsStay(D, E)
    PROVE  /\ \A d, c : DocMatches(D, d, c) => DocMatches(E, d, c)
           /\ \A r : SeatTied(D, r) => SeatTied(E, r)
<1>1. ASSUME NEW d, NEW c, DocMatches(D, d, c) PROVE DocMatches(E, d, c)
  BY <1>1 DEF DocMatches, TextsStay
<1> QED
  BY <1>1 DEF SeatTied

\* A new row has the text it was added for, and no summary.
LEMMA RowIsAdded ==
    ASSUME WorldFits, RowsOwn, NEW u, NEW c, docs' = RowAdded(u, c)
    PROVE  TextsStay(docs, docs') /\ RowsOwn' /\ DocMatches(docs', Len(docs) + 1, c)
<1> DEFINE row == [owner |-> u, content |-> c, summary |-> None, audio |-> None]
           n == Len(docs)
<1>1. docs \in Seq(Row) /\ n \in Nat /\ DOMAIN docs = 1..n
  BY LenDocs DEF WorldFits, DocsFit
<1>2. docs' = Append(docs, row)
  BY DEF RowAdded
<1>3. row.content = c /\ RowOwn(row)
  BY DEF RowOwn
<1> HIDE DEF row
<1>4. DOMAIN docs' = 1..(n + 1) /\ docs'[n + 1] = row /\ \A i \in 1..n : docs'[i] = docs[i]
  <2>1. DOMAIN docs' = 1..(Len(docs) + 1) /\ docs'[Len(docs) + 1] = row
        /\ \A i \in 1..Len(docs) : docs'[i] = docs[i]
    BY <1>1, <1>2
  <2> QED
    BY <2>1
<1> HIDE DEF n
<1>5. TextsStay(docs, docs')
  BY <1>1, <1>4 DEF TextsStay
<1>6. ASSUME NEW i \in DOMAIN docs' PROVE RowOwn(docs'[i])
  <2>1. i = n + 1 \/ i \in 1..n
    BY <1>1, <1>4
  <2> QED
    BY <1>1, <1>3, <1>4, <2>1 DEF RowsOwn
<1>7. DocMatches(docs', n + 1, c)
  BY <1>1, <1>3, <1>4 DEF DocMatches
<1> QED
  BY <1>5, <1>6, <1>7 DEF RowsOwn, n

\* A summary of a row's own text, or any voice, is stored in it.
LEMMA RowIsFilled ==
    ASSUME WorldFits, RowsOwn, NEW u, NEW n, NEW s,
           \/ docs' = SummarySaved(u, n, s) /\ DocMatches(docs, n, s) /\ n # 0
           \/ docs' = AudioSaved(u, n, s)
           \/ UNCHANGED docs
    PROVE  TextsStay(docs, docs') /\ RowsOwn'
<1>1. CASE docs' = docs
  BY <1>1 DEF TextsStay, RowsOwn
<1>2. CASE docs' # docs
  <2>1. n \in DOMAIN docs /\ docs[n] # Gone
    BY <1>2 DEF SummarySaved, AudioSaved, OwnRow, Rows
  <2>2. docs[n] \in Row /\ RowOwn(docs[n])
    BY <2>1, RowTyped DEF RowsOwn
  <2>3. PICK row : /\ docs' = [docs EXCEPT ![n] = row]
                   /\ row.content = docs[n].content
                   /\ RowOwn(row)
    <3>1. CASE docs' = SummarySaved(u, n, s) /\ DocMatches(docs, n, s) /\ n # 0
      <4> DEFINE row == [docs[n] EXCEPT !.summary = s]
      <4>1. docs' = [docs EXCEPT ![n] = row]
        BY <1>2, <3>1 DEF SummarySaved
      <4>2. row.content = docs[n].content /\ row.summary = s
        BY <2>2 DEF Row
      <4>3. docs[n].content = s
        BY <2>1, <3>1 DEF DocMatches
      <4> HIDE DEF row
      <4> QED
        BY <4>1, <4>2, <4>3 DEF RowOwn
    <3>2. CASE docs' = AudioSaved(u, n, s)
      <4> DEFINE row == [docs[n] EXCEPT !.audio = s]
      <4>1. docs' = [docs EXCEPT ![n] = row]
        BY <1>2, <3>2 DEF AudioSaved
      <4>2. row.content = docs[n].content /\ row.summary = docs[n].summary
        BY <2>2 DEF Row
      <4> HIDE DEF row
      <4> QED
        BY <2>1, <2>2, <4>1, <4>2 DEF RowOwn
    <3> QED
      BY <1>2, <3>1, <3>2
  <2>4. DOMAIN docs' = DOMAIN docs /\ docs'[n] = row /\ \A i \in DOMAIN docs : i # n => docs'[i] = docs[i]
    BY <2>1, <2>3
  <2> QED
    BY <2>1, <2>3, <2>4 DEF TextsStay, RowsOwn
<1> QED
  BY <1>1, <1>2

\* Deleted rows match anything: nothing is stored in them any more.
LEMMA RowsAreDropped ==
    ASSUME RowsOwn, NEW ns, docs' = RowsDeleted(ns)
    PROVE  TextsStay(docs, docs') /\ RowsOwn'
  BY DEF RowsDeleted, TextsStay, RowsOwn, RowOwn

\* The session of one user is stored, of the text it had or of a row's, or dropped.
LEMMA SessionsStayTied ==
    ASSUME WorldFits, SessionsTied, TextsStay(docs, docs'), NEW u \in Users, NEW s,
           session' = [session EXCEPT ![u] = s] \/ UNCHANGED session,
           \/ s.doc = session[u].doc /\ s.content = session[u].content
           \/ DocMatches(docs', s.doc, s.content)
    PROVE  SessionsTied'
<1>1. ASSUME NEW v \in Users PROVE DocMatches(docs', session[v].doc, session[v].content)
  BY MatchStays DEF SessionsTied
<1>2. DocMatches(docs', s.doc, s.content)
  BY <1>1
<1>3. ASSUME NEW v \in Users PROVE session'[v] = s \/ session'[v] = session[v]
  BY DEF WorldFits, SessionsFit
<1> QED
  BY <1>1, <1>2, <1>3 DEF SessionsTied

\* No session changes, or any of them in anything but its text.
LEMMA SessionsKeepText ==
    ASSUME SessionsTied, TextsStay(docs, docs'),
           \A u \in Users : /\ session'[u].doc = session[u].doc
                            /\ session'[u].content = session[u].content
    PROVE  SessionsTied'
  BY MatchStays DEF SessionsTied

\* One handler goes somewhere with the right text, and the others stay where they are.
LEMMA SeatsStayTied ==
    ASSUME WorldFits, SeatsTied, TextsStay(docs, docs'), NEW h \in Handlers, NEW r,
           handler' = [handler EXCEPT ![h] = r] \/ UNCHANGED handler, SeatTied(docs', r)
    PROVE  SeatsTied'
<1>1. ASSUME NEW g \in Handlers PROVE SeatTied(docs', handler[g])
  BY MatchStays DEF SeatsTied
<1>2. ASSUME NEW g \in Handlers PROVE handler'[g] = r \/ handler'[g] = handler[g]
  BY DEF WorldFits, SeatsFit
<1> QED
  BY <1>1, <1>2 DEF SeatsTied

\* No handler moves.
LEMMA SeatsKeepText ==
    ASSUME SeatsTied, TextsStay(docs, docs'), UNCHANGED handler PROVE SeatsTied'
  BY MatchStays DEF SeatsTied

\* Nothing in the catalog changes.
LEMMA RowsStay == ASSUME RowsOwn, UNCHANGED docs PROVE TextsStay(docs, docs') /\ RowsOwn'
  BY DEF TextsStay, RowsOwn

\* A handler goes where nothing is asked of it, and one session changes but its text.
LEMMA TiesFree ==
    ASSUME WorldFits, CatalogInv, TextsStay(docs, docs'), RowsOwn', NEW h \in Handlers, NEW r,
           handler' = [handler EXCEPT ![h] = r] \/ UNCHANGED handler,
           r.at \in {"idle", "announcing", "leaving", "fetching", "keeping", "repeating",
                     "apologising"},
           NEW u \in Users, NEW s,
           session' = [session EXCEPT ![u] = s] \/ UNCHANGED session,
           \/ s.doc = session[u].doc /\ s.content = session[u].content
           \/ DocMatches(docs', s.doc, s.content)
    PROVE  CatalogInv'
<1>1. SeatTied(docs', r)
  BY DEF SeatTied
<1> QED
  BY <1>1, SeatsStayTied, SessionsStayTied DEF CatalogInv

\* What becomes of a session that some handler of the user marks or finishes.
LEMMA SameText ==
    ASSUME WorldFits, NEW u \in Users, NEW x, NEW y
    PROVE  /\ [session[u] EXCEPT !.generating = x].doc = session[u].doc
           /\ [session[u] EXCEPT !.generating = x].content = session[u].content
           /\ [session[u] EXCEPT !.delivered = x, !.audio = y].doc = session[u].doc
           /\ [session[u] EXCEPT !.delivered = x, !.audio = y].content = session[u].content
           /\ [session[u] EXCEPT !.summary = x, !.delivered = y].doc = session[u].doc
           /\ [session[u] EXCEPT !.summary = x, !.delivered = y].content = session[u].content
<1>1. session[u] \in Sess
  BY OwnSession
<1> QED
  BY <1>1 DEF Sess

\* A handler goes on with what it remembers, in the place of a text or out of it.
LEMMA TiesAt ==
    ASSUME WorldFits, CatalogInv, NEW h \in Handlers, NEW place, Goes(h, place),
           UNCHANGED <<docs, session>>,
           \/ place \in {"leaving", "apologising"}
           \/ place \in {"extracting", "saving"} /\ handler[h].doc = 0
           \/ place = "matching" /\ handler[h].doc = 0
           \/ place = "voicing" /\ handler[h].at = "charging"
    PROVE  CatalogInv'
<1>1. handler[h] \in Seat /\ SeatTied(docs, handler[h])
  BY Seated DEF CatalogInv, SeatsTied
<1> DEFINE r == [handler[h] EXCEPT !.at = place]
<1>2. /\ r.at = place /\ r.doc = handler[h].doc /\ r.content = handler[h].content
      /\ r.session = handler[h].session
  BY <1>1 DEF Seat
<1>3. handler' = [handler EXCEPT ![h] = r]
  BY DEF Goes
<1> HIDE DEF r
<1>4. SeatTied(docs', r)
  BY <1>1, <1>2 DEF SeatTied, DocMatches
<1>5. TextsStay(docs, docs') /\ RowsOwn'
  BY RowsStay DEF CatalogInv
<1>6. SessionsTied'
  BY DEF CatalogInv, SessionsTied
<1> QED
  BY <1>3, <1>4, <1>5, <1>6, SeatsStayTied DEF CatalogInv

\* Messages, up to the row.
LEMMA TiesMessage ==
    ASSUME WorldFits, CatalogInv, NEW h \in Handlers,
           \/ \E u \in Users, scope \in Scopes : Arrive(h, u, scope)
           \/ StartMessage(h) \/ Analyze(h) \/ Extract(h) \/ Save(h)
    PROVE  CatalogInv'
<1>0. /\ handler[h] \in Seat /\ SeatTied(docs, handler[h]) /\ SessionsTied /\ RowsOwn /\ SeatsTied
      /\ handler[h].at \in LockedPlaces => handler[h].user \in Users
  BY Seated DEF CatalogInv, SeatsTied
<1>1. ASSUME NEW u \in Users, NEW scope \in Scopes, Arrive(h, u, scope) PROVE CatalogInv'
  <2>1. UNCHANGED <<docs, session>> /\ ReserveLock(h, u, scope)
    BY <1>1 DEF Arrive
  <2>2. PICK l : handler' = [handler EXCEPT ![h] =
                     [Idle EXCEPT !.at = "queued", !.user = u, !.scope = scope, !.lock = l]]
    BY <2>1 DEF ReserveLock
  <2> DEFINE r == [Idle EXCEPT !.at = "queued", !.user = u, !.scope = scope, !.lock = l]
  <2>3. r.at = "queued" /\ r.doc = 0
    BY DEF Idle
  <2>4. handler' = [handler EXCEPT ![h] = r]
    BY <2>2
  <2> HIDE DEF r
  <2>5. SeatTied(docs', r)
    BY <2>3 DEF SeatTied
  <2> QED
    BY <1>0, <2>1, <2>4, <2>5, RowsStay, SeatsStayTied, SessionsKeepText DEF CatalogInv
<1>2. CASE StartMessage(h)
  <2>1. /\ handler[h].at = "queued" /\ handler[h].doc = 0 /\ handler[h].user \in Users
        /\ UNCHANGED docs
    BY <1>0, <1>2 DEF StartMessage, At, SeatTied, LockedPlaces
  <2>2. CASE Goes(h, "leaving") /\ UNCHANGED session
    BY <2>1, <2>2, TiesAt
  <2>3. ASSUME NEW c \in Contents, session' = [session EXCEPT ![handler[h].user] = NoSession],
               handler' = [handler EXCEPT ![h].at = "reserving", ![h].content = c]
        PROVE  CatalogInv'
    <3> DEFINE r == [handler[h] EXCEPT !.at = "reserving", !.content = c]
    <3>1. handler' = [handler EXCEPT ![h] = r]
      BY <2>3
    <3>2. r.at = "reserving" /\ r.doc = 0
      BY <1>0, <2>1 DEF Seat
    <3> HIDE DEF r
    <3>3. SeatTied(docs', r) /\ DocMatches(docs', NoSession.doc, NoSession.content)
      BY <3>2, NoSessionFits DEF SeatTied, DocMatches
    <3> QED
      BY <1>0, <2>1, <2>3, <3>1, <3>3, RowsStay, SeatsStayTied, SessionsStayTied DEF CatalogInv
  <2> QED
    BY <1>2, <2>2, <2>3 DEF StartMessage
<1>3. CASE Analyze(h) \/ Extract(h)
  <2>1. /\ handler[h].doc = 0 /\ UNCHANGED <<docs, session>>
        /\ Goes(h, "extracting") \/ Goes(h, "saving") \/ Goes(h, "leaving")
    BY <1>0, <1>3 DEF Analyze, Extract, At, SeatTied
  <2> QED
    BY <2>1, TiesAt
<1>4. CASE Save(h)
  <2>1. handler[h].at = "saving" /\ handler[h].doc = 0 /\ UNCHANGED session
    BY <1>0, <1>4 DEF Save, At, SeatTied
  <2>2. CASE Goes(h, "matching") /\ UNCHANGED docs
    BY <2>1, <2>2, TiesAt
  <2>3. CASE /\ docs' = RowAdded(handler[h].user, handler[h].content)
             /\ handler' = [handler EXCEPT ![h].at = "matching", ![h].doc = Len(docs) + 1]
    <3> DEFINE r == [handler[h] EXCEPT !.at = "matching", !.doc = Len(docs) + 1]
    <3>1. handler' = [handler EXCEPT ![h] = r]
      BY <2>3
    <3>2. r.at = "matching" /\ r.doc = Len(docs) + 1 /\ r.content = handler[h].content
      BY <1>0 DEF Seat
    <3> HIDE DEF r
    <3>3. /\ TextsStay(docs, docs') /\ RowsOwn'
          /\ DocMatches(docs', Len(docs) + 1, handler[h].content)
      BY <1>0, <2>3, RowIsAdded
    <3>4. SeatTied(docs', r)
      BY <3>2, <3>3 DEF SeatTied
    <3> QED
      BY <1>0, <2>1, <3>1, <3>3, <3>4, SeatsStayTied, SessionsKeepText DEF CatalogInv
  <2> QED
    BY <1>4, <2>2, <2>3 DEF Save
<1> QED
  BY <1>1, <1>2, <1>3, <1>4

\* The material is opened, or the request ends.
LEMMA TiesOpening ==
    ASSUME WorldFits, CatalogInv, NEW h \in Handlers,
           \/ Match(h) \/ StartFromCatalog(h)
           \/ Announce(h) \/ MessageRaises(h) \/ Leave(h)
    PROVE  CatalogInv'
<1>0. /\ handler[h] \in Seat /\ SeatTied(docs, handler[h])
      /\ handler[h].at \in LockedPlaces => handler[h].user \in Users
  BY Seated DEF CatalogInv, SeatsTied
<1>1. CASE Match(h) \/ StartFromCatalog(h)
  <2>1. /\ handler[h].at \in {"matching", "opening"} /\ handler[h].user \in Users /\ UNCHANGED docs
        /\ DocMatches(docs, handler[h].doc, handler[h].content)
    BY <1>0, <1>1 DEF Match, StartFromCatalog, At, SeatTied, LockedPlaces
  <2>2. PICK summary, audio :
           Opens(h, handler[h].user, handler[h].doc, handler[h].content, summary, audio)
    BY <1>1 DEF Match, StartFromCatalog
  <2> DEFINE r == [handler[h] EXCEPT !.at = "announcing", !.session.sid = opened + 1]
             s == [NoSession EXCEPT !.sid = opened + 1, !.doc = handler[h].doc,
                       !.content = handler[h].content, !.summary = summary, !.audio = audio,
                       !.generating = TRUE]
  <2>3. handler' = [handler EXCEPT ![h] = r] /\ session' = [session EXCEPT ![handler[h].user] = s]
    BY <2>2 DEF Opens
  <2>4. r.at = "announcing" /\ s.doc = handler[h].doc /\ s.content = handler[h].content
    BY <1>0 DEF Seat, NoSession
  <2> HIDE DEF r, s
  <2>5. DocMatches(docs', s.doc, s.content) /\ TextsStay(docs, docs') /\ RowsOwn'
    BY <2>1, <2>4, RowsStay DEF CatalogInv
  <2>6. PICK u \in Users : session' = [session EXCEPT ![u] = s]
    BY <2>1, <2>3
  <2> QED
    BY <2>3, <2>4, <2>5, <2>6, TiesFree
<1>2. CASE Announce(h) \/ MessageRaises(h) \/ Leave(h)
  <2>1. /\ UNCHANGED <<docs, session>> /\ handler' = [handler EXCEPT ![h] = Idle]
        /\ Idle.at = "idle"
    BY <1>2 DEF Announce, MessageRaises, Leave, Ends, Idle
  <2>2. SeatTied(docs', Idle)
    BY <2>1 DEF SeatTied
  <2> QED
    BY <2>1, <2>2, RowsStay, SeatsStayTied, SessionsKeepText DEF CatalogInv
<1> QED
  BY <1>1, <1>2

\* The catalog hands a row over.
LEMMA TiesCatalog ==
    ASSUME WorldFits, CatalogInv, NEW h \in Handlers, StartOpen(h) \/ Fetch(h)
    PROVE  CatalogInv'
<1>0. handler[h] \in Seat /\ UNCHANGED <<docs, session>>
  BY Seated DEF StartOpen, Fetch
<1>1. CASE Goes(h, "leaving")
  BY <1>0, <1>1, TiesAt
<1>2. ASSUME NEW n \in DOMAIN docs, handler' = [handler EXCEPT ![h].at = "fetching", ![h].doc = n]
      PROVE  CatalogInv'
  <2> DEFINE r == [handler[h] EXCEPT !.at = "fetching", !.doc = n]
  <2>1. handler' = [handler EXCEPT ![h] = r]
    BY <1>2
  <2>2. r.at = "fetching"
    BY <1>0 DEF Seat
  <2> HIDE DEF r
  <2>3. SeatTied(docs', r)
    BY <2>2 DEF SeatTied
  <2> QED
    BY <1>0, <2>1, <2>3, RowsStay, SeatsStayTied, SessionsKeepText DEF CatalogInv
<1>3. CASE Fetch(h) /\ ~Goes(h, "leaving")
  <2> DEFINE n == handler[h].doc
             r == [handler[h] EXCEPT !.at = "opening", !.content = docs[n].content,
                      !.session.summary = docs[n].summary, !.session.audio = docs[n].audio]
  <2>1. handler' = [handler EXCEPT ![h] = r] /\ n \in DOMAIN docs
    BY <1>3 DEF Fetch, OwnRow, Rows
  <2>2. r.at = "opening" /\ r.doc = n /\ r.content = docs[n].content
    BY <1>0 DEF Seat
  <2> HIDE DEF r
  <2>3. SeatTied(docs', r)
    BY <1>0, <2>1, <2>2 DEF SeatTied, DocMatches
  <2> QED
    BY <1>0, <2>1, <2>3, RowsStay, SeatsStayTied, SessionsKeepText DEF CatalogInv
<1> QED
  BY <1>1, <1>2, <1>3 DEF StartOpen

\* The button is pressed: the handler takes the session it found along.
LEMMA TiesPress ==
    ASSUME WorldFits, CatalogInv, NEW h \in Handlers, NEW u \in Users, PressSummary(h, u)
    PROVE  CatalogInv'
<1> DEFINE s == [session[u] EXCEPT !.generating = TRUE]
<1>1. UNCHANGED docs /\ session' = [session EXCEPT ![u] = s]
  BY DEF PressSummary
<1>2. s.doc = session[u].doc /\ s.content = session[u].content
  BY SameText
<1>3. DocMatches(docs', session[u].doc, session[u].content)
  BY <1>1 DEF CatalogInv, SessionsTied
<1>4. PICK p \in {"charging", "repeating"} :
         handler' = [handler EXCEPT ![h] = [Idle EXCEPT !.at = p, !.user = u, !.session = session[u]]]
  BY DEF PressSummary
<1> DEFINE r == [Idle EXCEPT !.at = p, !.user = u, !.session = session[u]]
<1>5. handler' = [handler EXCEPT ![h] = r]
  BY <1>4
<1>6. r.at = p /\ r.session = session[u]
  BY DEF Idle
<1> HIDE DEF r, s
<1>7. SeatTied(docs', r)
  BY <1>3, <1>6 DEF SeatTied
<1> QED
  BY <1>1, <1>2, <1>5, <1>7, RowsStay, SeatsStayTied, SessionsStayTied DEF CatalogInv

\* The summary is made, sent and stored with the document of its own session.
LEMMA TiesSummary ==
    ASSUME WorldFits, CatalogInv, NEW h \in Handlers,
           \/ Summarize(h) \/ SummaryFails(h) \/ SummarySent(h) \/ StoreSummary(h)
           \/ KeepVoice(h) \/ SummaryEnds(h) \/ Repeat(h)
    PROVE  CatalogInv'
<1>0. /\ handler[h] \in Seat /\ handler[h].session \in Sess /\ SeatTied(docs, handler[h])
      /\ handler[h].at \in FreePlaces => handler[h].user \in Users
  BY Seated DEF CatalogInv, SeatsTied
<1> DEFINE own == handler[h].session
<1>1. handler[h].at \in FreePlaces
  BY DEF Summarize, SummaryFails, SummarySent, StoreSummary, KeepVoice, SummaryEnds, Repeat,
     FreePlaces, At
<1>2. PICK u \in Users : u = handler[h].user
  BY <1>0, <1>1
<1>3. CASE Summarize(h) \/ SummaryFails(h)
  <2>1. /\ UNCHANGED <<docs, session>>
        /\ \/ Goes(h, "voicing") /\ handler[h].at = "charging"
           \/ Goes(h, "apologising")
    BY <1>3 DEF Summarize, SummaryFails, At
  <2> QED
    BY <2>1, TiesAt
<1>4. CASE SummarySent(h)
  <2> DEFINE r == [handler[h] EXCEPT !.at = "storing", !.session.summary = own.content]
             s == [session[u] EXCEPT !.summary = own.content, !.delivered = FALSE]
  <2>1. /\ handler' = [handler EXCEPT ![h] = r] /\ UNCHANGED docs
        /\ session' = [session EXCEPT ![u] = s] \/ UNCHANGED session
    BY <1>2, <1>4 DEF SummarySent, Updated
  <2>2. /\ r.at = "storing" /\ r.session.doc = own.doc /\ r.session.content = own.content
        /\ r.session.summary = own.content
    BY <1>0 DEF Seat, Sess
  <2>3. s.doc = session[u].doc /\ s.content = session[u].content
    BY SameText
  <2>4. DocMatches(docs', own.doc, own.content)
    BY <1>0, <1>4, <2>1 DEF SummarySent, At, SeatTied
  <2> HIDE DEF r, s
  <2>5. SeatTied(docs', r)
    BY <2>2, <2>4 DEF SeatTied
  <2> QED
    BY <2>1, <2>3, <2>5, RowsStay, SeatsStayTied, SessionsStayTied DEF CatalogInv
<1>5. CASE StoreSummary(h)
  <2> DEFINE r == [handler[h] EXCEPT !.at = "keeping", !.session.audio = own.summary]
             s == [session[u] EXCEPT !.delivered = TRUE, !.audio = own.summary]
  <2>1. /\ handler' = [handler EXCEPT ![h] = r]
        /\ session' = [session EXCEPT ![u] = s] \/ UNCHANGED session
        /\ docs' = SummarySaved(u, own.doc, own.summary)
    BY <1>2, <1>5 DEF StoreSummary, Updated
  <2>2. DocMatches(docs, own.doc, own.summary)
    BY <1>0, <1>5 DEF StoreSummary, At, SeatTied
  <2>3. own.doc = 0 => UNCHANGED docs
    BY <2>1, LenDocs DEF WorldFits, SummarySaved, OwnRow, Rows
  <2>4. r.at = "keeping" /\ s.doc = session[u].doc /\ s.content = session[u].content
    BY <1>0, SameText DEF Seat
  <2> HIDE DEF r, s
  <2>5. TextsStay(docs, docs') /\ RowsOwn'
    BY <2>1, <2>2, <2>3, RowIsFilled DEF CatalogInv
  <2> QED
    BY <2>1, <2>4, <2>5, TiesFree
<1>6. CASE KeepVoice(h) \/ SummaryEnds(h)
  <2> DEFINE s == [session[u] EXCEPT !.generating = FALSE]
  <2>1. /\ handler' = [handler EXCEPT ![h] = Idle] /\ Idle.at = "idle"
        /\ session' = [session EXCEPT ![u] = s] \/ UNCHANGED session
        /\ docs' = AudioSaved(u, own.doc, own.audio) \/ UNCHANGED docs
    BY <1>2, <1>6 DEF KeepVoice, SummaryEnds, Ends, Finished, Updated, Idle
  <2>2. s.doc = session[u].doc /\ s.content = session[u].content
    BY SameText
  <2> HIDE DEF s
  <2>3. TextsStay(docs, docs') /\ RowsOwn'
    BY <2>1, RowIsFilled DEF CatalogInv
  <2> QED
    BY <2>1, <2>2, <2>3, TiesFree
<1>7. CASE Repeat(h)
  <2>1. UNCHANGED docs
    BY <1>7 DEF Repeat
  <2>2. CASE Goes(h, "apologising") /\ UNCHANGED session
    BY <2>1, <2>2, TiesAt
  <2>3. CASE ~(Goes(h, "apologising") /\ UNCHANGED session)
    <3>1. PICK voice :
             /\ session' = Updated(u, [session[u] EXCEPT !.delivered = TRUE, !.audio = voice])
             /\ handler' = [handler EXCEPT ![h].at = "keeping",
                              ![h].session = [Local(h) EXCEPT !.audio = voice]]
      BY <1>2, <1>7, <2>3 DEF Repeat
    <3> DEFINE r == [handler[h] EXCEPT !.at = "keeping", !.session = [Local(h) EXCEPT !.audio = voice]]
               s == [session[u] EXCEPT !.delivered = TRUE, !.audio = voice]
    <3>2. /\ handler' = [handler EXCEPT ![h] = r]
          /\ session' = [session EXCEPT ![u] = s] \/ UNCHANGED session
      BY <3>1 DEF Updated
    <3>3. r.at = "keeping" /\ s.doc = session[u].doc /\ s.content = session[u].content
      BY <1>0, SameText DEF Seat
    <3> HIDE DEF r, s
    <3>4. TextsStay(docs, docs') /\ RowsOwn'
      BY <2>1, RowsStay DEF CatalogInv
    <3> QED
      BY <3>2, <3>3, <3>4, TiesFree
  <2> QED
    BY <2>2, <2>3
<1> QED
  BY <1>3, <1>4, <1>5, <1>6, <1>7

\* The rest of the user's world: sessions dropped, rows deleted, jobs done.
LEMMA TiesRest ==
    ASSUME WorldFits, CatalogInv,
           \/ \E u \in Users : Stop(u)
           \/ \E s \in voicing : ChunkDone(s)
           \/ Delete \/ World \/ UNCHANGED allVars
           \/ \E h \in Handlers : UsageQuery(h) \/ RefundFails(h)
    PROVE  CatalogInv'
<1>1. CASE UNCHANGED <<docs, session, handler>>
  BY <1>1, RowsStay, SeatsKeepText, SessionsKeepText DEF CatalogInv
<1>2. ASSUME NEW u \in Users, Stop(u) PROVE CatalogInv'
  <2>1. /\ UNCHANGED <<docs, handler>> /\ session' = [session EXCEPT ![u] = NoSession]
        /\ DocMatches(docs', NoSession.doc, NoSession.content)
    BY <1>2, NoSessionFits DEF Stop, DocMatches
  <2> QED
    BY <2>1, RowsStay, SeatsKeepText, SessionsStayTied DEF CatalogInv
<1>3. ASSUME NEW s \in voicing, ChunkDone(s) PROVE CatalogInv'
  <2>1. ASSUME NEW u \in Users
        PROVE  session'[u].doc = session[u].doc /\ session'[u].content = session[u].content
    BY <1>3, SameText DEF ChunkDone
  <2>2. UNCHANGED <<docs, handler>>
    BY <1>3 DEF ChunkDone
  <2> QED
    BY <2>1, <2>2, RowsStay, SeatsKeepText, SessionsKeepText DEF CatalogInv
<1>4. CASE Delete
  <2>1. UNCHANGED <<session, handler>> /\ \E ns : docs' = RowsDeleted(ns)
    BY <1>4 DEF Delete, DeleteRow, ClearCatalog, DeleteOlder
  <2> QED
    BY <2>1, RowsAreDropped, SeatsKeepText, SessionsKeepText DEF CatalogInv
<1>5. CASE World \/ UNCHANGED allVars \/ \E h \in Handlers : UsageQuery(h) \/ RefundFails(h)
  <2>1. UNCHANGED <<docs, session, handler>>
    BY <1>5 DEF World, UsageQuery, RefundFails, requestVars, allVars
  <2> QED
    BY <1>1, <2>1
<1> QED
  BY <1>2, <1>3, <1>4, <1>5

\* The summary that a row keeps is of the row's own text: over replaced sessions, late
\* saves, deletions and reopened documents.
THEOREM CatalogSummaryOwnHolds == RequestsSpec => []CatalogSummaryOwn
<1>1. ASSUME RequestsInit PROVE CatalogInv
  <2>1. RowsOwn
    <3>1. CASE docs = <<>>
      BY <3>1 DEF RowsOwn
    <3>2. ASSUME NEW u \in Users, NEW c \in Contents,
                 docs = <<[owner |-> u, content |-> c, summary |-> c, audio |-> None]>>
          PROVE  RowsOwn
      <4> DEFINE row == [owner |-> u, content |-> c, summary |-> c, audio |-> None]
      <4>1. RowOwn(row) /\ docs = <<row>>
        BY <3>2 DEF RowOwn
      <4> HIDE DEF row
      <4> QED
        BY <4>1 DEF RowsOwn
    <3> QED
      BY <1>1, <3>1, <3>2 DEF RequestsInit, CatalogInit
  <2>2. SessionsTied
    BY <1>1, NoSessionFits DEF RequestsInit, SessionsTied, DocMatches
  <2>3. SeatsTied
    BY <1>1 DEF RequestsInit, SeatsTied, SeatTied, Idle
  <2> QED
    BY <2>1, <2>2, <2>3 DEF CatalogInv
<1>2. RequestsInv /\ CatalogInv /\ [RequestsNext]_allVars => CatalogInv'
  <2>1. ASSUME WorldFits, CatalogInv, RequestsNext \/ UNCHANGED allVars PROVE CatalogInv'
    BY <2>1, TiesMessage, TiesOpening, TiesCatalog, TiesPress, TiesSummary, TiesRest DEF RequestsNext
  <2> QED
    BY <2>1 DEF RequestsInv
<1>3. CatalogInv => CatalogSummaryOwn
  BY DEF CatalogInv, RowsOwn, RowOwn, CatalogSummaryOwn, Rows
<1> QED
  BY <1>1, <1>2, <1>3, RequestsInvariant, PTL DEF RequestsSpec
=============================================================================
