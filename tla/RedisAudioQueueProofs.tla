------------------------ MODULE RedisAudioQueueProofs ------------------------
(***************************************************************************)
(* Proofs about RedisAudioQueue: its operations on lists, then what a      *)
(* worker does between two suspensions (Continues), then the invariants,   *)
(* one step per action, and last how many jobs failed calls can leave      *)
(* behind in processing.                                                   *)
(***************************************************************************)
EXTENDS RedisAudioQueue, SequenceLemmas

------------------------------------------------------------------------------
\* Lists.

\* LREM with count 1 leaves a list of jobs, and takes its job out of one that holds it once.
LEMMA WithoutFacts ==
    ASSUME NEW list \in Seq(Job), NEW j
    PROVE  /\ Without(list, j) \in Seq(Job)
           /\ IsInjective(list) => /\ Range(Without(list, j)) = Range(list) \ {j}
                                   /\ IsInjective(Without(list, j))
<1>1. CASE j \in Range(list)
  <2> DEFINE i == CHOOSE k \in DOMAIN list : list[k] = j
  <2>1. i \in DOMAIN list /\ list[i] = j
    BY <1>1 DEF Range
  <2>2. Without(list, j) = RemoveAt(list, i)
    BY <1>1 DEF Without
  <2> HIDE DEF i
  <2>3. Without(list, j) \in Seq(Job)
    BY <2>1, <2>2, RemoveAtFacts
  <2>4. ASSUME IsInjective(list)
        PROVE  /\ Range(Without(list, j)) = Range(list) \ {j}
               /\ IsInjective(Without(list, j))
    BY <2>1, <2>2, <2>4, RemoveAtElements
  <2> QED
    BY <2>3, <2>4
<1>2. CASE j \notin Range(list)
  BY <1>2 DEF Without
<1> QED
  BY <1>1, <1>2

\* The entries at some positions: each of them once, if the list had each once.
LEMMA EntriesAtFacts ==
    ASSUME NEW list \in Seq(Job), NEW kept \in SUBSET (DOMAIN list)
    PROVE  /\ EntriesAt(list, kept) \in Seq(Job)
           /\ Range(EntriesAt(list, kept)) = {list[i] : i \in kept}
           /\ IsInjective(list) => IsInjective(EntriesAt(list, kept))
<1> DEFINE rank(i) == Cardinality({h \in kept : h <= i})
           m == Cardinality(kept)
           at(k) == CHOOSE i \in kept : rank(i) = k
           t == EntriesAt(list, kept)
<1>1. Len(list) \in Nat /\ DOMAIN list = 1..Len(list) /\ \A i \in DOMAIN list : list[i] \in Job
  BY LenProperties
<1>2. /\ m \in Nat
      /\ \A i \in kept : rank(i) \in 1..m
      /\ \A i, j \in kept : rank(i) = rank(j) => i = j
      /\ \A k \in 1..m : \E i \in kept : rank(i) = k
  BY <1>1, RankOnto
<1>3. t = [k \in 1..m |-> list[at(k)]]
  BY DEF EntriesAt
<1> HIDE DEF rank, m, t
<1>4. \A k \in 1..m : at(k) \in kept /\ rank(at(k)) = k
  BY <1>2
<1> HIDE DEF at
<1>5. \A k \in 1..m : list[at(k)] \in Job
  BY <1>1, <1>4
<1>6. t \in Seq(Job)
  BY <1>2, <1>3, <1>5
<1>7. DOMAIN t = 1..m /\ \A k \in 1..m : t[k] = list[at(k)]
  BY <1>3
<1>8. Range(t) = {list[i] : i \in kept}
  <2>1. ASSUME NEW x \in Range(t) PROVE x \in {list[i] : i \in kept}
    BY <1>4, <1>7 DEF Range
  <2>2. ASSUME NEW i \in kept PROVE list[i] \in Range(t)
    <3>1. at(rank(i)) = i
      BY <1>2, <1>4
    <3> QED
      BY <1>2, <1>7, <3>1 DEF Range
  <2> QED
    BY <2>1, <2>2
<1>9. ASSUME IsInjective(list) PROVE IsInjective(t)
  BY <1>4, <1>7, <1>9 DEF IsInjective
<1> QED
  BY <1>6, <1>8, <1>9 DEF t

\* What the purge script leaves of a list.
LEMMA WithoutUserFacts ==
    ASSUME NEW list \in Seq(Job), NEW user
    PROVE  /\ WithoutUser(list, user) \in Seq(Job)
           /\ Range(WithoutUser(list, user)) = {j \in Range(list) : j.user # user}
           /\ IsInjective(list) => IsInjective(WithoutUser(list, user))
<1> DEFINE kept == {i \in DOMAIN list : list[i].user # user}
<1>1. kept \in SUBSET (DOMAIN list)
  OBVIOUS
<1>2. {list[i] : i \in kept} = {j \in Range(list) : j.user # user}
  BY DEF Range
<1>3. WithoutUser(list, user) = EntriesAt(list, kept)
  BY DEF WithoutUser
<1> HIDE DEF kept
<1> QED
  BY <1>1, <1>2, <1>3, EntriesAtFacts

------------------------------------------------------------------------------
\* What a worker does between two suspensions.

\* It suspends again, or takes a job that was set aside.
Continues(w, busy) ==
    \/ /\ \E state \in {"done", "popping_visible", "popping_prefetch"} : Suspend(w, state, busy)
       /\ UNCHANGED deferred
    \/ \E i \in DOMAIN deferred :
          /\ deferred[i].user \notin busy
          /\ deferred' = RemoveAt(deferred, i)
          /\ \/ ~Stopping /\ Handle(w, deferred[i], busy)
             \/ Stopping /\ GiveBack(w, deferred[i], busy \cup {deferred[i].user})

\* Every way through the loop's head ends like this.
LEMMA LoopTopContinues ==
    ASSUME NEW w, NEW busy, LoopTop(w, busy)
    PROVE  Continues(w, busy)
BY DEF LoopTop, TakeDeferred, FreeDeferred, Continues

\* So does the look at the prefetch jobs that were set aside.
LEMMA NothingPoppedContinues ==
    ASSUME NEW w, NothingPopped(w)
    PROVE  Continues(w, active_users)
<1>1. ASSUME TakeDeferred(w, "prefetch", active_users)
      PROVE  Continues(w, active_users)
  BY <1>1 DEF TakeDeferred, FreeDeferred, Continues
<1>2. ASSUME Suspend(w, "popping_prefetch", active_users), UNCHANGED deferred
      PROVE  Continues(w, active_users)
  BY <1>2 DEF Continues
<1> QED
  BY <1>1, <1>2, LoopTopContinues DEF NothingPopped

------------------------------------------------------------------------------
\* Types.

\* The part of TypeOK about the workers and what they hold.
HandTypes ==
    /\ active_users \in SUBSET Users
    /\ pc \in [Workers -> WorkerStates]
    /\ job \in [Workers -> Job \cup {NoJob}]
    /\ \A w \in Workers : job[w] # NoJob <=> pc[w] \in InHand
    /\ begun \in SUBSET Job

\* Suspending with empty hands keeps the types.
LEMMA SuspendTypes ==
    ASSUME HandTypes, NEW w \in Workers, NEW state \in WorkerStates \ InHand,
           NEW busy \in SUBSET Users, Suspend(w, state, busy)
    PROVE  HandTypes'
BY DEF HandTypes, Suspend

\* Starting a job keeps the types.
LEMMA HandleTypes ==
    ASSUME HandTypes, NEW w \in Workers, NEW j \in Job, NEW busy \in SUBSET Users,
           Handle(w, j, busy)
    PROVE  HandTypes'
<1>1. j.user \in Users /\ j # NoJob
  BY RedisQueueAssumption DEF Job
<1>2. "handling" \in WorkerStates /\ "handling" \in InHand
  BY DEF WorkerStates, InHand
<1> QED
  BY <1>1, <1>2 DEF HandTypes, Handle

\* Holding a job back keeps the types.
LEMMA GiveBackTypes ==
    ASSUME HandTypes, NEW w \in Workers, NEW j \in Job, NEW busy \in SUBSET Users,
           GiveBack(w, j, busy)
    PROVE  HandTypes'
<1>1. j # NoJob
  BY RedisQueueAssumption
<1>2. "requeueing" \in WorkerStates /\ "requeueing" \in InHand
  BY DEF WorkerStates, InHand
<1> QED
  BY <1>1, <1>2 DEF HandTypes, GiveBack

\* So does everything a worker does between two suspensions.
LEMMA ContinuesTypes ==
    ASSUME HandTypes, deferred \in Seq(Job), NEW w \in Workers, NEW busy \in SUBSET Users,
           Continues(w, busy)
    PROVE  HandTypes' /\ deferred' \in Seq(Job)
<1>1. ASSUME NEW state \in {"done", "popping_visible", "popping_prefetch"},
             Suspend(w, state, busy), UNCHANGED deferred
      PROVE  HandTypes' /\ deferred' \in Seq(Job)
  <2>1. state \in WorkerStates \ InHand
    BY DEF WorkerStates, InHand, Finishing, Acking
  <2> QED
    BY <1>1, <2>1, SuspendTypes
<1>2. ASSUME NEW i \in DOMAIN deferred, deferred' = RemoveAt(deferred, i),
             \/ Handle(w, deferred[i], busy)
             \/ GiveBack(w, deferred[i], busy \cup {deferred[i].user})
      PROVE  HandTypes' /\ deferred' \in Seq(Job)
  <2>1. deferred[i] \in Job
    BY LenProperties
  <2>2. busy \cup {deferred[i].user} \in SUBSET Users
    BY <2>1 DEF Job
  <2>3. deferred' \in Seq(Job)
    BY <1>2, RemoveAtFacts
  <2> QED
    BY <1>2, <2>1, <2>2, <2>3, HandleTypes, GiveBackTypes
<1> QED
  BY <1>1, <1>2 DEF Continues

\* Every list that an operation on the queue leaves is a list of jobs.
ListTypes ==
    /\ pending \in [Priorities -> Seq(Job)]
    /\ processing \in [Priorities -> Seq(Job)]

\* The requeue script keeps the lists lists of jobs.
LEMMA MoveBackTypes ==
    ASSUME ListTypes, NEW j \in Job, MoveBack(j)
    PROVE  ListTypes'
<1>1. j.priority \in Priorities
  BY DEF Job
<1>2. pending[j.priority] \in Seq(Job) /\ processing[j.priority] \in Seq(Job)
  BY <1>1 DEF ListTypes
<1>3. Without(processing[j.priority], j) \in Seq(Job)
  BY <1>2, WithoutFacts
<1>4. Append(pending[j.priority], j) \in Seq(Job)
  BY <1>2, AppendFacts
<1> QED
  BY <1>3, <1>4 DEF ListTypes, MoveBack

\* So does the acknowledgement.
LEMMA RemoveAckedTypes ==
    ASSUME ListTypes, NEW w, job[w] \in Job, RemoveAcked(w)
    PROVE  processing' \in [Priorities -> Seq(Job)]
<1>1. job[w].priority \in Priorities
  BY DEF Job
<1>2. processing[job[w].priority] \in Seq(Job)
  BY <1>1 DEF ListTypes
<1>3. Without(processing[job[w].priority], job[w]) \in Seq(Job)
  BY <1>2, WithoutFacts
<1> QED
  BY <1>3 DEF ListTypes, RemoveAcked

\* The head of a pending list becomes the last of the processing list, or the other
\* way round.
LEMMA HeadMoves ==
    ASSUME NEW from \in [Priorities -> Seq(Job)], NEW to \in [Priorities -> Seq(Job)],
           NEW p \in Priorities, from[p] # <<>>
    PROVE  /\ Head(from[p]) \in Job
           /\ [from EXCEPT ![p] = Tail(@)] \in [Priorities -> Seq(Job)]
           /\ [to EXCEPT ![p] = Append(@, Head(from[p]))] \in [Priorities -> Seq(Job)]
<1>1. from[p] \in Seq(Job) /\ to[p] \in Seq(Job)
  OBVIOUS
<1>2. Head(from[p]) \in Job /\ Tail(from[p]) \in Seq(Job)
  BY <1>1, HeadTailProperties
<1>3. Append(to[p], Head(from[p])) \in Seq(Job)
  BY <1>1, <1>2, AppendProperties
<1> QED
  BY <1>2, <1>3

\* What a failed or ended process leaves in memory.
LEMMA MemoryLostTypes ==
    ASSUME TypeOK, MemoryLost
    PROVE  HandTypes' /\ deferred' \in Seq(Job) /\ active' \in Seq(Job) /\ phase' \in Phases
<1>1. <<>> \in Seq(Job)
  BY EmptySeq
<1>2. "absent" \in WorkerStates \ InHand
  BY DEF WorkerStates, InHand, Finishing, Acking
<1> QED
  BY <1>1, <1>2 DEF TypeOK, MemoryLost, HandTypes, Phases

\* The empty queue has the types.
LEMMA TypeInit == Init => TypeOK
<1> SUFFICES ASSUME Init PROVE TypeOK
  OBVIOUS
<1>1. <<>> \in Seq(Job)
  BY EmptySeq
<1>2. "absent" \in WorkerStates \ InHand
  BY DEF WorkerStates, InHand, Finishing, Acking
<1> QED
  BY <1>1, <1>2, RedisQueueAssumption DEF Init, TypeOK, Phases

\* TypeOK in the parts the actions change.
Counted == stops \in 0..MaxStops /\ failures \in 0..MaxFailures

\* TypeOK in the parts the steps are checked against.
LEMMA TypeParts ==
    TypeOK <=> /\ ListTypes /\ HandTypes /\ deferred \in Seq(Job) /\ active \in Seq(Job)
               /\ phase \in Phases /\ next_id \in 1..(MaxJobs + 1)
               /\ purged \in SUBSET Job /\ Counted
BY DEF TypeOK, ListTypes, HandTypes, Counted

\* The same of the next state.
LEMMA TypePartsNext ==
    TypeOK' <=> /\ ListTypes' /\ HandTypes' /\ deferred' \in Seq(Job) /\ active' \in Seq(Job)
                /\ phase' \in Phases /\ next_id' \in 1..(MaxJobs + 1)
                /\ purged' \in SUBSET Job /\ Counted'
BY DEF TypeOK, ListTypes, HandTypes, Counted

\* A call that fails stays within the bound.
LEMMA FailsCounted ==
    ASSUME Counted, Fails, UNCHANGED stops
    PROVE  Counted'
BY RedisQueueAssumption DEF Counted, Fails

\* A worker that has a job has one.
LEMMA InHandJob ==
    ASSUME HandTypes, NEW w \in Workers, pc[w] \in InHand
    PROVE  job[w] \in Job
BY DEF HandTypes

\* The turn of a worker keeps the types.
LEMMA TurnTypes ==
    ASSUME TypeOK, NEW w \in Workers, Turn(w)
    PROVE  TypeOK'
<1> USE TypeParts, TypePartsNext
<1> USE DEF redisVars, boundVars, memoryVars
<1>1. CASE Resume(w)
  <2>1. HandTypes' /\ deferred' \in Seq(Job)
    BY <1>1, LoopTopContinues, ContinuesTypes DEF Resume, HandTypes
  <2> QED
    BY <1>1, <2>1 DEF Resume, ListTypes, Counted
<1>2. CASE ServePop(w)
  <2>1. PriorityAt(w) \in Priorities
    BY DEF PriorityAt, Priorities
  <2> DEFINE p == PriorityAt(w)
  <2> HIDE DEF p
  <2>2. /\ pending[p] # <<>>
        /\ pending' = [pending EXCEPT ![p] = Tail(@)]
        /\ processing' = [processing EXCEPT ![p] = Append(@, Head(pending[p]))]
        /\ job' = [job EXCEPT ![w] = Head(pending[p])]
        /\ pc' = [pc EXCEPT ![w] = "got_job"]
        /\ UNCHANGED <<deferred, active, active_users, begun, boundVars, phase, failures>>
    BY <1>2 DEF ServePop, p
  <2>3. p \in Priorities
    BY <2>1 DEF p
  <2>4. Head(pending[p]) \in Job /\ ListTypes'
    BY <2>2, <2>3, HeadMoves DEF ListTypes
  <2>5. HandTypes'
    <3>1. Head(pending[p]) # NoJob
      BY <2>4, RedisQueueAssumption
    <3>2. "got_job" \in WorkerStates /\ "got_job" \in InHand
      BY DEF WorkerStates, InHand
    <3> QED
      BY <2>2, <2>4, <3>1, <3>2 DEF HandTypes
  <2> QED
    BY <2>2, <2>4, <2>5 DEF Counted
<1>3. CASE PopTimesOut(w)
  <2>1. HandTypes'
    <3>1. {"popping_visible", "popping_prefetch", "no_visible", "no_prefetch"}
             \subseteq WorkerStates \ InHand
      BY DEF WorkerStates, InHand, Finishing, Acking
    <3> QED
      BY <1>3, <3>1 DEF PopTimesOut, HandTypes
  <2> QED
    BY <1>3, <2>1 DEF PopTimesOut, ListTypes, Counted
<1>4. CASE NothingPopped(w)
  <2>1. HandTypes' /\ deferred' \in Seq(Job)
    BY <1>4, NothingPoppedContinues, ContinuesTypes DEF HandTypes
  <2> QED
    BY <1>4, <2>1 DEF NothingPopped, ListTypes, Counted
<1>5. CASE JobPopped(w)
  <2>1. job[w] \in Job
    BY <1>5, InHandJob DEF JobPopped, InHand
  <2>2. active' \in Seq(Job)
    BY <1>5, <2>1, AppendProperties DEF JobPopped
  <2>3. active_users \in SUBSET Users
    BY DEF HandTypes
  <2>4. HandTypes' /\ deferred' \in Seq(Job)
    <3>1. CASE GiveBack(w, job[w], active_users) /\ UNCHANGED deferred
      BY <2>1, <2>3, <3>1, GiveBackTypes
    <3>2. CASE Handle(w, job[w], active_users) /\ UNCHANGED deferred
      BY <2>1, <2>3, <3>2, HandleTypes
    <3>3. CASE Suspend(w, "asleep", active_users) /\ deferred' = Append(deferred, job[w])
      <4>1. "asleep" \in WorkerStates \ InHand
        BY DEF WorkerStates, InHand, Finishing, Acking
      <4> QED
        BY <2>1, <2>3, <3>3, <4>1, SuspendTypes, AppendProperties
    <3> QED
      BY <1>5, <3>1, <3>2, <3>3 DEF JobPopped
  <2> QED
    BY <1>5, <2>2, <2>4 DEF JobPopped, ListTypes, Counted
<1>6. CASE HandlerEnds(w)
  <2>1. HandTypes'
    <3>1. {"acking", "acking_error", "acking_exception", "handling"}
             \subseteq WorkerStates \cap InHand
      BY DEF WorkerStates, InHand, Finishing, Acking
    <3> QED
      BY <1>6, <3>1 DEF HandlerEnds, HandTypes
  <2> QED
    BY <1>6, <2>1 DEF HandlerEnds, ListTypes, Counted
<1>7. CASE Ack(w)
  <2>1. job[w] \in Job
    BY <1>7, InHandJob DEF Ack, InHand, Finishing
  <2>2. ListTypes'
    BY <1>7, <2>1, RemoveAckedTypes DEF Ack, ListTypes
  <2>3. HandTypes'
    <3>1. Acking \cup {"acked", "acked_error"} \subseteq WorkerStates \cap InHand
      BY DEF WorkerStates, InHand, Finishing, Acking
    <3> QED
      BY <1>7, <3>1 DEF Ack, HandTypes
  <2> QED
    BY <1>7, <2>2, <2>3 DEF Ack, Counted
<1>8. CASE Acked(w)
  <2> DEFINE busy == active_users \ {job[w].user}
  <2>1. busy \in SUBSET Users
    BY DEF HandTypes
  <2>2. HandTypes' /\ deferred' \in Seq(Job)
    <3>1. CASE LoopTop(w, busy)
      BY <2>1, <3>1, LoopTopContinues, ContinuesTypes
    <3>2. CASE Suspend(w, "asleep", busy) /\ UNCHANGED deferred
      <4>1. "asleep" \in WorkerStates \ InHand
        BY DEF WorkerStates, InHand, Finishing, Acking
      <4> QED
        BY <2>1, <3>2, <4>1, SuspendTypes
    <3> QED
      BY <1>8, <3>1, <3>2 DEF Acked
  <2>3. active' \in Seq(Job)
    BY <1>8, WithoutFacts DEF Acked
  <2> QED
    BY <1>8, <2>2, <2>3 DEF Acked, ListTypes, Counted
<1>9. CASE Requeue(w)
  <2>1. job[w] \in Job
    BY <1>9, InHandJob DEF Requeue, InHand
  <2>2. ListTypes'
    BY <1>9, <2>1, MoveBackTypes DEF Requeue
  <2>3. HandTypes'
    <3>1. "done" \in WorkerStates \ InHand
      BY DEF WorkerStates, InHand, Finishing, Acking
    <3> QED
      BY <1>9, <3>1, SuspendTypes DEF Requeue, HandTypes
  <2>4. active' \in Seq(Job)
    BY <1>9, WithoutFacts DEF Requeue
  <2> QED
    BY <1>9, <2>2, <2>3, <2>4 DEF Requeue, Counted
<1> QED
  BY <1>1, <1>2, <1>3, <1>4, <1>5, <1>6, <1>7, <1>8, <1>9 DEF Turn

\* The steps in which a call to Redis fails.
LEMMA MishapTypes ==
    ASSUME TypeOK, NEW w \in Workers, Mishap(w)
    PROVE  TypeOK'
<1> USE TypeParts, TypePartsNext
<1> USE DEF redisVars, boundVars, memoryVars
<1>0. {"asleep", "done"} \subseteq WorkerStates \ InHand
  BY DEF WorkerStates, InHand, Finishing, Acking
<1>1. CASE PopFails(w)
  <2>1. HandTypes'
    BY <1>0, <1>1, SuspendTypes DEF PopFails, HandTypes
  <2> QED
    BY <1>1, <2>1, FailsCounted DEF PopFails, ListTypes
<1>2. CASE AckFails(w)
  <2>1. job[w] \in Job
    BY <1>2, InHandJob DEF AckFails, InHand, Finishing
  <2>2. ListTypes'
    BY <1>2, <2>1, RemoveAckedTypes DEF AckFails, ListTypes
  <2>3. HandTypes'
    <3>1. Acking \cup {"acked", "acked_error", "acking_error"} \subseteq WorkerStates \cap InHand
      BY DEF WorkerStates, InHand, Finishing, Acking
    <3>2. \E state \in {"acked", "acked_error", "acking_error"} : pc' = [pc EXCEPT ![w] = state]
      BY <1>2 DEF AckFails, Acking
    <3> QED
      BY <1>2, <3>1, <3>2 DEF AckFails, HandTypes
  <2> QED
    BY <1>2, <2>2, <2>3, FailsCounted DEF AckFails
<1>3. CASE RequeueFails(w)
  <2>1. job[w] \in Job
    BY <1>3, InHandJob DEF RequeueFails, InHand
  <2>2. ListTypes'
    BY <1>3, <2>1, MoveBackTypes DEF RequeueFails, ListTypes
  <2>3. HandTypes'
    BY <1>0, <1>3, SuspendTypes DEF RequeueFails, HandTypes
  <2> QED
    BY <1>3, <2>2, <2>3, FailsCounted DEF RequeueFails
<1> QED
  BY <1>1, <1>2, <1>3 DEF Mishap

\* Before the workers exist and after they are gone there is nothing in their hands.
PhaseInv ==
    /\ phase \in {"down", "recovering"} =>
          deferred = <<>> /\ active_users = {} /\ \A w \in Workers : pc[w] = "absent"
    /\ phase = "recovering" => begun = {}
    /\ phase = "requeueing" => \A w \in Workers : pc[w] = "done"

\* The steps of the process: start, recovery, shutdown, crash.
LEMMA ProcessTypes ==
    ASSUME TypeOK, PhaseInv, Process \/ BeginClose \/ ReturnFails \/ Crash
    PROVE  TypeOK'
<1> USE TypeParts, TypePartsNext
<1> USE DEF redisVars, boundVars, memoryVars
<1>0. {"fresh", "done", "absent"} \subseteq WorkerStates \ InHand
  BY DEF WorkerStates, InHand, Finishing, Acking
<1>1. CASE Start
  BY <1>1 DEF Start, ListTypes, HandTypes, Counted, Phases
<1>2. ASSUME NEW p \in Priorities, Recover(p) PROVE TypeOK'
  <2>1. ListTypes'
    BY <1>2, HeadMoves DEF Recover, ListTypes
  <2> QED
    BY <1>2, <2>1 DEF Recover, HandTypes, Counted
<1>3. CASE Recovered
  <2>1. HandTypes'
    <3>1. \A w \in Workers : pc'[w] = "fresh" /\ job'[w] \in Job \cup {NoJob}
      BY <1>3 DEF Recovered, HandTypes
    <3>2. \A w \in Workers : job[w] = NoJob
      BY <1>0, <1>3 DEF Recovered, HandTypes, PhaseInv
    <3> QED
      BY <1>0, <1>3, <3>1, <3>2 DEF Recovered, HandTypes
  <2> QED
    BY <1>3, <2>1 DEF Recovered, ListTypes, Counted, Phases
<1>4. CASE BeginClose
  BY <1>4, RedisQueueAssumption DEF BeginClose, ListTypes, HandTypes, Counted, Phases
<1>5. CASE WorkersGone
  <2>1. HandTypes'
    BY <1>0, <1>5 DEF WorkersGone, HandTypes
  <2> QED
    BY <1>5, <2>1 DEF WorkersGone, ListTypes, Counted, Phases
<1>6. ASSUME active # <<>>
      PROVE  Head(active) \in Job /\ Tail(active) \in Seq(Job)
  BY <1>6, HeadTailProperties
<1>7. CASE ReturnActive
  <2>1. ListTypes'
    BY <1>6, <1>7, MoveBackTypes DEF ReturnActive
  <2> QED
    BY <1>6, <1>7, <2>1 DEF ReturnActive, HandTypes, Counted
<1>8. CASE EndClose
  BY <1>8, MemoryLostTypes DEF EndClose, ListTypes, Counted
<1>9. CASE ReturnFails
  <2>1. ListTypes'
    BY <1>6, <1>9, MoveBackTypes DEF ReturnFails, ListTypes
  <2> QED
    BY <1>9, <2>1, FailsCounted, MemoryLostTypes DEF ReturnFails
<1>10. CASE Crash
  BY <1>10, MemoryLostTypes, RedisQueueAssumption DEF Crash, ListTypes, Counted
<1> QED
  BY <1>1, <1>2, <1>3, <1>4, <1>5, <1>7, <1>8, <1>9, <1>10 DEF Process

\* The steps of users.
LEMMA CallTypes ==
    ASSUME TypeOK
    PROVE  /\ \A user \in Users, priority \in Priorities : Enqueue(user, priority) => TypeOK'
           /\ \A user \in Users : Purge(user) => TypeOK'
<1> USE TypeParts, TypePartsNext
<1> USE DEF redisVars, boundVars, memoryVars
<1>1. ASSUME NEW user \in Users, NEW priority \in Priorities, Enqueue(user, priority)
      PROVE  TypeOK'
  <2> DEFINE j == [id |-> next_id, user |-> user, priority |-> priority]
  <2>1. next_id \in 1..MaxJobs /\ next_id' \in 1..(MaxJobs + 1)
    BY <1>1, RedisQueueAssumption DEF Enqueue
  <2>2. j \in Job
    BY <2>1 DEF Job
  <2>3. pending[priority] \in Seq(Job)
    BY DEF ListTypes
  <2>4. pending' = [pending EXCEPT ![priority] = Append(@, j)]
    BY <1>1 DEF Enqueue
  <2> HIDE DEF j
  <2>5. Append(pending[priority], j) \in Seq(Job)
    BY <2>2, <2>3, AppendProperties
  <2>6. ListTypes'
    BY <1>1, <2>4, <2>5 DEF Enqueue, ListTypes
  <2> QED
    BY <1>1, <2>1, <2>6 DEF Enqueue, HandTypes, Counted
<1>2. ASSUME NEW user \in Users, Purge(user)
      PROVE  TypeOK'
  <2>1. \A p \in Priorities : pending[p] \in Seq(Job) /\ processing[p] \in Seq(Job)
    BY DEF ListTypes
  <2>2. \A p \in Priorities : /\ WithoutUser(pending[p], user) \in Seq(Job)
                              /\ WithoutUser(processing[p], user) \in Seq(Job)
    BY <2>1, WithoutUserFacts
  <2>3. ListTypes'
    BY <1>2, <2>2 DEF Purge, ListTypes
  <2>4. Listed \subseteq Job
    <3>1. \A p \in Priorities : Range(pending[p]) \subseteq Job /\ Range(processing[p]) \subseteq Job
      BY <2>1, LenProperties DEF Range
    <3> QED
      BY <3>1 DEF Listed
  <2> QED
    BY <1>2, <2>3, <2>4 DEF Purge, HandTypes, Counted
<1> QED
  BY <1>1, <1>2

\* Every step keeps the types.
LEMMA TypeStep ==
    ASSUME TypeOK, PhaseInv, [Next]_vars
    PROVE  TypeOK'
<1>1. CASE UNCHANGED vars
  BY <1>1 DEF vars, redisVars, memoryVars, boundVars, TypeOK
<1> QED
  BY <1>1, CallTypes, TurnTypes, MishapTypes, ProcessTypes DEF Next

\* Worker tasks take steps only while the process is up or closing.
LEMMA WorkersRunWhileUp ==
    ASSUME PhaseInv, phase \in Phases, NEW w \in Workers, Turn(w) \/ Mishap(w)
    PROVE  phase \in {"up", "closing"} /\ phase' = phase
<1>1. pc[w] \notin {"absent", "done"}
  BY DEF Turn, Resume, ServePop, PopTimesOut, NothingPopped, JobPopped, HandlerEnds, Ack, Acked,
         Requeue, Mishap, PopFails, AckFails, RequeueFails, Acking
<1>2. phase' = phase
  BY DEF Turn, Resume, ServePop, PopTimesOut, NothingPopped, JobPopped, HandlerEnds, Ack, Acked,
         Requeue, Mishap, PopFails, AckFails, RequeueFails
<1> QED
  BY <1>1, <1>2 DEF PhaseInv, Phases

\* Every step keeps the workers' states in line with the life of the process.
LEMMA PhaseStep ==
    ASSUME TypeOK, PhaseInv, [Next]_vars
    PROVE  PhaseInv'
<1> USE DEF redisVars, boundVars, memoryVars
<1>0. phase \in Phases
  BY DEF TypeOK
<1>1. CASE UNCHANGED vars
  BY <1>1 DEF vars, PhaseInv
<1>2. ASSUME \/ \E user \in Users, priority \in Priorities : Enqueue(user, priority)
             \/ \E user \in Users : Purge(user)
      PROVE  PhaseInv'
  BY <1>2 DEF Enqueue, Purge, PhaseInv
<1>3. ASSUME NEW w \in Workers, Turn(w) \/ Mishap(w)
      PROVE  PhaseInv'
  BY <1>0, <1>3, WorkersRunWhileUp DEF PhaseInv
<1>4. CASE Start
  BY <1>4 DEF Start, PhaseInv
<1>5. CASE \E p \in Priorities : Recover(p)
  BY <1>5 DEF Recover, PhaseInv
<1>6. CASE Recovered
  BY <1>6 DEF Recovered, PhaseInv
<1>7. CASE BeginClose
  BY <1>7 DEF BeginClose, PhaseInv
<1>8. CASE WorkersGone
  BY <1>8 DEF WorkersGone, PhaseInv
<1>9. CASE ReturnActive
  BY <1>9 DEF ReturnActive, PhaseInv
<1>10. CASE EndClose \/ ReturnFails \/ Crash
  BY <1>10 DEF EndClose, ReturnFails, Crash, MemoryLost, PhaseInv
<1> QED
  BY <1>1, <1>2, <1>3, <1>4, <1>5, <1>6, <1>7, <1>8, <1>9, <1>10 DEF Next, Process

\* The types and the phases together are inductive.
THEOREM PhasesCorrect == Spec => [](TypeOK /\ PhaseInv)
<1>1. Init => TypeOK /\ PhaseInv
  BY TypeInit DEF Init, PhaseInv
<1>2. TypeOK /\ PhaseInv /\ [Next]_vars => (TypeOK /\ PhaseInv)'
  BY TypeStep, PhaseStep
<1> QED
  BY <1>1, <1>2, PTL DEF Spec

\* Every variable of the Redis audio queue keeps its type: in particular a worker has a
\* job exactly while it is popped, handled, acknowledged or given back.
THEOREM TypeCorrect == Spec => []TypeOK
BY PhasesCorrect, PTL

------------------------------------------------------------------------------
\* Reservations.

\* What the other workers have reserved.
OthersReserved(w) == {job[v].user : v \in Busy \ {w}}

\* A worker that suspends with nothing in hand, its own reservation released.
LEMMA SuspendReserves ==
    ASSUME TypeOK, ReservationExact, NEW w \in Workers, NEW busy,
           phase = "up" => busy = OthersReserved(w),
           NEW state \in WorkerStates \ InHand, Suspend(w, state, busy), UNCHANGED phase
    PROVE  ReservationExact'
<1>1. Busy' = Busy \ {w}
  BY DEF Busy, Suspend, TypeOK, InHand
<1>2. \A v \in Busy \ {w} : v \in Workers /\ job'[v] = job[v]
  BY DEF Suspend, TypeOK, Busy
<1>3. {job'[v].user : v \in Busy \ {w}} = OthersReserved(w)
  BY <1>2 DEF OthersReserved
<1>4. active_users' = busy
  BY DEF Suspend
<1> QED
  BY <1>1, <1>2, <1>3, <1>4 DEF ReservationExact

\* A worker that gives its job back instead of handling it.
LEMMA GiveBackReserves ==
    ASSUME TypeOK, ReservationExact, NEW w \in Workers, NEW j, NEW busy,
           GiveBack(w, j, busy), phase' # "up"
    PROVE  ReservationExact'
<1>1. Busy' = Busy \ {w}
  BY DEF Busy, GiveBack, TypeOK, Finishing, Acking
<1>2. \A v \in Busy \ {w} : v \in Workers /\ job'[v] = job[v]
  BY DEF GiveBack, TypeOK, Busy
<1> QED
  BY <1>1, <1>2 DEF ReservationExact

\* A worker that starts a job of a user who is free.
LEMMA HandleReserves ==
    ASSUME TypeOK, ReservationExact, NEW w \in Workers, NEW j \in Job, NEW busy,
           busy = OthersReserved(w), j.user \notin busy, Handle(w, j, busy), UNCHANGED phase
    PROVE  ReservationExact'
<1>1. Busy' = (Busy \ {w}) \cup {w}
  BY DEF Busy, Handle, TypeOK
<1>2. \A v \in Busy \ {w} : v \in Workers /\ job'[v] = job[v]
  BY DEF Handle, TypeOK, Busy
<1>3. job'[w] = j /\ active_users' = busy \cup {j.user}
  BY DEF Handle, TypeOK
<1>4. active_users' = {job'[v].user : v \in Busy'}
  BY <1>1, <1>2, <1>3 DEF OthersReserved
<1>5. ASSUME NEW v \in Busy', NEW u \in Busy', v # u
      PROVE  job'[v].user # job'[u].user
  <2>1. CASE v = w \/ u = w
    BY <1>1, <1>2, <1>3, <1>5, <2>1 DEF OthersReserved
  <2>2. CASE v # w /\ u # w
    BY <1>1, <1>2, <1>5, <2>2 DEF ReservationExact
  <2> QED
    BY <2>1, <2>2
<1> QED
  BY <1>4, <1>5 DEF ReservationExact

\* Everything a worker does between two suspensions, its own reservation released.
LEMMA ContinuesReserves ==
    ASSUME TypeOK, ReservationExact, phase \in {"up", "closing"}, NEW w \in Workers, NEW busy,
           phase = "up" => busy = OthersReserved(w), Continues(w, busy), UNCHANGED phase
    PROVE  ReservationExact'
<1>1. ASSUME NEW state \in {"done", "popping_visible", "popping_prefetch"},
             Suspend(w, state, busy)
      PROVE  ReservationExact'
  <2>1. state \in WorkerStates \ InHand
    BY DEF WorkerStates, InHand, Finishing, Acking
  <2> QED
    BY <1>1, <2>1, SuspendReserves
<1>2. ASSUME NEW i \in DOMAIN deferred, deferred[i].user \notin busy,
             ~Stopping, Handle(w, deferred[i], busy)
      PROVE  ReservationExact'
  <2>1. deferred[i] \in Job
    BY LenProperties DEF TypeOK
  <2>2. busy = OthersReserved(w)
    BY <1>2 DEF Stopping
  <2> QED
    BY <1>2, <2>1, <2>2, HandleReserves
<1>3. ASSUME NEW i \in DOMAIN deferred, Stopping,
             GiveBack(w, deferred[i], busy \cup {deferred[i].user})
      PROVE  ReservationExact'
  BY <1>3, GiveBackReserves DEF Stopping
<1> QED
  BY <1>1, <1>2, <1>3 DEF Continues

\* A worker that had no reservation: the others' are all there are.
LEMMA NotBusyReserved ==
    ASSUME ReservationExact, NEW w, w \notin Busy
    PROVE  phase = "up" => active_users = OthersReserved(w)
BY DEF ReservationExact, OthersReserved

\* A worker that had one: the others' are those that remain without it.
LEMMA BusyReserved ==
    ASSUME ReservationExact, NEW w \in Busy
    PROVE  phase = "up" => active_users \ {job[w].user} = OthersReserved(w)
BY DEF ReservationExact, OthersReserved

\* Busy workers stay busy with the same job, the reservations stay as they are.
LEMMA SameReservations ==
    ASSUME ReservationExact, Busy' = Busy, \A w \in Busy : job'[w] = job[w],
           UNCHANGED <<active_users, phase>>
    PROVE  ReservationExact'
<1>1. {job'[w].user : w \in Busy'} = {job[w].user : w \in Busy}
  OBVIOUS
<1> QED
  BY <1>1 DEF ReservationExact

\* A worker reserves and releases the user of its own job only.
LEMMA TurnReserves ==
    ASSUME TypeOK, PhaseInv, ReservationExact, NEW w \in Workers, Turn(w) \/ Mishap(w)
    PROVE  ReservationExact'
<1>0. phase \in {"up", "closing"} /\ UNCHANGED phase
  BY WorkersRunWhileUp DEF TypeOK
<1>00. {"asleep", "done"} \subseteq WorkerStates \ InHand
  BY DEF WorkerStates, InHand, Finishing, Acking
<1>1. CASE Resume(w)
  <2>1. w \notin Busy
    BY <1>1 DEF Resume, Busy, Finishing, Acking
  <2>2. Continues(w, active_users)
    BY <1>1, LoopTopContinues DEF Resume
  <2> QED
    BY <1>0, <2>1, <2>2, NotBusyReserved, ContinuesReserves
<1>2. CASE ServePop(w)
  <2>1. Busy' = Busy /\ w \notin Busy
    BY <1>2 DEF ServePop, Busy, Finishing, Acking, TypeOK
  <2>2. \A v \in Busy : job'[v] = job[v]
    BY <1>2, <2>1 DEF ServePop, TypeOK, Busy
  <2> QED
    BY <1>2, <2>1, <2>2, SameReservations DEF ServePop
<1>3. CASE PopTimesOut(w)
  <2>1. Busy' = Busy
    BY <1>3 DEF PopTimesOut, Busy, Finishing, Acking, TypeOK
  <2> QED
    BY <1>3, <2>1, SameReservations DEF PopTimesOut
<1>4. CASE NothingPopped(w)
  <2>1. w \notin Busy
    BY <1>4 DEF NothingPopped, Busy, Finishing, Acking
  <2> QED
    BY <1>0, <1>4, <2>1, NotBusyReserved, NothingPoppedContinues, ContinuesReserves
<1>5. CASE JobPopped(w)
  <2>1. w \notin Busy
    BY <1>5 DEF JobPopped, Busy, Finishing, Acking
  <2>2. CASE Stopping /\ GiveBack(w, job[w], active_users)
    BY <1>0, <2>2, GiveBackReserves DEF Stopping
  <2>3. CASE ~Stopping /\ job[w].user \notin active_users /\ Handle(w, job[w], active_users)
    <3>1. job[w] \in Job
      BY <1>5, InHandJob, TypeParts DEF JobPopped, InHand
    <3>2. active_users = OthersReserved(w)
      BY <1>0, <2>1, <2>3, NotBusyReserved DEF Stopping
    <3> QED
      BY <1>0, <2>3, <3>1, <3>2, HandleReserves
  <2>4. CASE Suspend(w, "asleep", active_users)
    BY <1>0, <1>00, <2>1, <2>4, NotBusyReserved, SuspendReserves
  <2> QED
    BY <1>5, <2>2, <2>3, <2>4 DEF JobPopped
<1>6. CASE HandlerEnds(w)
  <2>1. Busy' = Busy
    BY <1>6 DEF HandlerEnds, Busy, Finishing, Acking, TypeOK
  <2> QED
    BY <1>6, <2>1, SameReservations DEF HandlerEnds
<1>7. CASE Ack(w)
  <2>1. Busy' = Busy
    BY <1>7 DEF Ack, Busy, Finishing, Acking, TypeOK
  <2> QED
    BY <1>7, <2>1, SameReservations DEF Ack
<1>8. CASE Acked(w)
  <2> DEFINE busy == active_users \ {job[w].user}
  <2>1. w \in Busy
    BY <1>8 DEF Acked, Busy, Finishing
  <2>2. phase = "up" => busy = OthersReserved(w)
    BY <2>1, BusyReserved
  <2>3. CASE LoopTop(w, busy)
    BY <1>0, <2>2, <2>3, LoopTopContinues, ContinuesReserves
  <2>4. CASE Suspend(w, "asleep", busy)
    BY <1>0, <1>00, <2>2, <2>4, SuspendReserves
  <2> QED
    BY <1>8, <2>3, <2>4 DEF Acked
<1>9. CASE Requeue(w) \/ RequeueFails(w)
  <2>1. w \notin Busy /\ Suspend(w, "done", active_users)
    BY <1>9 DEF Requeue, RequeueFails, Busy, Finishing, Acking
  <2> QED
    BY <1>0, <1>00, <2>1, NotBusyReserved, SuspendReserves
<1>10. CASE PopFails(w)
  <2>1. w \notin Busy /\ Suspend(w, "asleep", active_users)
    BY <1>10 DEF PopFails, Busy, Finishing, Acking
  <2> QED
    BY <1>0, <1>00, <2>1, NotBusyReserved, SuspendReserves
<1>11. CASE AckFails(w)
  <2>1. \E state \in {"acked", "acked_error", "acking_error"} : pc' = [pc EXCEPT ![w] = state]
    BY <1>11 DEF AckFails, Acking
  <2>2. pc[w] \in Acking
    BY <1>11 DEF AckFails
  <2>3. Busy' = Busy
    BY <2>1, <2>2 DEF Busy, Finishing, Acking, TypeOK
  <2> QED
    BY <1>11, <2>3, SameReservations DEF AckFails
<1> QED
  BY <1>1, <1>2, <1>3, <1>4, <1>5, <1>6, <1>7, <1>8, <1>9, <1>10, <1>11 DEF Turn, Mishap

\* Workers that hold nothing have reserved nothing.
LEMMA NobodyBusy ==
    ASSUME \A w \in Workers : pc[w] \in {"fresh", "absent", "done"}
    PROVE  Busy = {}
BY DEF Busy, Finishing, Acking

\* ReservationExact is inductive with the types and the phases.
LEMMA ReservationStep ==
    ASSUME TypeOK, PhaseInv, ReservationExact, [Next]_vars
    PROVE  ReservationExact'
<1> USE DEF redisVars, boundVars, memoryVars
<1>1. CASE UNCHANGED vars
  BY <1>1 DEF vars, ReservationExact, Busy
<1>2. ASSUME \/ \E user \in Users, priority \in Priorities : Enqueue(user, priority)
             \/ \E user \in Users : Purge(user)
      PROVE  ReservationExact'
  <2>1. UNCHANGED <<active_users, pc, job, phase>>
    BY <1>2 DEF Enqueue, Purge
  <2>2. Busy' = Busy
    BY <2>1 DEF Busy
  <2> QED
    BY <2>1, <2>2, SameReservations
<1>3. CASE Start \/ \E p \in Priorities : Recover(p)
  <2>1. UNCHANGED <<active_users, pc, job>> /\ phase' # "up"
    BY <1>3 DEF Start, Recover
  <2> QED
    BY <2>1 DEF ReservationExact, Busy
<1>4. CASE BeginClose \/ ReturnActive
  <2>1. UNCHANGED <<active_users, pc, job>> /\ phase' # "up"
    BY <1>4 DEF BeginClose, ReturnActive
  <2> QED
    BY <2>1 DEF ReservationExact, Busy
<1>5. CASE Recovered
  <2>1. active_users' = {}
    BY <1>5 DEF Recovered, PhaseInv
  <2>2. Busy' = {}
    BY <1>5 DEF Recovered, Busy, Finishing, Acking
  <2> QED
    BY <2>1, <2>2 DEF ReservationExact
<1>6. CASE WorkersGone \/ EndClose \/ ReturnFails \/ Crash
  <2>1. Busy' = {} /\ phase' # "up"
    BY <1>6 DEF WorkersGone, EndClose, ReturnFails, Crash, MemoryLost, Busy, Finishing, Acking
  <2> QED
    BY <2>1 DEF ReservationExact
<1> QED
  BY <1>1, <1>2, <1>3, <1>4, <1>5, <1>6, TurnReserves DEF Next, Process

------------------------------------------------------------------------------
\* The lists hold every job once.

\* The jobs in the pending, or in the processing lists.
Elements(lists) == UNION {Range(lists[p]) : p \in Priorities}

\* The pending, or the processing lists.
QueueLists == [Priorities -> Seq(Job)]

\* No job is twice in the lists, and each is in those of its priority.
Apart(from, to) ==
    \A p \in Priorities :
        /\ IsInjective(from[p]) /\ IsInjective(to[p])
        /\ Range(from[p]) \cap Range(to[p]) = {}
        /\ \A j \in Range(from[p]) \cup Range(to[p]) : j.priority = p

\* Pending and processing are interchangeable in Apart.
LEMMA ApartSymmetric ==
    ASSUME NEW from, NEW to, Apart(from, to)
    PROVE  Apart(to, from)
BY DEF Apart

\* What the lists hold, by kind of list.
LEMMA ListedElements == Listed = Elements(pending) \cup Elements(processing)
BY DEF Listed, Elements

\* A job of a priority is listed if and only if it is in the lists of that priority.
LEMMA ElementsAt ==
    ASSUME NEW from, NEW to, Apart(from, to), NEW j, NEW p \in Priorities, j.priority = p
    PROVE  /\ j \in Elements(from) <=> j \in Range(from[p])
           /\ j \in Elements(to) <=> j \in Range(to[p])
BY DEF Elements, Apart

\* No job is both pending and processing.
LEMMA ElementsApart ==
    ASSUME NEW from, NEW to, Apart(from, to)
    PROVE  Elements(from) \cap Elements(to) = {}
<1> SUFFICES ASSUME NEW j \in Elements(from), j \in Elements(to)
             PROVE  FALSE
  OBVIOUS
<1>1. PICK p \in Priorities : j \in Range(from[p])
  BY DEF Elements
<1>2. PICK q \in Priorities : j \in Range(to[q])
  BY DEF Elements
<1> QED
  BY <1>1, <1>2 DEF Apart

\* One list replaced.
Replaced(lists, p, list) == [lists EXCEPT ![p] = list]

\* Replacing one list leaves the other one.
LEMMA ReplacedAt ==
    ASSUME NEW lists \in QueueLists, NEW p \in Priorities, NEW list,
           NEW q \in Priorities
    PROVE  Replaced(lists, p, list)[q] = IF q = p THEN list ELSE lists[q]
BY DEF Replaced, QueueLists

\* A list without repetitions that has the elements of another one and j, or all but j.
Gains(new, old, j) == IsInjective(new) /\ Range(new) = Range(old) \cup {j}
Loses(new, old, j) == IsInjective(new) /\ Range(new) = Range(old) \ {j}

\* What the lists have gained or lost.
LEMMA ElementsAdd ==
    ASSUME NEW lists \in QueueLists, NEW p \in Priorities, NEW list, NEW j,
           Gains(list, lists[p], j)
    PROVE  Elements(Replaced(lists, p, list)) = Elements(lists) \cup {j}
<1> DEFINE new == Replaced(lists, p, list)
<1>1. \A q \in Priorities : new[q] = IF q = p THEN list ELSE lists[q]
  BY ReplacedAt
<1> HIDE DEF new
<1>2. \A q \in Priorities : Range(new[q]) = IF q = p THEN Range(lists[p]) \cup {j}
                                                    ELSE Range(lists[q])
  BY <1>1 DEF Gains
<1>3. Elements(new) = Elements(lists) \cup {j}
  BY <1>2 DEF Elements
<1> QED
  BY <1>3 DEF new

\* Taking an entry out of its list takes the job out of that kind of list.
LEMMA ElementsDrop ==
    ASSUME NEW lists \in QueueLists, NEW to, Apart(lists, to),
           NEW p \in Priorities, NEW list, NEW j, j.priority = p,
           Loses(list, lists[p], j)
    PROVE  Elements(Replaced(lists, p, list)) = Elements(lists) \ {j}
<1> DEFINE new == Replaced(lists, p, list)
<1>1. \A q \in Priorities : new[q] = IF q = p THEN list ELSE lists[q]
  BY ReplacedAt
<1> HIDE DEF new
<1>2. \A q \in Priorities : Range(new[q]) = IF q = p THEN Range(lists[p]) \ {j}
                                                    ELSE Range(lists[q])
  BY <1>1 DEF Loses
<1>3. \A q \in Priorities : q # p => j \notin Range(lists[q])
  BY DEF Apart
<1>4. \A q \in Priorities : Range(new[q]) = Range(lists[q]) \ {j}
  BY <1>2, <1>3
<1>5. Elements(new) = Elements(lists) \ {j}
  BY <1>4 DEF Elements
<1> QED
  BY <1>5 DEF new

\* A job taken out.
LEMMA JobDropped ==
    ASSUME NEW from \in QueueLists, NEW to \in QueueLists,
           Apart(from, to), NEW p \in Priorities, NEW j, NEW a,
           Loses(a, from[p], j)
    PROVE  Apart(Replaced(from, p, a), to)
<1> DEFINE new == Replaced(from, p, a)
<1>1. \A q \in Priorities : new[q] = IF q = p THEN a ELSE from[q]
  BY ReplacedAt
<1> HIDE DEF new
<1>2. Apart(new, to)
  <2> SUFFICES ASSUME NEW q \in Priorities
               PROVE  /\ IsInjective(new[q]) /\ IsInjective(to[q])
                      /\ Range(new[q]) \cap Range(to[q]) = {}
                      /\ \A k \in Range(new[q]) \cup Range(to[q]) : k.priority = q
    BY DEF Apart
  <2>1. Range(new[q]) \subseteq Range(from[q])
    BY <1>1 DEF Loses
  <2>2. IsInjective(new[q])
    BY <1>1 DEF Apart, Loses
  <2> QED
    BY <2>1, <2>2 DEF Apart
<1> QED
  BY <1>2 DEF new

\* j has moved from some lists to others, and the lists are still in order.
Moved(from, to, newFrom, newTo, j) ==
    /\ Apart(newFrom, newTo)
    /\ Elements(newFrom) = Elements(from) \ {j}
    /\ Elements(newTo) = Elements(to) \cup {j}
    /\ j \in Elements(from) /\ j \notin Elements(to)

\* A job that moves from one list of its priority to the other one.
LEMMA JobMoves ==
    ASSUME NEW from \in QueueLists, NEW to \in QueueLists,
           Apart(from, to), NEW p \in Priorities, NEW j \in Range(from[p]),
           NEW a, Loses(a, from[p], j), NEW b, Gains(b, to[p], j)
    PROVE  Moved(from, to, Replaced(from, p, a), Replaced(to, p, b), j)
<1> DEFINE new == Replaced(from, p, a)
           more == Replaced(to, p, b)
<1>1. \A q \in Priorities : /\ new[q] = IF q = p THEN a ELSE from[q]
                            /\ more[q] = IF q = p THEN b ELSE to[q]
  BY ReplacedAt
<1>2. j.priority = p
  BY DEF Apart
<1>3. Elements(new) = Elements(from) \ {j}
  BY <1>2, ElementsDrop
<1>4. Elements(more) = Elements(to) \cup {j}
  BY ElementsAdd
<1> HIDE DEF new, more
<1>5. Apart(new, more)
  <2> SUFFICES ASSUME NEW q \in Priorities
               PROVE  /\ IsInjective(new[q]) /\ IsInjective(more[q])
                      /\ Range(new[q]) \cap Range(more[q]) = {}
                      /\ \A k \in Range(new[q]) \cup Range(more[q]) : k.priority = q
    BY DEF Apart
  <2>1. CASE q = p
    BY <1>1, <1>2, <2>1 DEF Apart, Gains, Loses
  <2>2. CASE q # p
    BY <1>1, <2>2 DEF Apart
  <2> QED
    BY <2>1, <2>2
<1>6. j \in Elements(from) /\ j \notin Elements(to)
  BY <1>2, ElementsAt DEF Apart
<1> QED
  BY <1>3, <1>4, <1>5, <1>6 DEF new, more, Moved

\* The head of a list becomes the last of the other one.
LEMMA HeadMovesOnce ==
    ASSUME NEW from \in QueueLists, NEW to \in QueueLists,
           Apart(from, to), NEW p \in Priorities, from[p] # <<>>, NEW j, j = Head(from[p])
    PROVE  Moved(from, to, Replaced(from, p, Tail(from[p])), Replaced(to, p, Append(to[p], j)),
                 j)
<1>1. from[p] \in Seq(Job) /\ to[p] \in Seq(Job)
  BY DEF QueueLists
<1>2. IsInjective(from[p]) /\ IsInjective(to[p]) /\ Range(from[p]) \cap Range(to[p]) = {}
  BY DEF Apart
<1>3. j \in Job /\ j \in Range(from[p]) /\ Loses(Tail(from[p]), from[p], j)
  BY <1>1, <1>2, TailFacts DEF Loses
<1>4. Gains(Append(to[p], j), to[p], j)
  BY <1>1, <1>2, <1>3, AppendFacts DEF Gains
<1> QED
  BY <1>3, <1>4, JobMoves

\* A job given back: out of the processing list and into the pending one, or left alone
\* if it was not in processing.
LEMMA MoveBackOnce ==
    ASSUME ListTypes, Apart(pending, processing), NEW j \in Job, MoveBack(j)
    PROVE  /\ Apart(pending', processing')
           /\ j \in Elements(processing) =>
                 Moved(processing, pending, processing', pending', j)
           /\ j \notin Elements(processing) => UNCHANGED <<pending, processing>>
<1> DEFINE p == j.priority
           a == Without(processing[p], j)
           b == Append(pending[p], j)
<1>1. p \in Priorities
  BY DEF Job
<1>2. /\ processing \in QueueLists /\ pending \in QueueLists
      /\ processing[p] \in Seq(Job) /\ pending[p] \in Seq(Job)
  BY <1>1 DEF ListTypes, QueueLists
<1>3. /\ IsInjective(pending[p]) /\ IsInjective(processing[p])
      /\ Range(pending[p]) \cap Range(processing[p]) = {}
  BY <1>1 DEF Apart
<1>4. Apart(processing, pending)
  BY ApartSymmetric
<1>5. j \in Elements(processing) <=> j \in Range(processing[p])
  BY <1>1, ElementsAt
<1>6. CASE j \in Range(processing[p])
  <2>1. Loses(a, processing[p], j)
    BY <1>2, <1>3, WithoutFacts DEF Loses
  <2>2. Gains(b, pending[p], j)
    <3>1. j \notin Range(pending[p])
      BY <1>3, <1>6
    <3> QED
      BY <1>2, <1>3, <3>1, AppendFacts DEF Gains
  <2>3. processing' = Replaced(processing, p, a) /\ pending' = Replaced(pending, p, b)
    BY <1>6 DEF MoveBack, Replaced
  <2> HIDE DEF a, b, p
  <2>4. Moved(processing, pending, processing', pending', j)
    BY <1>1, <1>2, <1>4, <1>6, <2>1, <2>2, <2>3, JobMoves
  <2>5. Apart(pending', processing')
    BY <2>4, ApartSymmetric DEF Moved
  <2> QED
    BY <1>5, <1>6, <2>4, <2>5
<1>7. CASE j \notin Range(processing[p])
  <2>1. a = processing[p]
    BY <1>7 DEF Without
  <2>2. processing' = processing /\ pending' = pending
    BY <1>2, <1>7, <2>1 DEF MoveBack, QueueLists
  <2> QED
    BY <1>5, <1>7, <2>2
<1> QED
  BY <1>6, <1>7

Waiting == Elements(pending)
Taken == Elements(processing)

\* A job that is in no list yet.
LEMMA JobAdded ==
    ASSUME NEW from \in QueueLists, NEW to \in QueueLists, Apart(from, to), NEW p \in Priorities,
           NEW j, j.priority = p, j \notin Elements(from) \cup Elements(to),
           NEW a, Gains(a, from[p], j)
    PROVE  Apart(Replaced(from, p, a), to)
<1> DEFINE new == Replaced(from, p, a)
<1>1. \A q \in Priorities : new[q] = IF q = p THEN a ELSE from[q]
  BY ReplacedAt
<1>2. j \notin Range(to[p])
  BY DEF Elements
<1> HIDE DEF new
<1>3. Apart(new, to)
  <2> SUFFICES ASSUME NEW q \in Priorities
               PROVE  /\ IsInjective(new[q]) /\ IsInjective(to[q])
                      /\ Range(new[q]) \cap Range(to[q]) = {}
                      /\ \A k \in Range(new[q]) \cup Range(to[q]) : k.priority = q
    BY DEF Apart
  <2>1. CASE q = p
    BY <1>1, <1>2, <2>1 DEF Apart, Gains
  <2>2. CASE q # p
    BY <1>1, <2>2 DEF Apart
  <2> QED
    BY <2>1, <2>2
<1> QED
  BY <1>3 DEF new

\* What each operation does to the waiting and the taken jobs.
LEMMA EnqueueLists ==
    ASSUME TypeOK, Apart(pending, processing), \A j \in Listed : j.id < next_id,
           NEW user \in Users, NEW p \in Priorities, Enqueue(user, p),
           NEW j, j = [id |-> next_id, user |-> user, priority |-> p]
    PROVE  /\ Apart(pending', processing')
           /\ Waiting' = Waiting \cup {j} /\ Taken' = Taken
           /\ j \in Job /\ j.id = next_id /\ j \notin Listed
<1>1. pending \in QueueLists /\ processing \in QueueLists /\ pending[p] \in Seq(Job)
  BY DEF TypeOK, QueueLists
<1>2. j \in Job
  BY RedisQueueAssumption DEF TypeOK, Enqueue, Job
<1>3. j.id = next_id /\ j.priority = p
  OBVIOUS
<1>4. next_id \in Nat
  BY DEF TypeOK
<1>5. j \notin Listed
  BY <1>3, <1>4
<1>6. j \notin Waiting \cup Taken
  BY <1>5, ListedElements DEF Waiting, Taken
<1>7. Gains(Append(pending[p], j), pending[p], j)
  <2>1. j \notin Range(pending[p]) /\ IsInjective(pending[p])
    BY <1>6 DEF Waiting, Elements, Apart
  <2> QED
    BY <1>1, <1>2, <2>1, AppendFacts DEF Gains
<1>8. pending' = Replaced(pending, p, Append(pending[p], j)) /\ processing' = processing
  BY DEF Enqueue, Replaced
<1>9. Apart(Replaced(pending, p, Append(pending[p], j)), processing)
  BY <1>1, <1>3, <1>6, <1>7, JobAdded DEF Waiting, Taken
<1>10. Elements(Replaced(pending, p, Append(pending[p], j))) = Elements(pending) \cup {j}
  BY <1>1, <1>7, ElementsAdd
<1> QED
  BY <1>2, <1>3, <1>5, <1>8, <1>9, <1>10 DEF Waiting, Taken

\* The purge script removes the user's jobs and duplicates none.
LEMMA PurgeLists ==
    ASSUME TypeOK, Apart(pending, processing), NEW user \in Users, Purge(user)
    PROVE  /\ Apart(pending', processing')
           /\ Waiting' = {j \in Waiting : j.user # user}
           /\ Taken' = {j \in Taken : j.user # user}
<1>1. \A p \in Priorities :
          /\ Range(pending'[p]) = {j \in Range(pending[p]) : j.user # user}
          /\ IsInjective(pending[p]) => IsInjective(pending'[p])
          /\ Range(processing'[p]) = {j \in Range(processing[p]) : j.user # user}
          /\ IsInjective(processing[p]) => IsInjective(processing'[p])
  <2> SUFFICES ASSUME NEW p \in Priorities
               PROVE  /\ Range(pending'[p]) = {j \in Range(pending[p]) : j.user # user}
                      /\ IsInjective(pending[p]) => IsInjective(pending'[p])
                      /\ Range(processing'[p]) = {j \in Range(processing[p]) : j.user # user}
                      /\ IsInjective(processing[p]) => IsInjective(processing'[p])
    OBVIOUS
  <2>1. pending[p] \in Seq(Job) /\ processing[p] \in Seq(Job)
    BY DEF TypeOK
  <2>2. /\ pending'[p] = WithoutUser(pending[p], user)
        /\ processing'[p] = WithoutUser(processing[p], user)
    BY DEF Purge
  <2> QED
    BY <2>1, <2>2, WithoutUserFacts
<1>2. Apart(pending', processing')
  BY <1>1 DEF Apart
<1>3. Elements(pending') = {j \in Elements(pending) : j.user # user}
  BY <1>1 DEF Elements
<1>4. Elements(processing') = {j \in Elements(processing) : j.user # user}
  BY <1>1 DEF Elements
<1> QED
  BY <1>2, <1>3, <1>4 DEF Waiting, Taken

\* BRPOPLPUSH moves one job from pending to processing.
LEMMA ServePopLists ==
    ASSUME TypeOK, Apart(pending, processing), NEW w \in Workers, ServePop(w)
    PROVE  /\ job'[w] \in Job
           /\ Moved(pending, processing, pending', processing', job'[w])
<1> DEFINE p == PriorityAt(w)
<1>1. p \in Priorities
  BY DEF PriorityAt, Priorities
<1>2. /\ pending[p] # <<>>
      /\ pending' = [pending EXCEPT ![p] = Tail(@)]
      /\ processing' = [processing EXCEPT ![p] = Append(@, Head(pending[p]))]
      /\ job' = [job EXCEPT ![w] = Head(pending[p])]
  BY DEF ServePop
<1> HIDE DEF p
<1>3. job'[w] = Head(pending[p])
  BY <1>2 DEF TypeOK
<1>4. pending \in QueueLists /\ processing \in QueueLists /\ pending[p] \in Seq(Job)
  BY <1>1 DEF TypeOK, QueueLists
<1>5. /\ pending' = Replaced(pending, p, Tail(pending[p]))
      /\ processing' = Replaced(processing, p, Append(processing[p], job'[w]))
  BY <1>2, <1>3 DEF Replaced
<1>6. Head(pending[p]) \in Job
  BY <1>2, <1>4, HeadTailProperties
<1>7. Moved(pending, processing, Replaced(pending, p, Tail(pending[p])),
            Replaced(processing, p, Append(processing[p], job'[w])), job'[w])
  BY <1>1, <1>2, <1>3, <1>4, HeadMovesOnce
<1> QED
  BY <1>3, <1>5, <1>6, <1>7

\* RPOPLPUSH moves one job from processing to pending.
LEMMA RecoverLists ==
    ASSUME TypeOK, Apart(pending, processing), NEW p \in Priorities, Recover(p)
    PROVE  \E j \in Job : Moved(processing, pending, processing', pending', j)
<1> DEFINE j == Head(processing[p])
<1>1. processing[p] # <<>>
  BY DEF Recover
<1>2. pending \in QueueLists /\ processing \in QueueLists /\ processing[p] \in Seq(Job)
  BY DEF TypeOK, QueueLists
<1>3. /\ processing' = Replaced(processing, p, Tail(processing[p]))
      /\ pending' = Replaced(pending, p, Append(pending[p], j))
  BY DEF Recover, Replaced
<1>4. j \in Job
  BY <1>1, <1>2, HeadTailProperties
<1>5. Apart(processing, pending)
  BY ApartSymmetric
<1>6. Moved(processing, pending, Replaced(processing, p, Tail(processing[p])),
            Replaced(pending, p, Append(pending[p], j)), j)
  BY <1>1, <1>2, <1>5, HeadMovesOnce
<1> QED
  BY <1>3, <1>4, <1>6

\* The acknowledgement takes its job, and no other, out of processing.
LEMMA RemoveAckedLists ==
    ASSUME TypeOK, Apart(pending, processing), NEW w, job[w] \in Job, RemoveAcked(w),
           UNCHANGED pending
    PROVE  Apart(pending', processing') /\ Waiting' = Waiting /\ Taken' = Taken \ {job[w]}
<1> DEFINE j == job[w]
           p == j.priority
           a == Without(processing[p], j)
<1>1. p \in Priorities
  BY DEF Job
<1>2. pending \in QueueLists /\ processing \in QueueLists /\ processing[p] \in Seq(Job)
  BY <1>1 DEF TypeOK, QueueLists
<1>3. Apart(processing, pending)
  BY ApartSymmetric
<1>4. Loses(a, processing[p], j)
  <2>1. IsInjective(processing[p])
    BY <1>1 DEF Apart
  <2> QED
    BY <1>2, <2>1, WithoutFacts DEF Loses
<1>5. processing' = Replaced(processing, p, a)
  BY DEF RemoveAcked, Replaced
<1> HIDE DEF a
<1>6. Apart(Replaced(processing, p, a), pending)
  BY <1>1, <1>2, <1>3, <1>4, JobDropped
<1>7. Elements(Replaced(processing, p, a)) = Elements(processing) \ {j}
  BY <1>1, <1>2, <1>3, <1>4, ElementsDrop
<1> QED
  BY <1>5, <1>6, <1>7, ApartSymmetric DEF Waiting, Taken

\* The requeue script moves its job back, or does nothing if it is gone.
LEMMA MoveBackLists ==
    ASSUME TypeOK, Apart(pending, processing), NEW j \in Job, MoveBack(j)
    PROVE  /\ Apart(pending', processing')
           /\ \/ /\ j \in Taken
                 /\ Waiting' = Waiting \cup {j} /\ Taken' = Taken \ {j}
              \/ j \notin Taken /\ Waiting' = Waiting /\ Taken' = Taken
<1>1. ListTypes
  BY TypeParts
<1> QED
  BY <1>1, MoveBackOnce DEF Moved, Waiting, Taken

------------------------------------------------------------------------------
\* What the process has in hand.

\* Listed, purged and started jobs were accepted; a purged job is not listed.
KnownInv ==
    /\ \A j \in Waiting \cup Taken \cup purged \cup begun : j.id < next_id
    /\ purged \cap (Waiting \cup Taken) = {}

\* Jobs out of the pending lists which this process has not started.
Claimed == (Taken \cup purged) \ begun

\* A worker that got a job and has not handled it.
Holds(w) == pc[w] \in {"got_job", "requeueing"}

\* A job this process has started does not wait; what is set aside or held is claimed,
\* and each claimed job is in one place only.
HeldInv ==
    phase \in {"up", "closing"} =>
        /\ begun \cap Waiting = {}
        /\ \A w \in Busy : job[w] \in begun
        /\ Range(deferred) \subseteq Claimed
        /\ IsInjective(deferred)
        /\ \A w \in Workers : Holds(w) => job[w] \in Claimed \ Range(deferred)
        /\ \A v, w \in Workers : Holds(v) /\ Holds(w) /\ v # w => job[v] # job[w]

QueueInv == Apart(pending, processing) /\ KnownInv /\ HeldInv

\* Nothing new is listed, and only claimed jobs are started.
LEMMA KnownStill ==
    ASSUME KnownInv, Waiting' \cup Taken' \subseteq Waiting \cup Taken,
           begun' \subseteq begun \cup Claimed, UNCHANGED <<purged, next_id>>
    PROVE  KnownInv'
BY DEF KnownInv, Claimed

\* The workers keep what they hold, or let go of it.
LEMMA HeldStill ==
    ASSUME HeldInv, phase \in {"up", "closing"}, Claimed \subseteq Claimed',
           begun' \cap Waiting' = {}, UNCHANGED <<deferred, begun>>,
           \A v \in Workers : Holds(v)' => Holds(v) /\ job'[v] = job[v],
           \A v \in Busy' : job'[v] \in begun
    PROVE  HeldInv'
BY DEF HeldInv

\* One worker lets go of the job it holds, which may then wait again.
LEMMA HeldGoes ==
    ASSUME HeldInv, phase \in {"up", "closing"}, NEW w \in Workers, Holds(w),
           Claimed \ {job[w]} \subseteq Claimed',
           begun' \cap Waiting' = {}, UNCHANGED <<deferred, begun>>, ~Holds(w)',
           \A v \in Workers \ {w} : pc'[v] = pc[v] /\ job'[v] = job[v],
           \A v \in Busy' : job'[v] \in begun
    PROVE  HeldInv'
<1>1. \A v \in Workers : Holds(v)' => v # w /\ Holds(v) /\ job'[v] = job[v]
  BY DEF Holds
<1>2. /\ Range(deferred) \subseteq Claimed' /\ IsInjective(deferred)
      /\ \A v \in Workers : Holds(v)' => job'[v] \in Claimed' \ Range(deferred)
  BY <1>1 DEF HeldInv
<1>3. \A u, v \in Workers : Holds(u)' /\ Holds(v)' /\ u # v => job'[u] # job'[v]
  BY <1>1 DEF HeldInv
<1> QED
  BY <1>2, <1>3 DEF HeldInv

\* One worker gets a job that was not claimed yet.
LEMMA HeldComes ==
    ASSUME HeldInv, phase \in {"up", "closing"}, NEW w \in Workers, ~Holds(w),
           job'[w] \notin Claimed, Claimed' = Claimed \cup {job'[w]},
           begun' \cap Waiting' = {}, UNCHANGED <<deferred, begun>>,
           \A v \in Workers \ {w} : pc'[v] = pc[v] /\ job'[v] = job[v],
           \A v \in Busy' : job'[v] \in begun
    PROVE  HeldInv'
<1>1. \A v \in Workers : Holds(v)' => v = w \/ (v # w /\ Holds(v) /\ job'[v] = job[v])
  BY DEF Holds
<1>2. /\ Range(deferred) \subseteq Claimed' /\ IsInjective(deferred)
      /\ \A v \in Workers : Holds(v)' => job'[v] \in Claimed' \ Range(deferred)
  BY <1>1 DEF HeldInv
<1>3. \A u, v \in Workers : Holds(u)' /\ Holds(v)' /\ u # v => job'[u] # job'[v]
  BY <1>1 DEF HeldInv
<1> QED
  BY <1>2, <1>3 DEF HeldInv

\* A claimed job does not wait.
LEMMA ClaimedNotWaiting ==
    ASSUME QueueInv
    PROVE  Claimed \cap Waiting = {}
BY ElementsApart DEF QueueInv, KnownInv, Claimed, Waiting, Taken

\* A worker that holds nothing goes on: it suspends, or takes a job set aside, which it
\* starts or holds.
LEMMA HeldContinues ==
    ASSUME TypeOK, QueueInv, phase \in {"up", "closing"}, NEW w \in Workers, ~Holds(w),
           NEW busy, Continues(w, busy), UNCHANGED <<pending, processing, purged>>
    PROVE  HeldInv' /\ begun' \subseteq begun \cup Claimed
<1> USE DEF QueueInv
<1>0. Waiting' = Waiting /\ Taken' = Taken
  BY DEF Waiting, Taken, Elements
<1>1. ASSUME NEW state \in {"done", "popping_visible", "popping_prefetch"},
             Suspend(w, state, busy), UNCHANGED deferred
      PROVE  HeldInv' /\ begun' \subseteq begun \cup Claimed
  <2>1. \A v \in Workers : Holds(v)' => Holds(v) /\ job'[v] = job[v]
    BY <1>1 DEF Suspend, TypeOK, Holds
  <2>2. \A v \in Busy' : v \in Busy /\ job'[v] = job[v]
    BY <1>1 DEF Suspend, TypeOK, Busy, Finishing, Acking
  <2>3. Claimed' = Claimed /\ begun' = begun
    BY <1>0, <1>1 DEF Claimed, Suspend
  <2>4. begun \cap Waiting' = {} /\ \A v \in Busy : job[v] \in begun
    BY <1>0 DEF HeldInv
  <2> QED
    BY <1>1, <2>1, <2>2, <2>3, <2>4, HeldStill
<1>2. ASSUME NEW i \in DOMAIN deferred, deferred' = RemoveAt(deferred, i),
             Handle(w, deferred[i], busy)
      PROVE  HeldInv' /\ begun' \subseteq begun \cup Claimed
  <2> DEFINE j == deferred[i]
  <2>1. j \in Claimed
    BY DEF HeldInv, Range
  <2>2. IsInjective(deferred') /\ Range(deferred') = Range(deferred) \ {j}
    BY <1>2, RemoveAtElements DEF HeldInv, TypeOK
  <2>3. Claimed' = Claimed \ {j} /\ begun' = begun \cup {j}
    BY <1>0, <1>2 DEF Claimed, Handle
  <2>4. begun' \cap Waiting' = {}
    <3>1. j \notin Waiting
      BY <2>1, ClaimedNotWaiting
    <3> QED
      BY <1>0, <2>3, <3>1 DEF HeldInv
  <2>5. \A v \in Workers : Holds(v)' => v # w /\ Holds(v) /\ job'[v] = job[v]
    BY <1>2 DEF Handle, TypeOK, Holds
  <2>6. \A v \in Busy' : job'[v] \in begun'
    BY <1>2, <2>3 DEF Handle, TypeOK, Busy, HeldInv
  <2>7. \A v \in Workers : Holds(v)' => job'[v] \in Claimed' \ Range(deferred')
    <3>1. j \in Range(deferred)
      BY DEF Range
    <3> QED
      BY <2>2, <2>3, <2>5, <3>1 DEF HeldInv
  <2>8. \A u, v \in Workers : Holds(u)' /\ Holds(v)' /\ u # v => job'[u] # job'[v]
    BY <2>5 DEF HeldInv
  <2>9. Range(deferred') \subseteq Claimed'
    BY <2>2, <2>3 DEF HeldInv
  <2>10. HeldInv'
    BY <2>2, <2>4, <2>6, <2>7, <2>8, <2>9 DEF HeldInv
  <2> QED
    BY <2>1, <2>3, <2>10
<1>3. ASSUME NEW i \in DOMAIN deferred, deferred' = RemoveAt(deferred, i),
             GiveBack(w, deferred[i], busy \cup {deferred[i].user})
      PROVE  HeldInv' /\ begun' \subseteq begun \cup Claimed
  <2> DEFINE j == deferred[i]
  <2>1. j \in Claimed /\ j \in Range(deferred)
    BY DEF HeldInv, Range
  <2>2. IsInjective(deferred') /\ Range(deferred') = Range(deferred) \ {j}
    BY <1>3, RemoveAtElements DEF HeldInv, TypeOK
  <2>3. Claimed' = Claimed /\ begun' = begun
    BY <1>0, <1>3 DEF Claimed, GiveBack
  <2>4. begun' \cap Waiting' = {}
    BY <1>0, <2>3 DEF HeldInv
  <2>5. job'[w] = j /\ \A v \in Workers \ {w} : pc'[v] = pc[v] /\ job'[v] = job[v]
    BY <1>3 DEF GiveBack, TypeOK
  <2>6. \A v \in Busy' : v \in Busy /\ v # w
    BY <1>3 DEF GiveBack, TypeOK, Busy, Finishing, Acking
  <2>7. \A v \in Workers : v # w /\ Holds(v)' => Holds(v) /\ job'[v] = job[v]
    BY <2>5 DEF Holds
  <2>8. \A v \in Workers : Holds(v)' => job'[v] \in Claimed' \ Range(deferred')
    BY <2>1, <2>2, <2>3, <2>5, <2>7 DEF HeldInv
  <2>9. \A u, v \in Workers : Holds(u)' /\ Holds(v)' /\ u # v => job'[u] # job'[v]
    BY <2>1, <2>5, <2>7 DEF HeldInv
  <2>10. \A v \in Busy' : job'[v] \in begun'
    BY <2>3, <2>5, <2>6 DEF HeldInv, Busy
  <2>11. Range(deferred') \subseteq Claimed'
    BY <2>2, <2>3 DEF HeldInv
  <2>12. HeldInv'
    BY <2>2, <2>4, <2>8, <2>9, <2>10, <2>11 DEF HeldInv
  <2> QED
    BY <2>3, <2>12
<1> QED
  BY <1>1, <1>2, <1>3 DEF Continues

\* Worker steps that leave the hands of the others alone.
OthersAlone(w) == \A v \in Workers \ {w} : pc'[v] = pc[v] /\ job'[v] = job[v]

\* QueueInv, when a job is accepted.
LEMMA EnqueueInv ==
    ASSUME TypeOK, QueueInv, NEW user \in Users, NEW p \in Priorities, Enqueue(user, p)
    PROVE  QueueInv'
<1> DEFINE j == [id |-> next_id, user |-> user, priority |-> p]
<1>1. \A k \in Listed : k.id < next_id
  BY ListedElements DEF QueueInv, KnownInv, Waiting, Taken
<1>2. /\ Apart(pending', processing')
      /\ Waiting' = Waiting \cup {j} /\ Taken' = Taken
      /\ j \in Job /\ j.id = next_id
  BY <1>1, EnqueueLists DEF QueueInv
<1> HIDE DEF j
<1>3. UNCHANGED <<deferred, pc, job, begun, purged, phase>> /\ next_id' = next_id + 1
  BY DEF Enqueue, memoryVars
<1>4. next_id \in Nat /\ \A k \in Waiting \cup Taken \cup purged \cup begun : k \in Job
  <2>1. Waiting \cup Taken \subseteq Job
    <3>1. \A q \in Priorities : Range(pending[q]) \subseteq Job /\ Range(processing[q]) \subseteq Job
      BY LenProperties DEF TypeOK, Range
    <3> QED
      BY <3>1 DEF Waiting, Taken, Elements
  <2> QED
    BY <2>1 DEF TypeOK
<1>5. \A k \in Job : k.id \in Nat
  BY DEF Job
<1>6. j \notin purged \cup begun
  BY <1>2, <1>4 DEF QueueInv, KnownInv
<1>7. KnownInv'
  <2>1. \A k \in Waiting \cup Taken \cup purged \cup begun : k.id < next_id + 1
    BY <1>4, <1>5 DEF QueueInv, KnownInv
  <2>2. j.id < next_id + 1
    BY <1>2, <1>4
  <2>3. purged \cap (Waiting \cup {j} \cup Taken) = {}
    BY <1>6 DEF QueueInv, KnownInv
  <2> QED
    BY <1>2, <1>3, <2>1, <2>2, <2>3 DEF KnownInv
<1>8. HeldInv'
  <2> SUFFICES ASSUME phase \in {"up", "closing"} PROVE HeldInv'
    BY <1>3 DEF HeldInv
  <2>1. Claimed' = Claimed /\ begun' \cap Waiting' = {}
    BY <1>2, <1>3, <1>6 DEF Claimed, QueueInv, HeldInv
  <2>2. Busy' = Busy /\ \A v \in Workers : Holds(v)' = Holds(v)
    BY <1>3 DEF Busy, Holds
  <2>3. \A v \in Busy' : job'[v] \in begun
    BY <1>3, <2>2 DEF QueueInv, HeldInv
  <2> QED
    BY <1>3, <2>1, <2>2, <2>3, HeldStill DEF QueueInv
<1> QED
  BY <1>2, <1>7, <1>8 DEF QueueInv

\* QueueInv, when a user's jobs are purged.
LEMMA PurgeInv ==
    ASSUME TypeOK, QueueInv, NEW user \in Users, Purge(user)
    PROVE  QueueInv'
<1>1. /\ Apart(pending', processing')
      /\ Waiting' = {j \in Waiting : j.user # user}
      /\ Taken' = {j \in Taken : j.user # user}
  BY PurgeLists DEF QueueInv
<1>2. UNCHANGED <<deferred, pc, job, begun, next_id, phase>>
  BY DEF Purge, memoryVars
<1>3. purged' = purged \cup {j \in Waiting \cup Taken : j.user = user}
  BY ListedElements DEF Purge, Waiting, Taken
<1>4. KnownInv'
  BY <1>1, <1>2, <1>3 DEF QueueInv, KnownInv
<1>5. HeldInv'
  <2> SUFFICES ASSUME phase \in {"up", "closing"} PROVE HeldInv'
    BY <1>2 DEF HeldInv
  <2>1. Claimed \subseteq Claimed' /\ begun' \cap Waiting' = {}
    BY <1>1, <1>2, <1>3 DEF Claimed, QueueInv, HeldInv
  <2>2. Busy' = Busy /\ \A v \in Workers : Holds(v)' = Holds(v)
    BY <1>2 DEF Busy, Holds
  <2>3. \A v \in Busy' : job'[v] \in begun
    BY <1>2, <2>2 DEF QueueInv, HeldInv
  <2> QED
    BY <1>2, <2>1, <2>2, <2>3, HeldStill DEF QueueInv
<1> QED
  BY <1>1, <1>4, <1>5 DEF QueueInv

\* QueueInv, when Redis serves a pop.
LEMMA ServePopInv ==
    ASSUME TypeOK, QueueInv, phase \in {"up", "closing"}, NEW w \in Workers, ServePop(w)
    PROVE  QueueInv'
<1> DEFINE j == job'[w]
<1>1. Moved(pending, processing, pending', processing', j)
  BY ServePopLists DEF QueueInv
<1>2. /\ Apart(pending', processing')
      /\ Waiting' = Waiting \ {j} /\ Taken' = Taken \cup {j}
      /\ j \in Waiting /\ j \notin Taken
  BY <1>1 DEF Moved, Waiting, Taken
<1>3. UNCHANGED <<deferred, begun, purged, next_id, phase>>
  BY DEF ServePop, boundVars
<1>4. OthersAlone(w) /\ ~Holds(w) /\ w \notin Busy' /\ Busy' \subseteq Busy
  BY DEF ServePop, TypeOK, OthersAlone, Holds, Busy, Finishing, Acking
<1> HIDE DEF j
<1>5. KnownInv'
  BY <1>2, <1>3 DEF QueueInv, KnownInv
<1>6. j \notin Claimed
  BY <1>2, ClaimedNotWaiting
<1>7. Claimed' = Claimed \cup {j} /\ begun' \cap Waiting' = {}
  BY <1>2, <1>3 DEF Claimed, QueueInv, HeldInv
<1>8. \A v \in Busy' : job'[v] \in begun
  BY <1>4 DEF QueueInv, HeldInv, OthersAlone, Busy
<1>9. HeldInv'
  BY <1>3, <1>4, <1>6, <1>7, <1>8, HeldComes DEF QueueInv, OthersAlone, j
<1> QED
  BY <1>2, <1>5, <1>9 DEF QueueInv

\* The lists stay as they are.
LEMMA SameLists ==
    ASSUME UNCHANGED <<pending, processing>>
    PROVE  /\ Waiting' = Waiting /\ Taken' = Taken
           /\ Apart(pending, processing) => Apart(pending', processing')
BY DEF Waiting, Taken, Elements, Apart

\* A worker that holds nothing and goes on.
LEMMA ContinuesInv ==
    ASSUME TypeOK, QueueInv, phase \in {"up", "closing"}, NEW w \in Workers, ~Holds(w),
           NEW busy, Continues(w, busy), UNCHANGED <<pending, processing, purged, next_id>>
    PROVE  QueueInv'
<1>1. HeldInv' /\ begun' \subseteq begun \cup Claimed
  BY HeldContinues
<1>2. Waiting' = Waiting /\ Taken' = Taken /\ Apart(pending', processing')
  BY SameLists DEF QueueInv
<1>3. KnownInv'
  BY <1>1, <1>2, KnownStill DEF QueueInv
<1> QED
  BY <1>1, <1>2, <1>3 DEF QueueInv

\* A worker that takes nothing new into its hands and starts nothing.
LEMMA QuietInv ==
    ASSUME QueueInv, phase \in {"up", "closing"}, NEW w \in Workers, OthersAlone(w),
           UNCHANGED <<pending, processing, purged, next_id, deferred, begun>>,
           Holds(w)' => Holds(w) /\ job'[w] = job[w],
           w \in Busy' => w \in Busy /\ job'[w] = job[w]
    PROVE  QueueInv'
<1>1. Waiting' = Waiting /\ Taken' = Taken /\ Apart(pending', processing')
  BY SameLists DEF QueueInv
<1>2. KnownInv'
  BY <1>1, KnownStill DEF QueueInv
<1>3. \A v \in Workers : Holds(v)' => Holds(v) /\ job'[v] = job[v]
  BY DEF OthersAlone, Holds
<1>4. \A v \in Busy' : v \in Busy /\ job'[v] = job[v]
  BY DEF OthersAlone, Busy
<1>5. Claimed' = Claimed /\ begun' \cap Waiting' = {} /\ \A v \in Busy' : job'[v] \in begun
  BY <1>1, <1>4 DEF Claimed, QueueInv, HeldInv
<1>6. HeldInv'
  BY <1>3, <1>5, HeldStill DEF QueueInv
<1> QED
  BY <1>1, <1>2, <1>6 DEF QueueInv

\* LREM of a job this process has started.
LEMMA RemoveAckedInv ==
    ASSUME TypeOK, QueueInv, phase \in {"up", "closing"}, NEW w \in Workers, OthersAlone(w),
           w \in Busy, w \in Busy', job'[w] = job[w], RemoveAcked(w),
           UNCHANGED <<pending, purged, next_id, deferred, begun>>
    PROVE  QueueInv'
<1>1. job[w] \in Job /\ job[w] \in begun
  BY DEF Busy, TypeOK, QueueInv, HeldInv, InHand
<1>2. Apart(pending', processing') /\ Waiting' = Waiting /\ Taken' = Taken \ {job[w]}
  BY <1>1, RemoveAckedLists DEF QueueInv
<1>3. KnownInv'
  BY <1>2, KnownStill DEF QueueInv
<1>4. ~Holds(w)'
  BY DEF Busy, Holds, Finishing, Acking
<1>5. \A v \in Workers : Holds(v)' => Holds(v) /\ job'[v] = job[v]
  BY <1>4 DEF OthersAlone, Holds
<1>6. \A v \in Busy' : v \in Busy /\ job'[v] = job[v]
  BY DEF OthersAlone, Busy
<1>7. Claimed \subseteq Claimed' /\ begun' \cap Waiting' = {}
  BY <1>1, <1>2 DEF Claimed, QueueInv, HeldInv
<1>8. \A v \in Busy' : job'[v] \in begun
  BY <1>6 DEF QueueInv, HeldInv
<1>9. HeldInv'
  BY <1>5, <1>7, <1>8, HeldStill DEF QueueInv
<1> QED
  BY <1>2, <1>3, <1>9 DEF QueueInv

\* A worker gives its job back and leaves.
LEMMA GivesBackInv ==
    ASSUME TypeOK, QueueInv, phase \in {"up", "closing"}, NEW w \in Workers,
           pc[w] = "requeueing", MoveBack(job[w]), Suspend(w, "done", active_users),
           UNCHANGED <<purged, next_id, deferred>>
    PROVE  QueueInv'
<1> DEFINE j == job[w]
<1>1. j \in Job
  BY DEF TypeOK, InHand
<1>2. /\ Apart(pending', processing')
      /\ \/ /\ j \in Taken
            /\ Waiting' = Waiting \cup {j} /\ Taken' = Taken \ {j}
         \/ j \notin Taken /\ Waiting' = Waiting /\ Taken' = Taken
  BY <1>1, MoveBackLists DEF QueueInv
<1>3. OthersAlone(w) /\ Holds(w) /\ ~Holds(w)' /\ begun' = begun /\ Busy' \subseteq Busy
      /\ w \notin Busy'
  BY DEF Suspend, TypeOK, OthersAlone, Holds, Busy, Finishing, Acking
<1>4. j \in Claimed
  BY <1>3 DEF QueueInv, HeldInv
<1> HIDE DEF j
<1>5. KnownInv'
  BY <1>2, <1>3, KnownStill DEF QueueInv
<1>6. Claimed \ {j} \subseteq Claimed' /\ begun' \cap Waiting' = {}
  BY <1>2, <1>3, <1>4 DEF Claimed, QueueInv, HeldInv
<1>7. \A v \in Busy' : job'[v] \in begun
  BY <1>3 DEF QueueInv, HeldInv, OthersAlone, Busy
<1>8. HeldInv'
  BY <1>3, <1>6, <1>7, HeldGoes DEF QueueInv, OthersAlone, j
<1> QED
  BY <1>2, <1>5, <1>8 DEF QueueInv

\* The job a worker got is started.
LEMMA StartsPoppedInv ==
    ASSUME TypeOK, QueueInv, phase \in {"up", "closing"}, NEW w \in Workers, pc[w] = "got_job",
           Handle(w, job[w], active_users),
           UNCHANGED <<pending, processing, purged, next_id, deferred>>
    PROVE  QueueInv'
<1> DEFINE j == job[w]
<1>1. j \in Claimed \ Range(deferred)
  BY DEF Holds, QueueInv, HeldInv
<1>2. Waiting' = Waiting /\ Taken' = Taken /\ Apart(pending', processing')
  BY SameLists DEF QueueInv
<1>3. Claimed' = Claimed \ {j} /\ begun' = begun \cup {j}
  BY <1>2 DEF Claimed, Handle
<1>4. KnownInv'
  BY <1>1, <1>2, <1>3, KnownStill DEF QueueInv
<1>5. begun' \cap Waiting' = {}
  BY <1>1, <1>2, <1>3, ClaimedNotWaiting DEF QueueInv, HeldInv
<1>6. /\ \A v \in Workers : Holds(v)' => v # w /\ Holds(v) /\ job'[v] = job[v]
      /\ \A v \in Busy' : v = w \/ (v \in Busy /\ job'[v] = job[v])
      /\ job'[w] = j
  BY DEF Handle, TypeOK, Holds, Busy
<1>7. \A v \in Workers : Holds(v)' => job'[v] \in Claimed' \ Range(deferred) /\ job'[v] # j
  BY <1>3, <1>6 DEF Holds, QueueInv, HeldInv
<1>8. \A u, v \in Workers : Holds(u)' /\ Holds(v)' /\ u # v => job'[u] # job'[v]
  BY <1>6 DEF QueueInv, HeldInv
<1>9. \A v \in Busy' : job'[v] \in begun'
  BY <1>3, <1>6 DEF QueueInv, HeldInv
<1>10. Range(deferred) \subseteq Claimed' /\ IsInjective(deferred)
  BY <1>1, <1>3 DEF QueueInv, HeldInv
<1>11. HeldInv'
  BY <1>5, <1>7, <1>8, <1>9, <1>10 DEF HeldInv
<1> QED
  BY <1>2, <1>4, <1>11 DEF QueueInv

\* The job a worker got is set aside.
LEMMA DefersPoppedInv ==
    ASSUME TypeOK, QueueInv, phase \in {"up", "closing"}, NEW w \in Workers, pc[w] = "got_job",
           Suspend(w, "asleep", active_users), deferred' = Append(deferred, job[w]),
           UNCHANGED <<pending, processing, purged, next_id>>
    PROVE  QueueInv'
<1> DEFINE j == job[w]
<1>1. j \in Claimed \ Range(deferred)
  BY DEF Holds, QueueInv, HeldInv
<1>2. Waiting' = Waiting /\ Taken' = Taken /\ Apart(pending', processing')
  BY SameLists DEF QueueInv
<1>3. Claimed' = Claimed /\ begun' = begun
  BY <1>2 DEF Claimed, Suspend
<1>4. KnownInv'
  BY <1>2, <1>3, KnownStill DEF QueueInv
<1>5. begun' \cap Waiting' = {}
  BY <1>2, <1>3 DEF QueueInv, HeldInv
<1>6. j \in Job
  BY DEF TypeOK, InHand
<1>7. Range(deferred') = Range(deferred) \cup {j} /\ IsInjective(deferred')
  BY <1>1, <1>6, AppendFacts DEF TypeOK, QueueInv, HeldInv
<1>8. /\ \A v \in Workers : Holds(v)' => v # w /\ Holds(v) /\ job'[v] = job[v]
      /\ \A v \in Busy' : v \in Busy /\ job'[v] = job[v]
  BY DEF Suspend, TypeOK, Holds, Busy, Finishing, Acking
<1>9. \A v \in Workers : Holds(v)' => job'[v] \in Claimed' \ Range(deferred')
  <2> SUFFICES ASSUME NEW v \in Workers, Holds(v)'
               PROVE  job'[v] \in Claimed' \ Range(deferred')
    OBVIOUS
  <2>1. v # w /\ Holds(v) /\ job'[v] = job[v] /\ Holds(w)
    BY <1>8 DEF Holds
  <2>2. job[v] # j /\ job[v] \in Claimed \ Range(deferred)
    BY <2>1 DEF QueueInv, HeldInv
  <2> QED
    BY <1>3, <1>7, <2>1, <2>2
<1>10. \A u, v \in Workers : Holds(u)' /\ Holds(v)' /\ u # v => job'[u] # job'[v]
  BY <1>8 DEF QueueInv, HeldInv
<1>11. \A v \in Busy' : job'[v] \in begun'
  BY <1>3, <1>8 DEF QueueInv, HeldInv
<1>12. Range(deferred') \subseteq Claimed'
  BY <1>1, <1>3, <1>7 DEF QueueInv, HeldInv
<1>13. HeldInv'
  BY <1>5, <1>7, <1>9, <1>10, <1>11, <1>12 DEF HeldInv
<1> QED
  BY <1>2, <1>4, <1>13 DEF QueueInv

\* QueueInv, at a worker's turn or a failed call of its.
LEMMA TurnInv ==
    ASSUME TypeOK, PhaseInv, QueueInv, NEW w \in Workers, Turn(w) \/ Mishap(w)
    PROVE  QueueInv'
<1> USE DEF redisVars, boundVars
<1>0. phase \in {"up", "closing"}
  BY WorkersRunWhileUp DEF TypeOK
<1>1. CASE Resume(w)
  <2>1. ~Holds(w) /\ Continues(w, active_users)
    BY <1>1, LoopTopContinues DEF Resume, Holds
  <2> QED
    BY <1>0, <1>1, <2>1, ContinuesInv DEF Resume
<1>2. CASE ServePop(w)
  BY <1>0, <1>2, ServePopInv
<1>3. CASE PopTimesOut(w)
  <2>1. OthersAlone(w) /\ ~Holds(w)' /\ w \notin Busy'
    BY <1>3 DEF PopTimesOut, OthersAlone, TypeOK, Holds, Busy, Finishing, Acking
  <2> QED
    BY <1>0, <1>3, <2>1, QuietInv DEF PopTimesOut
<1>4. CASE NothingPopped(w)
  <2>1. ~Holds(w) /\ Continues(w, active_users)
    BY <1>4, NothingPoppedContinues DEF NothingPopped, Holds
  <2> QED
    BY <1>0, <1>4, <2>1, ContinuesInv DEF NothingPopped
<1>5. CASE JobPopped(w)
  <2>1. CASE GiveBack(w, job[w], active_users) /\ UNCHANGED deferred
    <3>1. OthersAlone(w) /\ Holds(w) /\ job'[w] = job[w] /\ w \notin Busy' /\ begun' = begun
      BY <1>5, <2>1 DEF JobPopped, GiveBack, OthersAlone, TypeOK, Holds, Busy, Finishing, Acking
    <3> QED
      BY <1>0, <1>5, <2>1, <3>1, QuietInv DEF JobPopped
  <2>2. CASE Handle(w, job[w], active_users) /\ UNCHANGED deferred
    BY <1>0, <1>5, <2>2, StartsPoppedInv DEF JobPopped
  <2>3. CASE Suspend(w, "asleep", active_users) /\ deferred' = Append(deferred, job[w])
    BY <1>0, <1>5, <2>3, DefersPoppedInv DEF JobPopped
  <2> QED
    BY <1>5, <2>1, <2>2, <2>3 DEF JobPopped
<1>6. CASE HandlerEnds(w)
  <2>1. OthersAlone(w) /\ ~Holds(w)' /\ w \in Busy /\ job'[w] = job[w]
    BY <1>6 DEF HandlerEnds, OthersAlone, TypeOK, Holds, Busy, Finishing, Acking
  <2> QED
    BY <1>0, <1>6, <2>1, QuietInv DEF HandlerEnds
<1>7. CASE Ack(w)
  <2>1. OthersAlone(w) /\ w \in Busy /\ w \in Busy' /\ job'[w] = job[w]
    BY <1>7 DEF Ack, OthersAlone, TypeOK, Busy, Finishing, Acking
  <2> QED
    BY <1>0, <1>7, <2>1, RemoveAckedInv DEF Ack
<1>8. CASE Acked(w)
  <2> DEFINE busy == active_users \ {job[w].user}
  <2>1. ~Holds(w) /\ UNCHANGED <<pending, processing, purged, next_id>>
    BY <1>8 DEF Acked, Holds
  <2>2. CASE LoopTop(w, busy)
    BY <1>0, <2>1, <2>2, LoopTopContinues, ContinuesInv
  <2>3. CASE Suspend(w, "asleep", busy) /\ UNCHANGED deferred
    <3>1. OthersAlone(w) /\ ~Holds(w)' /\ w \notin Busy' /\ begun' = begun
      BY <2>3 DEF Suspend, OthersAlone, TypeOK, Holds, Busy, Finishing, Acking
    <3> QED
      BY <1>0, <2>1, <2>3, <3>1, QuietInv
  <2> QED
    BY <1>8, <2>2, <2>3 DEF Acked
<1>9. CASE Requeue(w)
  BY <1>0, <1>9, GivesBackInv DEF Requeue
<1>10. CASE RequeueFails(w)
  <2>1. CASE MoveBack(job[w])
    BY <1>0, <1>10, <2>1, GivesBackInv DEF RequeueFails
  <2>2. CASE UNCHANGED <<pending, processing>>
    <3>1. OthersAlone(w) /\ ~Holds(w)' /\ w \notin Busy' /\ begun' = begun
      BY <1>10 DEF RequeueFails, Suspend, OthersAlone, TypeOK, Holds, Busy, Finishing, Acking
    <3> QED
      BY <1>0, <1>10, <2>2, <3>1, QuietInv DEF RequeueFails
  <2> QED
    BY <1>10, <2>1, <2>2 DEF RequeueFails
<1>11. CASE PopFails(w)
  <2>1. OthersAlone(w) /\ ~Holds(w)' /\ w \notin Busy' /\ begun' = begun
    BY <1>11 DEF PopFails, Suspend, OthersAlone, TypeOK, Holds, Busy, Finishing, Acking
  <2> QED
    BY <1>0, <1>11, <2>1, QuietInv DEF PopFails
<1>12. CASE AckFails(w)
  <2>1. \E state \in {"acked", "acked_error", "acking_error"} : pc' = [pc EXCEPT ![w] = state]
    BY <1>12 DEF AckFails, Acking
  <2>2. pc[w] \in Acking /\ UNCHANGED <<pending, purged, next_id, deferred, begun, job>>
    BY <1>12 DEF AckFails
  <2>3. OthersAlone(w) /\ w \in Busy /\ w \in Busy' /\ job'[w] = job[w] /\ ~Holds(w)'
    BY <2>1, <2>2 DEF OthersAlone, TypeOK, Busy, Finishing, Acking, Holds
  <2>4. CASE RemoveAcked(w)
    BY <1>0, <2>2, <2>3, <2>4, RemoveAckedInv
  <2>5. CASE UNCHANGED processing
    BY <1>0, <2>2, <2>3, <2>5, QuietInv
  <2> QED
    BY <1>12, <2>4, <2>5 DEF AckFails
<1> QED
  BY <1>1, <1>2, <1>3, <1>4, <1>5, <1>6, <1>7, <1>8, <1>9, <1>10, <1>11, <1>12 DEF Turn, Mishap

\* A step that moves a job between the lists, or none, while no worker runs.
LEMMA ListsStillKnown ==
    ASSUME QueueInv, Apart(pending', processing'),
           Waiting' \cup Taken' \subseteq Waiting \cup Taken,
           begun' \subseteq begun, UNCHANGED <<purged, next_id>>, phase' \notin {"up", "closing"}
    PROVE  QueueInv'
<1>1. KnownInv'
  BY KnownStill DEF QueueInv
<1>2. HeldInv'
  BY DEF HeldInv
<1> QED
  BY <1>1, <1>2 DEF QueueInv

\* QueueInv, over start, recovery, shutdown and crash.
LEMMA ProcessInv ==
    ASSUME TypeOK, PhaseInv, QueueInv, Process \/ BeginClose \/ ReturnFails \/ Crash
    PROVE  QueueInv'
<1> USE DEF redisVars, boundVars, memoryVars
<1>1. CASE Start \/ WorkersGone \/ EndClose \/ Crash
  <2>1. /\ UNCHANGED <<pending, processing, purged, next_id>>
        /\ begun' \subseteq begun /\ phase' \notin {"up", "closing"}
    BY <1>1 DEF Start, WorkersGone, EndClose, Crash, MemoryLost
  <2> QED
    BY <2>1, SameLists, ListsStillKnown DEF QueueInv
<1>2. ASSUME NEW p \in Priorities, Recover(p) PROVE QueueInv'
  <2>1. PICK j \in Job : Moved(processing, pending, processing', pending', j)
    BY <1>2, RecoverLists DEF QueueInv
  <2>2. Apart(pending', processing') /\ Waiting' \cup Taken' \subseteq Waiting \cup Taken
    BY <2>1, ApartSymmetric DEF Moved, Waiting, Taken
  <2>3. UNCHANGED <<begun, purged, next_id>> /\ phase' \notin {"up", "closing"}
    BY <1>2 DEF Recover
  <2> QED
    BY <2>2, <2>3, ListsStillKnown
<1>3. CASE Recovered
  <2>1. Waiting' = Waiting /\ Taken' = Taken /\ Apart(pending', processing')
    BY <1>3, SameLists DEF Recovered, QueueInv
  <2>2. KnownInv'
    BY <1>3, <2>1, KnownStill DEF Recovered, QueueInv
  <2>3. Busy' = {} /\ \A w \in Workers : ~Holds(w)'
    BY <1>3 DEF Recovered, Busy, Holds, Finishing, Acking
  <2>4. begun' = {} /\ deferred' = <<>>
    BY <1>3 DEF Recovered, PhaseInv
  <2>5. Range(deferred') = {} /\ IsInjective(deferred')
    BY <2>4 DEF Range, IsInjective
  <2>6. HeldInv'
    BY <2>3, <2>4, <2>5 DEF HeldInv
  <2> QED
    BY <2>1, <2>2, <2>6 DEF QueueInv
<1>4. CASE BeginClose
  <2>1. Waiting' = Waiting /\ Taken' = Taken /\ Apart(pending', processing')
    BY <1>4, SameLists DEF BeginClose, QueueInv
  <2>2. KnownInv'
    BY <1>4, <2>1, KnownStill DEF BeginClose, QueueInv
  <2>3. Busy' = Busy /\ \A w \in Workers : Holds(w)' = Holds(w)
    BY <1>4 DEF BeginClose, Busy, Holds
  <2>4. Claimed' = Claimed /\ UNCHANGED <<begun, deferred, job>> /\ phase \in {"up", "closing"}
    BY <1>4, <2>1 DEF BeginClose, Claimed
  <2>5. HeldInv'
    BY <2>1, <2>3, <2>4, HeldStill DEF QueueInv, HeldInv
  <2> QED
    BY <2>1, <2>2, <2>5 DEF QueueInv
<1>5. ASSUME active # <<>>, MoveBack(Head(active))
      PROVE  /\ Apart(pending', processing')
             /\ Waiting' \cup Taken' \subseteq Waiting \cup Taken
  <2>1. Head(active) \in Job
    BY <1>5, HeadTailProperties DEF TypeOK
  <2> QED
    BY <1>5, <2>1, MoveBackLists DEF QueueInv
<1>6. CASE ReturnActive
  <2>1. UNCHANGED <<begun, purged, next_id>> /\ phase' \notin {"up", "closing"}
    BY <1>6 DEF ReturnActive
  <2> QED
    BY <1>5, <1>6, <2>1, ListsStillKnown DEF ReturnActive
<1>7. CASE ReturnFails
  <2>1. UNCHANGED <<begun, purged, next_id>> /\ phase' \notin {"up", "closing"}
    BY <1>7 DEF ReturnFails, MemoryLost
  <2> QED
    BY <1>5, <1>7, <2>1, SameLists, ListsStillKnown DEF ReturnFails, QueueInv
<1> QED
  BY <1>1, <1>2, <1>3, <1>4, <1>6, <1>7 DEF Process

\* QueueInv is inductive with the types and the phases.
LEMMA QueueStep ==
    ASSUME TypeOK, PhaseInv, QueueInv, [Next]_vars
    PROVE  QueueInv'
<1>1. CASE UNCHANGED vars
  <2>1. UNCHANGED <<pending, processing, deferred, pc, job, phase, begun, purged, next_id>>
    BY <1>1 DEF vars, redisVars, memoryVars, boundVars
  <2>2. Waiting' = Waiting /\ Taken' = Taken /\ Apart(pending', processing')
    BY <2>1, SameLists DEF QueueInv
  <2>3. Claimed' = Claimed /\ Busy' = Busy /\ \A w \in Workers : Holds(w)' = Holds(w)
    BY <2>1, <2>2 DEF Claimed, Busy, Holds
  <2>4. KnownInv' /\ HeldInv'
    BY <2>1, <2>2, <2>3 DEF QueueInv, KnownInv, HeldInv
  <2> QED
    BY <2>2, <2>4 DEF QueueInv
<1> QED
  BY <1>1, EnqueueInv, PurgeInv, TurnInv, ProcessInv DEF Next

\* QueueInv holds of the empty queue.
LEMMA QueueInit == Init => QueueInv
<1> SUFFICES ASSUME Init PROVE QueueInv
  OBVIOUS
<1>1. Range(<<>>) = {} /\ IsInjective(<<>>)
  BY DEF Range, IsInjective
<1>2. \A p \in Priorities : pending[p] = <<>> /\ processing[p] = <<>>
  BY DEF Init
<1>3. Apart(pending, processing)
  BY <1>1, <1>2 DEF Apart
<1>4. Waiting = {} /\ Taken = {}
  BY <1>1, <1>2 DEF Waiting, Taken, Elements
<1> QED
  BY <1>3, <1>4 DEF Init, QueueInv, KnownInv, HeldInv

\* The inductive invariant.
Inv == TypeOK /\ PhaseInv /\ ReservationExact /\ QueueInv

\* Nobody is reserved before the process starts.
LEMMA ReservationInit == Init => ReservationExact
<1> SUFFICES ASSUME Init PROVE ReservationExact
  OBVIOUS
<1>1. Busy = {} /\ phase # "up"
  BY NobodyBusy DEF Init
<1> QED
  BY <1>1 DEF ReservationExact

\* What is in the lists, in the hands of the workers and set aside fits together, whatever
\* the number of users, workers, jobs, crashes and failures.
THEOREM InvCorrect == Spec => []Inv
<1>1. Init => Inv
  BY TypeInit, ReservationInit, QueueInit DEF Init, PhaseInv, Inv
<1>2. Inv /\ [Next]_vars => Inv'
  BY TypeStep, PhaseStep, ReservationStep, QueueStep DEF Inv
<1> QED
  BY <1>1, <1>2, PTL DEF Spec

\* A user is reserved exactly while a worker handles one of his jobs, and never two
\* workers at once.
THEOREM ReservationCorrect == Spec => []ReservationExact
BY InvCorrect, PTL DEF Inv

\* Lists that are apart hold as many jobs as entries.
LEMMA ApartListedOnce ==
    ASSUME TypeOK, Apart(pending, processing)
    PROVE  IsFiniteSet(Listed) /\ ListedOnce
<1> DEFINE A == Range(pending["user_visible"])
           B == Range(pending["prefetch"])
           C == Range(processing["user_visible"])
           D == Range(processing["prefetch"])
<1>0. "user_visible" \in Priorities /\ "prefetch" \in Priorities
      /\ Priorities = {"user_visible", "prefetch"}
  BY DEF Priorities
<1>1. \A p \in Priorities :
          /\ IsFiniteSet(Range(pending[p])) /\ Cardinality(Range(pending[p])) = Len(pending[p])
          /\ IsFiniteSet(Range(processing[p]))
          /\ Cardinality(Range(processing[p])) = Len(processing[p])
          /\ Len(pending[p]) \in Nat /\ Len(processing[p]) \in Nat
  <2> SUFFICES ASSUME NEW p \in Priorities
               PROVE  /\ IsFiniteSet(Range(pending[p]))
                      /\ Cardinality(Range(pending[p])) = Len(pending[p])
                      /\ IsFiniteSet(Range(processing[p]))
                      /\ Cardinality(Range(processing[p])) = Len(processing[p])
                      /\ Len(pending[p]) \in Nat /\ Len(processing[p]) \in Nat
    OBVIOUS
  <2>1. pending[p] \in Seq(Job) /\ IsInjective(pending[p])
    BY DEF TypeOK, Apart
  <2>2. processing[p] \in Seq(Job) /\ IsInjective(processing[p])
    BY DEF TypeOK, Apart
  <2> QED
    BY <2>1, <2>2, InjectiveLen, LenProperties
<1>2. A \cap B = {} /\ C \cap D = {} /\ (A \cup B) \cap (C \cup D) = {}
  BY <1>0 DEF Apart
<1>3. Listed = (A \cup B) \cup (C \cup D)
  BY <1>0 DEF Listed
<1>4. IsFiniteSet(A) /\ IsFiniteSet(B) /\ IsFiniteSet(C) /\ IsFiniteSet(D)
  BY <1>0, <1>1
<1>5. /\ Cardinality(A) = Len(pending["user_visible"])
      /\ Cardinality(B) = Len(pending["prefetch"])
      /\ Cardinality(C) = Len(processing["user_visible"])
      /\ Cardinality(D) = Len(processing["prefetch"])
  BY <1>0, <1>1
<1> HIDE DEF A, B, C, D
<1>6. IsFiniteSet(A \cup B) /\ Cardinality(A \cup B) = Cardinality(A) + Cardinality(B)
  BY <1>2, <1>4, DisjointCardinality
<1>7. IsFiniteSet(C \cup D) /\ Cardinality(C \cup D) = Cardinality(C) + Cardinality(D)
  BY <1>2, <1>4, DisjointCardinality
<1>8. /\ IsFiniteSet(Listed)
      /\ Cardinality(Listed) = Cardinality(A \cup B) + Cardinality(C \cup D)
  BY <1>2, <1>3, <1>6, <1>7, DisjointCardinality
<1>9. \A p \in Priorities : Len(pending[p]) \in Nat /\ Len(processing[p]) \in Nat
  BY <1>1
<1> DEFINE a == Len(pending["user_visible"])
           b == Len(pending["prefetch"])
           c == Len(processing["user_visible"])
           d == Len(processing["prefetch"])
<1>10. a \in Nat /\ b \in Nat /\ c \in Nat /\ d \in Nat
  BY <1>0, <1>9
<1>11. Cardinality(Listed) = (a + b) + (c + d)
  BY <1>5, <1>6, <1>7, <1>8
<1>12. ListedOnce <=> Cardinality(Listed) = ((a + b) + c) + d
  BY DEF ListedOnce
<1> HIDE DEF a, b, c, d
<1> QED
  BY <1>8, <1>10, <1>11, <1>12

\* No job is in the four lists twice: recovery, requeueing, shutdown and purge never
\* copy one.
THEOREM ListedOnceCorrect == Spec => []ListedOnce
<1>1. Inv => ListedOnce
  BY ApartListedOnce DEF Inv, QueueInv
<1> QED
  BY <1>1, InvCorrect, PTL

------------------------------------------------------------------------------
\* The queue implements DurableQueueSpec.

\* The jobs being handled, and those whose handler has ended.
Running == {job[w] : w \in {v \in Workers : pc[v] = "handling"}}
FinishingJobs == {job[w] : w \in {v \in Workers : pc[v] \in Finishing}}

\* A step that DurableQueueSpec takes or does not see.
Implements == DurableQueue!Next \/ UNCHANGED DurableQueue!vars

\* A step that changes nothing DurableQueueSpec speaks of is a stutter of it.
LEMMA Unseen ==
    ASSUME UNCHANGED <<Listed, Running, FinishingJobs, begun, purged, next_id>>
    PROVE  Implements
BY DEF Implements, DurableQueue!vars, Running, FinishingJobs

\* The steps for a job whose handler has ended.
LEMMA FinishingSteps ==
    ASSUME NEW j \in FinishingJobs,
           \/ DurableQueue!Forget(j) \/ DurableQueue!Release(j)
           \/ \E k \in DurableQueue!Startable : DurableQueue!Handover(j, k)
    PROVE  Implements
<1>1. \E i \in FinishingJobs :
          \/ DurableQueue!Forget(i) \/ DurableQueue!Release(i)
          \/ \E k \in DurableQueue!Startable : DurableQueue!Handover(i, k)
  OBVIOUS
<1> QED
  BY <1>1 DEF Implements, DurableQueue!Next, FinishingJobs

\* The hands of one worker change: what that means for all of them.
LEMMA HandsChange ==
    ASSUME TypeOK, ReservationExact, NEW w \in Workers, OthersAlone(w)
    PROVE  /\ pc[w] # "handling" /\ pc'[w] # "handling" => Running' = Running
           /\ pc[w] # "handling" /\ pc'[w] = "handling" => Running' = Running \cup {job'[w]}
           /\ pc[w] = "handling" /\ pc'[w] # "handling" => Running' = Running \ {job[w]}
           /\ pc[w] \notin Finishing /\ pc'[w] \notin Finishing => FinishingJobs' = FinishingJobs
           /\ pc[w] \notin Finishing /\ pc'[w] \in Finishing
                 => FinishingJobs' = FinishingJobs \cup {job'[w]}
           /\ pc[w] \in Finishing /\ pc'[w] \notin Finishing
                 => FinishingJobs' = FinishingJobs \ {job[w]}
           /\ pc[w] \in Finishing /\ pc'[w] \in Finishing /\ job'[w] = job[w]
                 => FinishingJobs' = FinishingJobs
<1>1. \A v \in Workers \ {w} : pc'[v] = pc[v] /\ job'[v] = job[v]
  BY DEF OthersAlone
<1>2. \A v \in Workers \ {w} : v \in Busy /\ w \in Busy => job[v] # job[w]
  BY DEF ReservationExact
<1>3. \A v \in Workers : pc[v] = "handling" \/ pc[v] \in Finishing <=> v \in Busy
  BY DEF Busy
<1>4. pc[w] # "handling" /\ pc'[w] # "handling" => Running' = Running
  BY <1>1 DEF Running
<1>5. pc[w] # "handling" /\ pc'[w] = "handling" => Running' = Running \cup {job'[w]}
  BY <1>1 DEF Running
<1>6. pc[w] = "handling" /\ pc'[w] # "handling" => Running' = Running \ {job[w]}
  BY <1>1, <1>2, <1>3 DEF Running
<1>7. pc[w] \notin Finishing /\ pc'[w] \notin Finishing => FinishingJobs' = FinishingJobs
  BY <1>1 DEF FinishingJobs
<1>8. pc[w] \notin Finishing /\ pc'[w] \in Finishing
        => FinishingJobs' = FinishingJobs \cup {job'[w]}
  BY <1>1 DEF FinishingJobs
<1>9. pc[w] \in Finishing /\ pc'[w] \notin Finishing
        => FinishingJobs' = FinishingJobs \ {job[w]}
  BY <1>1, <1>2, <1>3 DEF FinishingJobs
<1>10. pc[w] \in Finishing /\ pc'[w] \in Finishing /\ job'[w] = job[w]
         => FinishingJobs' = FinishingJobs
  BY <1>1 DEF FinishingJobs
<1> QED
  BY <1>4, <1>5, <1>6, <1>7, <1>8, <1>9, <1>10

\* A worker that is not busy and does not become so.
LEMMA IdleUnseen ==
    ASSUME TypeOK, ReservationExact, NEW w \in Workers, OthersAlone(w),
           pc[w] # "handling", pc[w] \notin Finishing,
           pc'[w] # "handling", pc'[w] \notin Finishing,
           UNCHANGED <<Listed, begun, purged, next_id>>
    PROVE  Implements
<1>1. Running' = Running /\ FinishingJobs' = FinishingJobs
  BY HandsChange
<1> QED
  BY <1>1, Unseen

\* A worker that is not busy starts a claimed job of a user who is free: Start.
LEMMA StartsImplements ==
    ASSUME Inv, NEW w \in Workers, pc[w] # "handling", pc[w] \notin Finishing, phase = "up",
           NEW j \in Claimed, j.user \notin active_users, Handle(w, j, active_users),
           UNCHANGED <<Listed, purged, next_id>>
    PROVE  Implements
<1>1. OthersAlone(w) /\ pc'[w] = "handling" /\ job'[w] = j /\ begun' = begun \cup {j}
  BY DEF Handle, OthersAlone, Inv, TypeOK
<1>2. "handling" \notin Finishing
  BY DEF Finishing, Acking
<1>3. Running' = Running \cup {j} /\ FinishingJobs' = FinishingJobs
  BY <1>1, <1>2, HandsChange DEF Inv
<1>4. \A k \in Running \cup FinishingJobs : k.user # j.user
  BY DEF Inv, ReservationExact, Running, FinishingJobs, Busy
<1>5. j \in DurableQueue!Startable
  BY ListedElements DEF Claimed, DurableQueue!Startable, Taken
<1>6. DurableQueue!Start(j)
  BY <1>1, <1>3, <1>4
     DEF DurableQueue!Start, DurableQueue!UserFree, Running, FinishingJobs
<1> QED
  BY <1>5, <1>6 DEF Implements, DurableQueue!Next

\* A worker whose job was acknowledged starts another one: Handover.
LEMMA HandoverImplements ==
    ASSUME Inv, NEW w \in Workers, pc[w] \in Finishing, phase = "up",
           NEW j \in Claimed, j.user \notin active_users \ {job[w].user},
           Handle(w, j, active_users \ {job[w].user}), UNCHANGED <<Listed, purged, next_id>>
    PROVE  Implements
<1>0. PICK i \in FinishingJobs : i = job[w]
  BY DEF FinishingJobs
<1>1. OthersAlone(w) /\ pc'[w] = "handling" /\ job'[w] = j /\ begun' = begun \cup {j}
  BY DEF Handle, OthersAlone, Inv, TypeOK
<1>2. "handling" \notin Finishing
  BY DEF Finishing, Acking
<1>3. Running' = Running \cup {j} /\ FinishingJobs' = FinishingJobs \ {i}
  BY <1>0, <1>1, <1>2, HandsChange DEF Inv
<1>4. \A k \in Running \cup (FinishingJobs \ {i}) : k.user # j.user
  <2>1. \A k \in Running \cup (FinishingJobs \ {i}) :
            \E v \in Busy : v # w /\ job[v] = k
    BY <1>0, <1>2 DEF Running, FinishingJobs, Busy
  <2>2. \A v \in Busy : v # w => job[v].user \in active_users /\ job[v].user # i.user
    BY <1>0 DEF Inv, ReservationExact, Busy
  <2> QED
    BY <1>0, <2>1, <2>2
<1>5. j \in DurableQueue!Startable
  BY ListedElements DEF Claimed, DurableQueue!Startable, Taken
<1>6. DurableQueue!Handover(i, j)
  BY <1>1, <1>3, <1>4
     DEF DurableQueue!Handover, DurableQueue!UserFree, Running, FinishingJobs
<1> QED
  BY <1>5, <1>6, FinishingSteps

\* A worker whose job was acknowledged does not start another one: Release.
LEMMA ReleaseImplements ==
    ASSUME Inv, NEW w \in Workers, pc[w] \in Finishing, OthersAlone(w),
           pc'[w] # "handling", pc'[w] \notin Finishing,
           UNCHANGED <<Listed, begun, purged, next_id>>
    PROVE  Implements
<1>1. PICK i \in FinishingJobs : i = job[w]
  BY DEF FinishingJobs
<1>2. pc[w] # "handling"
  BY DEF Finishing, Acking
<1>3. Running' = Running /\ FinishingJobs' = FinishingJobs \ {i}
  BY <1>1, <1>2, HandsChange DEF Inv
<1>4. DurableQueue!Release(i)
  BY <1>3 DEF DurableQueue!Release, Running, FinishingJobs
<1> QED
  BY <1>4, FinishingSteps

\* Everything a worker that is not busy does between two suspensions.
LEMMA ContinuesImplements ==
    ASSUME Inv, NEW w \in Workers, phase \in {"up", "closing"},
           pc[w] # "handling", pc[w] \notin Finishing, Continues(w, active_users),
           UNCHANGED <<Listed, purged, next_id>>
    PROVE  Implements
<1>0. \A state \in {"done", "popping_visible", "popping_prefetch", "requeueing"} :
          state # "handling" /\ state \notin Finishing
  BY DEF Finishing, Acking
<1>1. ASSUME NEW state \in {"done", "popping_visible", "popping_prefetch"},
             Suspend(w, state, active_users)
      PROVE  Implements
  <2>1. OthersAlone(w) /\ pc'[w] = state /\ begun' = begun
    BY <1>1 DEF Suspend, OthersAlone, Inv, TypeOK
  <2> QED
    BY <1>0, <2>1, IdleUnseen DEF Inv
<1>2. ASSUME NEW i \in DOMAIN deferred, deferred[i].user \notin active_users,
             ~Stopping, Handle(w, deferred[i], active_users)
      PROVE  Implements
  <2>1. deferred[i] \in Claimed
    BY DEF Inv, QueueInv, HeldInv, Range
  <2>2. phase = "up"
    BY <1>2 DEF Stopping
  <2> QED
    BY <1>2, <2>1, <2>2, StartsImplements
<1>3. ASSUME NEW i \in DOMAIN deferred,
             GiveBack(w, deferred[i], active_users \cup {deferred[i].user})
      PROVE  Implements
  <2>1. OthersAlone(w) /\ pc'[w] = "requeueing" /\ begun' = begun
    BY <1>3 DEF GiveBack, OthersAlone, Inv, TypeOK
  <2> QED
    BY <1>0, <2>1, IdleUnseen DEF Inv
<1> QED
  BY <1>1, <1>2, <1>3 DEF Continues

\* The store is what waits and what is taken.
LEMMA ListedParts == Listed = Waiting \cup Taken /\ Listed' = Waiting' \cup Taken'
BY DEF Waiting, Taken, Listed, Elements

\* A worker's turn is a step of DurableQueueSpec or a stutter.
LEMMA TurnImplements ==
    ASSUME Inv, NEW w \in Workers, Turn(w) \/ Mishap(w)
    PROVE  Implements
<1> USE DEF redisVars, boundVars
<1>0. phase \in {"up", "closing"}
  BY WorkersRunWhileUp DEF Inv, TypeOK
<1>a. \A state \in {"done", "popping_visible", "popping_prefetch", "requeueing", "asleep",
                    "got_job", "fresh", "no_visible", "no_prefetch"} :
          state # "handling" /\ state \notin Finishing
  BY DEF Finishing, Acking
<1>b. \A state \in Finishing : state # "handling"
  BY DEF Finishing, Acking
<1>c. UNCHANGED <<pending, processing>> => Listed' = Listed
  BY DEF Listed
<1>1. CASE Resume(w)
  <2>1. Continues(w, active_users) /\ pc[w] # "handling" /\ pc[w] \notin Finishing
    BY <1>1, <1>a, LoopTopContinues DEF Resume
  <2> QED
    BY <1>0, <1>1, <1>c, <2>1, ContinuesImplements DEF Resume
<1>2. CASE ServePop(w)
  <2>1. Moved(pending, processing, pending', processing', job'[w])
    BY <1>2, ServePopLists DEF Inv, QueueInv
  <2>2. Listed' = Listed
    BY <2>1, ListedParts DEF Moved, Waiting, Taken
  <2>3. /\ OthersAlone(w) /\ pc'[w] = "got_job"
        /\ pc[w] \in {"popping_visible", "popping_prefetch"}
        /\ UNCHANGED <<begun, purged, next_id>>
    BY <1>2 DEF ServePop, OthersAlone, Inv, TypeOK
  <2> QED
    BY <1>a, <2>2, <2>3, IdleUnseen DEF Inv
<1>3. CASE PopTimesOut(w)
  <2>1. /\ OthersAlone(w) /\ pc'[w] \in {"no_visible", "no_prefetch"}
        /\ pc[w] \in {"popping_visible", "popping_prefetch"}
        /\ UNCHANGED <<begun, purged, next_id>>
    BY <1>3 DEF PopTimesOut, OthersAlone, Inv, TypeOK
  <2>2. Listed' = Listed
    BY <1>3, <1>c DEF PopTimesOut
  <2> QED
    BY <1>a, <2>1, <2>2, IdleUnseen DEF Inv
<1>4. CASE NothingPopped(w)
  <2>1. Continues(w, active_users) /\ pc[w] # "handling" /\ pc[w] \notin Finishing
    BY <1>4, <1>a, NothingPoppedContinues DEF NothingPopped
  <2> QED
    BY <1>0, <1>4, <1>c, <2>1, ContinuesImplements DEF NothingPopped
<1>5. CASE JobPopped(w)
  <2>0. pc[w] = "got_job" /\ UNCHANGED <<Listed, purged, next_id>>
    BY <1>5, <1>c DEF JobPopped
  <2>1. CASE GiveBack(w, job[w], active_users)
    <3>1. OthersAlone(w) /\ pc'[w] = "requeueing" /\ begun' = begun
      BY <2>1 DEF GiveBack, OthersAlone, Inv, TypeOK
    <3> QED
      BY <1>a, <2>0, <3>1, IdleUnseen DEF Inv
  <2>2. CASE /\ ~Stopping /\ job[w].user \notin active_users
             /\ Handle(w, job[w], active_users)
    <3>1. job[w] \in Claimed
      BY <1>0, <2>0 DEF Inv, QueueInv, HeldInv, Holds
    <3>2. phase = "up"
      BY <1>0, <2>2 DEF Stopping
    <3> QED
      BY <1>a, <2>0, <2>2, <3>1, <3>2, StartsImplements
  <2>3. CASE Suspend(w, "asleep", active_users)
    <3>1. OthersAlone(w) /\ pc'[w] = "asleep" /\ begun' = begun
      BY <2>3 DEF Suspend, OthersAlone, Inv, TypeOK
    <3> QED
      BY <1>a, <2>0, <3>1, IdleUnseen DEF Inv
  <2> QED
    BY <1>5, <2>1, <2>2, <2>3 DEF JobPopped
<1>6. CASE HandlerEnds(w)
  <2>1. /\ OthersAlone(w) /\ pc[w] = "handling" /\ pc'[w] \in Acking /\ job'[w] = job[w]
        /\ UNCHANGED <<begun, purged, next_id>>
    BY <1>6 DEF HandlerEnds, OthersAlone, Inv, TypeOK, Acking
  <2>2. Listed' = Listed
    BY <1>6, <1>c DEF HandlerEnds
  <2>3. pc[w] \notin Finishing /\ pc'[w] \in Finishing /\ pc'[w] # "handling"
    BY <1>b, <2>1 DEF Finishing
  <2>4. Running' = Running \ {job[w]} /\ FinishingJobs' = FinishingJobs \cup {job[w]}
    BY <2>1, <2>3, HandsChange DEF Inv
  <2>5. PICK j \in Running : j = job[w]
    BY <2>1 DEF Running
  <2>6. DurableQueue!End(j)
    BY <2>1, <2>2, <2>4, <2>5 DEF DurableQueue!End, Running, FinishingJobs
  <2>7. \E k \in Running : DurableQueue!End(k)
    BY <2>6
  <2> QED
    BY <2>7 DEF Implements, DurableQueue!Next, Running
<1>7. ASSUME OthersAlone(w), pc[w] \in Finishing, pc'[w] \in Finishing, job'[w] = job[w],
             UNCHANGED <<pending, begun, purged, next_id>>,
             RemoveAcked(w) \/ UNCHANGED processing
      PROVE  Implements
  <2>1. Running' = Running /\ FinishingJobs' = FinishingJobs
    BY <1>b, <1>7, HandsChange DEF Inv
  <2>2. CASE RemoveAcked(w)
    <3>1. job[w] \in Job /\ job[w] \in begun
      BY <1>0, <1>7 DEF Inv, TypeOK, InHand, QueueInv, HeldInv, Busy
    <3>2. Waiting' = Waiting /\ Taken' = Taken \ {job[w]}
      BY <1>7, <2>2, <3>1, RemoveAckedLists DEF Inv, QueueInv
    <3>3. job[w] \notin Waiting
      BY <1>0, <3>1 DEF Inv, QueueInv, HeldInv
    <3>4. Listed' = Listed \ {job[w]}
      BY <3>2, <3>3, ListedParts
    <3>5. PICK j \in FinishingJobs : j = job[w]
      BY <1>7 DEF FinishingJobs
    <3>6. DurableQueue!Forget(j)
      BY <1>7, <2>1, <3>4, <3>5 DEF DurableQueue!Forget, Running, FinishingJobs
    <3> QED
      BY <3>6, FinishingSteps
  <2>3. CASE UNCHANGED processing
    BY <1>7, <1>c, <2>1, <2>3, Unseen
  <2> QED
    BY <1>7, <2>2, <2>3
<1>8. CASE Ack(w)
  <2>1. /\ OthersAlone(w) /\ pc[w] \in Finishing /\ pc'[w] \in Finishing /\ job'[w] = job[w]
        /\ UNCHANGED <<pending, begun, purged, next_id>> /\ RemoveAcked(w)
    BY <1>8 DEF Ack, OthersAlone, Inv, TypeOK, Finishing
  <2> QED
    BY <1>7, <2>1
<1>9. CASE AckFails(w)
  <2>1. \E state \in {"acked", "acked_error", "acking_error"} : pc' = [pc EXCEPT ![w] = state]
    BY <1>9 DEF AckFails, Acking
  <2>2. /\ pc[w] \in Acking /\ UNCHANGED <<pending, begun, purged, next_id, job>>
        /\ RemoveAcked(w) \/ UNCHANGED processing
    BY <1>9 DEF AckFails
  <2>3. OthersAlone(w) /\ pc[w] \in Finishing /\ pc'[w] \in Finishing /\ job'[w] = job[w]
    BY <2>1, <2>2 DEF OthersAlone, Inv, TypeOK, Finishing, Acking
  <2> QED
    BY <1>7, <2>2, <2>3
<1>10. CASE Acked(w)
  <2> DEFINE busy == active_users \ {job[w].user}
  <2>0. pc[w] \in Finishing /\ UNCHANGED <<Listed, purged, next_id>>
    BY <1>10, <1>c DEF Acked, Finishing
  <2>1. ASSUME NEW state \in {"done", "popping_visible", "popping_prefetch", "asleep"},
               Suspend(w, state, busy)
        PROVE  Implements
    <3>1. OthersAlone(w) /\ pc'[w] = state /\ begun' = begun
      BY <2>1 DEF Suspend, OthersAlone, Inv, TypeOK
    <3> QED
      BY <1>a, <2>0, <3>1, ReleaseImplements
  <2>2. ASSUME NEW i \in DOMAIN deferred, deferred[i].user \notin busy, ~Stopping,
               Handle(w, deferred[i], busy)
        PROVE  Implements
    <3>1. deferred[i] \in Claimed
      BY <1>0 DEF Inv, QueueInv, HeldInv, Range
    <3>2. phase = "up"
      BY <1>0, <2>2 DEF Stopping
    <3> QED
      BY <2>0, <2>2, <3>1, <3>2, HandoverImplements
  <2>3. ASSUME NEW i \in DOMAIN deferred,
               GiveBack(w, deferred[i], busy \cup {deferred[i].user})
        PROVE  Implements
    <3>1. OthersAlone(w) /\ pc'[w] = "requeueing" /\ begun' = begun
      BY <2>3 DEF GiveBack, OthersAlone, Inv, TypeOK
    <3> QED
      BY <1>a, <2>0, <3>1, ReleaseImplements
  <2>4. CASE LoopTop(w, busy)
    <3>1. Continues(w, busy)
      BY <2>4, LoopTopContinues
    <3> HIDE DEF busy
    <3> QED
      BY <2>1, <2>2, <2>3, <3>1 DEF Continues
  <2>5. CASE Suspend(w, "asleep", busy)
    BY <2>1, <2>5
  <2> QED
    BY <1>10, <2>4, <2>5 DEF Acked
<1>11. CASE Requeue(w) \/ RequeueFails(w)
  <2>1. /\ pc[w] = "requeueing" /\ Suspend(w, "done", active_users)
        /\ MoveBack(job[w]) \/ UNCHANGED <<pending, processing>>
        /\ UNCHANGED <<purged, next_id>>
    BY <1>11 DEF Requeue, RequeueFails
  <2>2. OthersAlone(w) /\ pc'[w] = "done" /\ begun' = begun
    BY <2>1 DEF Suspend, OthersAlone, Inv, TypeOK
  <2>3. job[w] \in Job
    BY <2>1 DEF Inv, TypeOK, InHand
  <2>4. Listed' = Listed
    BY <1>c, <2>1, <2>3, MoveBackLists, ListedParts DEF Inv, QueueInv
  <2> QED
    BY <1>a, <2>1, <2>2, <2>4, IdleUnseen DEF Inv
<1>12. CASE PopFails(w)
  <2>1. /\ pc[w] \in {"popping_visible", "popping_prefetch", "got_job"}
        /\ Suspend(w, "asleep", active_users)
        /\ UNCHANGED <<pending, processing, purged, next_id>>
    BY <1>12 DEF PopFails
  <2>2. OthersAlone(w) /\ pc'[w] = "asleep" /\ begun' = begun
    BY <2>1 DEF Suspend, OthersAlone, Inv, TypeOK
  <2> QED
    BY <1>a, <1>c, <2>1, <2>2, IdleUnseen DEF Inv
<1> QED
  BY <1>1, <1>2, <1>3, <1>4, <1>5, <1>6, <1>8, <1>9, <1>10, <1>11, <1>12 DEF Turn, Mishap

\* Nobody works any more: Interrupt.
LEMMA InterruptImplements ==
    ASSUME Running' = {}, FinishingJobs' = {}, UNCHANGED <<Listed, begun, purged, next_id>>
    PROVE  Implements
<1>1. DurableQueue!Interrupt
  BY DEF DurableQueue!Interrupt, Running, FinishingJobs
<1> QED
  BY <1>1 DEF Implements, DurableQueue!Next

\* Where no worker is handling or finishing a job, none is being executed.
LEMMA NothingRuns ==
    /\ (\A w \in Workers : pc[w] \in {"fresh", "absent", "done"})
          => Running = {} /\ FinishingJobs = {}
    /\ (\A w \in Workers : pc'[w] \in {"fresh", "absent", "done"})
          => Running' = {} /\ FinishingJobs' = {}
BY DEF Running, FinishingJobs, Finishing, Acking

\* A step of the process is an interruption, a restart or a stutter.
LEMMA ProcessImplements ==
    ASSUME Inv, Process \/ BeginClose \/ ReturnFails \/ Crash
    PROVE  Implements
<1> USE DEF redisVars, boundVars, memoryVars
<1>a. UNCHANGED <<pending, processing>> => Listed' = Listed
  BY DEF Listed
<1>b. UNCHANGED <<pc, job>> => Running' = Running /\ FinishingJobs' = FinishingJobs
  BY DEF Running, FinishingJobs
<1>1. CASE Start
  <2>1. Running = {} /\ FinishingJobs = {}
    BY <1>1, NothingRuns DEF Start, Inv, PhaseInv
  <2>2. Running' = Running /\ FinishingJobs' = FinishingJobs /\ Listed' = Listed
    BY <1>1, <1>a, <1>b DEF Start
  <2>3. begun' = {} /\ UNCHANGED <<purged, next_id>>
    BY <1>1 DEF Start
  <2>4. DurableQueue!Restart
    BY <2>1, <2>2, <2>3 DEF DurableQueue!Restart, Running, FinishingJobs
  <2> QED
    BY <2>4 DEF Implements, DurableQueue!Next
<1>2. ASSUME NEW p \in Priorities, Recover(p) PROVE Implements
  <2>1. PICK j \in Job : Moved(processing, pending, processing', pending', j)
    BY <1>2, RecoverLists DEF Inv, QueueInv
  <2>2. Listed' = Listed
    BY <2>1, ListedParts DEF Moved, Waiting, Taken
  <2> QED
    BY <1>2, <1>b, <2>2, Unseen DEF Recover
<1>3. CASE Recovered
  <2>1. Running = {} /\ FinishingJobs = {} /\ Running' = {} /\ FinishingJobs' = {}
    BY <1>3, NothingRuns DEF Recovered, Inv, PhaseInv
  <2> QED
    BY <1>3, <1>a, <2>1, Unseen DEF Recovered
<1>4. CASE BeginClose
  BY <1>4, <1>a, <1>b, Unseen DEF BeginClose
<1>5. CASE WorkersGone
  <2>1. Running' = {} /\ FinishingJobs' = {}
    BY <1>5, NothingRuns DEF WorkersGone
  <2> QED
    BY <1>5, <1>a, <2>1, InterruptImplements DEF WorkersGone
<1>6. ASSUME active # <<>>, MoveBack(Head(active)) PROVE Listed' = Listed
  <2>1. Head(active) \in Job
    BY <1>6, HeadTailProperties DEF Inv, TypeOK
  <2> QED
    BY <1>6, <2>1, MoveBackLists, ListedParts DEF Inv, QueueInv
<1>7. CASE ReturnActive
  BY <1>6, <1>7, <1>b, Unseen DEF ReturnActive
<1>8. CASE EndClose \/ ReturnFails \/ Crash
  <2>1. MemoryLost /\ Listed' = Listed /\ UNCHANGED <<purged, next_id>>
    BY <1>6, <1>8, <1>a DEF EndClose, ReturnFails, Crash
  <2>2. Running' = {} /\ FinishingJobs' = {} /\ begun' = begun
    BY <2>1, NothingRuns DEF MemoryLost
  <2> QED
    BY <2>1, <2>2, InterruptImplements
<1> QED
  BY <1>1, <1>2, <1>3, <1>4, <1>5, <1>7, <1>8 DEF Process

\* The instance counts as this module does.
LEMMA SameCardinality == \A S : DurableQueue!Cardinality(S) = Cardinality(S)
BY DEF DurableQueue!Cardinality, Cardinality

\* Accept and Purge.
LEMMA CallImplements ==
    ASSUME Inv
    PROVE  /\ \A user \in Users, p \in Priorities : Enqueue(user, p) => Implements
           /\ \A user \in Users : Purge(user) => Implements
<1> USE DEF memoryVars
<1>1. ASSUME NEW user \in Users, NEW p \in Priorities, Enqueue(user, p)
      PROVE  Implements
  <2> DEFINE j == [id |-> next_id, user |-> user, priority |-> p]
  <2>1. \A k \in Listed : k.id < next_id
    BY ListedElements DEF Inv, QueueInv, KnownInv, Waiting, Taken
  <2>2. Waiting' = Waiting \cup {j} /\ Taken' = Taken
    BY <1>1, <2>1, EnqueueLists DEF Inv, QueueInv
  <2>3. Listed' = Listed \cup {j}
    BY <2>2, ListedParts
  <2>4. DurableQueue!Cardinality(Listed) < MaxQueueSize
    BY <1>1, SameCardinality, ApartListedOnce DEF Enqueue, ListedOnce, Inv, QueueInv
  <2>5. /\ UNCHANGED <<pc, job, begun, purged>> /\ next_id' = next_id + 1
        /\ next_id <= MaxJobs
    BY <1>1 DEF Enqueue
  <2>6. Running' = Running /\ FinishingJobs' = FinishingJobs
    BY <2>5 DEF Running, FinishingJobs
  <2>7. DurableQueue!Accept(user, p)
    BY <2>3, <2>4, <2>5, <2>6 DEF DurableQueue!Accept, Running, FinishingJobs
  <2>8. p \in {"user_visible", "prefetch"}
    BY DEF Priorities
  <2> QED
    BY <2>7, <2>8 DEF Implements, DurableQueue!Next
<1>2. ASSUME NEW user \in Users, Purge(user)
      PROVE  Implements
  <2>1. /\ Waiting' = {j \in Waiting : j.user # user}
        /\ Taken' = {j \in Taken : j.user # user}
    BY <1>2, PurgeLists DEF Inv, QueueInv
  <2>2. Listed' = Listed \ {j \in Listed : j.user = user}
    BY <2>1, ListedParts
  <2>3. /\ UNCHANGED <<pc, job, begun, next_id>>
        /\ purged' = purged \cup {j \in Listed : j.user = user}
    BY <1>2 DEF Purge
  <2>4. Running' = Running /\ FinishingJobs' = FinishingJobs
    BY <2>3 DEF Running, FinishingJobs
  <2>5. DurableQueue!Purge(user)
    BY <2>2, <2>3, <2>4 DEF DurableQueue!Purge, Running, FinishingJobs
  <2> QED
    BY <2>5 DEF Implements, DurableQueue!Next
<1> QED
  BY <1>1, <1>2

\* Every step of the queue is a step of DurableQueueSpec, or one it does not see.
LEMMA StepImplements ==
    ASSUME Inv, [Next]_vars
    PROVE  [DurableQueue!Next]_DurableQueue!vars
<1>1. CASE UNCHANGED vars
  <2>1. UNCHANGED <<pending, processing, pc, job, begun, purged, next_id>>
    BY <1>1 DEF vars, redisVars, memoryVars, boundVars
  <2>2. UNCHANGED <<Listed, Running, FinishingJobs, begun, purged, next_id>>
    BY <2>1 DEF Listed, Running, FinishingJobs
  <2> QED
    BY <2>2, Unseen DEF Implements
<1>2. CASE Next
  BY <1>2, CallImplements, TurnImplements, ProcessImplements DEF Next, Implements
<1> QED
  BY <1>1, <1>2

\* The empty queue is an initial state of DurableQueueSpec.
LEMMA InitImplements == Init => DurableQueue!Init
<1> SUFFICES ASSUME Init PROVE DurableQueue!Init
  OBVIOUS
<1>1. Range(<<>>) = {}
  BY DEF Range
<1>2. Listed = {}
  BY <1>1 DEF Init, Listed
<1>3. Running = {} /\ FinishingJobs = {}
  BY NothingRuns DEF Init
<1> QED
  BY <1>2, <1>3 DEF Init, DurableQueue!Init, Running, FinishingJobs

\* The Redis audio queue keeps what it promises its callers, whatever the number of users,
\* workers, jobs, crashes and failed calls: an accepted job is stored until its handler has
\* ended or its user's jobs are purged, one job of a user is executed at a time, and one
\* process starts a job at most once.
THEOREM ImplementsDurableQueueCorrect == Spec => ImplementsDurableQueue
<1>1. Inv /\ [Next]_vars => [DurableQueue!Next]_DurableQueue!vars
  BY StepImplements
<1> QED
  BY <1>1, InitImplements, InvCorrect, PTL DEF Spec, ImplementsDurableQueue, DurableQueue!Spec

------------------------------------------------------------------------------
\* The jobs in the processing lists for which nobody answers.

Acknowledged == {"acked", "acked_error"}

\* A worker that got a job has yet to register it; one that acknowledged a job, executed
\* or not, is about to forget it.
Arriving == {job[w] : w \in {v \in Workers : pc[v] = "got_job"}}
Forgotten == {job[w] : w \in {v \in Workers : pc[v] \in Acknowledged}}
Owned == (Range(active) \ Forgotten) \cup Arriving

\* Each failed call leaves at most one taken job without an owner.
LeakInv == phase \in {"up", "closing"} => Cardinality(Taken \ Owned) <= failures

\* LREM leaves every other entry of a list.
LEMMA WithoutKeeps ==
    ASSUME NEW list \in Seq(Job), NEW j
    PROVE  Range(list) \ {j} \subseteq Range(Without(list, j))
<1>1. CASE j \in Range(list)
  <2>1. PICK i \in DOMAIN list : list[i] = j /\ Without(list, j) = RemoveAt(list, i)
    BY <1>1 DEF Range, Without
  <2>2. /\ DOMAIN RemoveAt(list, i) = 1..(Len(list) - 1)
        /\ \A k \in 1..(Len(list) - 1) :
              RemoveAt(list, i)[k] = IF k < i THEN list[k] ELSE list[k + 1]
    BY RemoveAtFacts
  <2>3. Len(list) \in Nat /\ DOMAIN list = 1..Len(list)
    BY LenProperties
  <2>4. ASSUME NEW x \in Range(list), x # j
        PROVE  \E k \in 1..(Len(list) - 1) : RemoveAt(list, i)[k] = x
    <3>1. PICK n \in 1..Len(list) : list[n] = x
      BY <2>3, <2>4 DEF Range
    <3>2. n # i /\ i \in 1..Len(list)
      BY <2>1, <2>3, <2>4, <3>1
    <3>3. CASE n < i
      <4>1. n \in 1..(Len(list) - 1) /\ RemoveAt(list, i)[n] = list[n]
        BY <2>2, <2>3, <3>2, <3>3
      <4> QED
        BY <3>1, <4>1
    <3>4. CASE ~(n < i)
      <4>1. n - 1 \in 1..(Len(list) - 1) /\ ~(n - 1 < i) /\ (n - 1) + 1 = n
        BY <2>3, <3>2, <3>4
      <4>2. RemoveAt(list, i)[n - 1] = list[n]
        BY <2>2, <4>1
      <4> QED
        BY <3>1, <4>1, <4>2
    <3> QED
      BY <3>3, <3>4
  <2> QED
    BY <2>1, <2>2, <2>4 DEF Range
<1>2. CASE j \notin Range(list)
  BY <1>2 DEF Without
<1> QED
  BY <1>1, <1>2

\* The taken jobs can be counted.
LEMMA TakenFinite ==
    ASSUME TypeOK, Apart(pending, processing)
    PROVE  IsFiniteSet(Taken)
<1>1. \A p \in Priorities : processing[p] \in Seq(Job) /\ IsInjective(processing[p])
  BY DEF TypeOK, Apart
<1>2. \A p \in Priorities : IsFiniteSet(Range(processing[p]))
  BY <1>1, InjectiveLen
<1>3. Taken = Range(processing["user_visible"]) \cup Range(processing["prefetch"])
  BY DEF Taken, Elements, Priorities
<1> QED
  BY <1>2, <1>3, FS_Union DEF Priorities

\* A step that leaves nothing without an owner.
LEMMA LeakStill ==
    ASSUME TypeOK, QueueInv, LeakInv, phase \in {"up", "closing"},
           Taken' \ Owned' \subseteq Taken \ Owned, UNCHANGED failures
    PROVE  LeakInv'
<1>1. IsFiniteSet(Taken \ Owned)
  BY TakenFinite, FS_Difference DEF QueueInv
<1>2. /\ IsFiniteSet(Taken' \ Owned')
      /\ Cardinality(Taken' \ Owned') <= Cardinality(Taken \ Owned)
  BY <1>1, FS_Subset
<1>3. Cardinality(Taken \ Owned) \in Nat /\ Cardinality(Taken' \ Owned') \in Nat
  BY <1>1, <1>2, FS_CardinalityType
<1> QED
  BY <1>2, <1>3 DEF LeakInv, TypeOK

\* A failed call that leaves one job without an owner.
LEMMA LeakMore ==
    ASSUME TypeOK, QueueInv, LeakInv, phase \in {"up", "closing"}, Fails, NEW j,
           Taken' \ Owned' \subseteq (Taken \ Owned) \cup {j}
    PROVE  LeakInv'
<1> DEFINE S == Taken \ Owned
<1>1. IsFiniteSet(S)
  BY TakenFinite, FS_Difference DEF QueueInv
<1>2. IsFiniteSet(S \cup {j}) /\ Cardinality(S \cup {j}) <= Cardinality(S) + 1
      /\ Cardinality(S) \in Nat
  BY <1>1, FS_AddElement, FS_CardinalityType
<1>3. /\ IsFiniteSet(Taken' \ Owned')
      /\ Cardinality(Taken' \ Owned') <= Cardinality(S \cup {j})
  BY <1>2, FS_Subset
<1>4. Cardinality(S \cup {j}) \in Nat /\ Cardinality(Taken' \ Owned') \in Nat
  BY <1>2, <1>3, FS_CardinalityType
<1>5. Cardinality(S) <= failures /\ failures \in Nat /\ failures' = failures + 1
  BY DEF LeakInv, TypeOK, Fails
<1> HIDE DEF S
<1>6. Cardinality(Taken' \ Owned') <= failures'
  BY <1>2, <1>3, <1>4, <1>5
<1> QED
  BY <1>6 DEF LeakInv

\* What one worker does to the owners: the jobs in `gone` may lose theirs.
LEMMA OwnedStill ==
    ASSUME NEW w \in Workers, OthersAlone(w), NEW gone,
           pc'[w] \in Acknowledged => job'[w] \in gone,
           pc[w] = "got_job" => job[w] \in gone,
           Range(active) \ (Forgotten \cup gone) \subseteq Range(active')
    PROVE  Owned \ gone \subseteq Owned'
<1> SUFFICES ASSUME NEW j \in Owned, j \notin gone
             PROVE  j \in Owned'
  OBVIOUS
<1>1. CASE j \in Arriving
  <2>1. PICK v \in Workers : pc[v] = "got_job" /\ job[v] = j
    BY <1>1 DEF Arriving
  <2>2. v # w
    BY <2>1
  <2>3. pc'[v] = "got_job" /\ job'[v] = j
    BY <2>1, <2>2 DEF OthersAlone
  <2> QED
    BY <2>3 DEF Owned, Arriving
<1>2. CASE j \in Range(active) \ Forgotten
  <2>1. j \in Range(active')
    BY <1>2
  <2>2. ASSUME NEW v \in Workers, pc'[v] \in Acknowledged, job'[v] = j
        PROVE  FALSE
    <3>1. v # w
      BY <2>2
    <3>2. pc[v] \in Acknowledged /\ job[v] = j
      BY <2>2, <3>1 DEF OthersAlone
    <3> QED
      BY <1>2, <3>2 DEF Forgotten
  <2>3. j \notin Forgotten'
    BY <2>2 DEF Forgotten
  <2> QED
    BY <2>1, <2>3 DEF Owned
<1> QED
  BY <1>1, <1>2 DEF Owned

\* Between two suspensions a worker acknowledges nothing and registers nothing.
LEMMA ContinuesOwns ==
    ASSUME TypeOK, NEW w \in Workers, NEW busy, Continues(w, busy)
    PROVE  OthersAlone(w) /\ pc'[w] \notin Acknowledged
<1>1. pc \in [Workers -> WorkerStates] /\ job \in [Workers -> Job \cup {NoJob}]
  BY DEF TypeOK
<1>2. ASSUME NEW state \in {"done", "popping_visible", "popping_prefetch"},
             Suspend(w, state, busy)
      PROVE  OthersAlone(w) /\ pc'[w] \notin Acknowledged
  BY <1>1, <1>2 DEF Suspend, OthersAlone, Acknowledged
<1>3. ASSUME NEW j, NEW b, Handle(w, j, b) \/ GiveBack(w, j, b)
      PROVE  OthersAlone(w) /\ pc'[w] \notin Acknowledged
  BY <1>1, <1>3 DEF Handle, GiveBack, OthersAlone, Acknowledged
<1> QED
  BY <1>2, <1>3 DEF Continues

\* The turns that touch neither the processing lists nor the register.
LEMMA QuietTurnLeaks ==
    ASSUME TypeOK, QueueInv, LeakInv, phase \in {"up", "closing"}, NEW w \in Workers,
           Resume(w) \/ PopTimesOut(w) \/ NothingPopped(w) \/ HandlerEnds(w)
    PROVE  LeakInv'
<1>1. OthersAlone(w) /\ pc'[w] \notin Acknowledged /\ pc[w] # "got_job"
  <2>1. CASE Resume(w)
    BY <2>1, LoopTopContinues, ContinuesOwns DEF Resume
  <2>2. CASE PopTimesOut(w)
    BY <2>2 DEF PopTimesOut, OthersAlone, Acknowledged, TypeOK
  <2>3. CASE NothingPopped(w)
    BY <2>3, NothingPoppedContinues, ContinuesOwns DEF NothingPopped
  <2>4. CASE HandlerEnds(w)
    BY <2>4 DEF HandlerEnds, OthersAlone, Acknowledged, TypeOK
  <2> QED
    BY <2>1, <2>2, <2>3, <2>4
<1>2. UNCHANGED <<pending, processing, active, failures>>
  BY DEF Resume, PopTimesOut, NothingPopped, HandlerEnds, redisVars
<1>3. Owned \ {} \subseteq Owned'
  BY <1>1, <1>2, OwnedStill
<1>4. Taken' = Taken
  BY <1>2, SameLists
<1> QED
  BY <1>2, <1>3, <1>4, LeakStill

\* A job is taken for the worker whose reply is on the way, and registered on arrival.
LEMMA PopLeaks ==
    ASSUME TypeOK, QueueInv, LeakInv, phase \in {"up", "closing"}, NEW w \in Workers,
           ServePop(w) \/ JobPopped(w)
    PROVE  LeakInv'
<1>1. CASE ServePop(w)
  <2>1. Taken' = Taken \cup {job'[w]}
    BY <1>1, ServePopLists DEF QueueInv, Moved, Taken
  <2>2. OthersAlone(w) /\ pc'[w] = "got_job" /\ pc[w] # "got_job"
        /\ UNCHANGED <<active, failures>>
    BY <1>1 DEF ServePop, OthersAlone, TypeOK
  <2>3. Owned \ {} \subseteq Owned'
    BY <2>2, OwnedStill DEF Acknowledged
  <2>4. job'[w] \in Owned'
    BY <2>2 DEF Owned, Arriving
  <2> QED
    BY <2>1, <2>2, <2>3, <2>4, LeakStill
<1>2. CASE JobPopped(w)
  <2>1. /\ OthersAlone(w) /\ pc'[w] \notin Acknowledged /\ pc[w] = "got_job"
        /\ UNCHANGED <<pending, processing, failures>>
    BY <1>2 DEF JobPopped, Handle, GiveBack, Suspend, OthersAlone, TypeOK, Acknowledged,
       redisVars
  <2>2. job[w] \in Job
    BY <2>1 DEF TypeOK, InHand
  <2>3. Range(active') = Range(active) \cup {job[w]}
    BY <1>2, <2>2, AppendFacts DEF JobPopped, TypeOK
  <2>4. Owned \ {job[w]} \subseteq Owned'
    BY <2>1, <2>3, OwnedStill
  <2>5. ASSUME NEW v \in Workers, pc'[v] \in Acknowledged, job'[v] = job[w]
        PROVE  FALSE
    <3>1. v # w
      BY <2>1, <2>5
    <3>2. pc[v] \in Acknowledged /\ job[v] = job[w]
      BY <2>1, <2>5, <3>1 DEF OthersAlone
    <3>3. v \in Busy /\ Holds(w)
      BY <2>1, <3>2 DEF Busy, Holds, Finishing, Acknowledged
    <3>4. job[v] \in begun /\ job[w] \notin begun
      BY <3>3 DEF QueueInv, HeldInv, Claimed
    <3> QED
      BY <3>2, <3>4
  <2>6. job[w] \in Owned'
    BY <2>3, <2>5 DEF Owned, Forgotten
  <2>7. Taken' = Taken
    BY <2>1, SameLists
  <2> QED
    BY <2>1, <2>4, <2>6, <2>7, LeakStill
<1> QED
  BY <1>1, <1>2

\* An acknowledged job is out of the processing list before it is forgotten.
LEMMA AckLeaks ==
    ASSUME TypeOK, QueueInv, LeakInv, phase \in {"up", "closing"}, NEW w \in Workers,
           Ack(w) \/ Acked(w)
    PROVE  LeakInv'
<1>1. CASE Ack(w)
  <2>1. /\ OthersAlone(w) /\ job'[w] = job[w] /\ pc[w] \in Acking
        /\ UNCHANGED <<pending, active, failures>> /\ RemoveAcked(w)
    BY <1>1 DEF Ack, OthersAlone, TypeOK
  <2>2. job[w] \in Job
    BY <2>1 DEF TypeOK, InHand, Finishing
  <2>3. Taken' = Taken \ {job[w]}
    BY <2>1, <2>2, RemoveAckedLists DEF QueueInv
  <2>4. pc[w] # "got_job"
    BY <2>1 DEF Acking
  <2>5. Owned \ {job[w]} \subseteq Owned'
    BY <2>1, <2>4, OwnedStill
  <2> QED
    BY <2>1, <2>3, <2>5, LeakStill
<1>2. CASE Acked(w)
  <2> DEFINE busy == active_users \ {job[w].user}
  <2>1. /\ pc[w] \in Acknowledged /\ UNCHANGED <<pending, processing, failures>>
        /\ active' = Without(active, job[w])
    BY <1>2 DEF Acked, Acknowledged, redisVars
  <2>2. OthersAlone(w) /\ pc'[w] \notin Acknowledged
    <3>1. CASE LoopTop(w, busy)
      BY <3>1, LoopTopContinues, ContinuesOwns
    <3>2. CASE Suspend(w, "asleep", busy)
      BY <3>2 DEF Suspend, OthersAlone, TypeOK, Acknowledged
    <3> QED
      BY <1>2, <3>1, <3>2 DEF Acked
  <2>3. job[w] \in Forgotten /\ pc[w] # "got_job"
    BY <2>1 DEF Forgotten, Acknowledged
  <2>4. Range(active) \ {job[w]} \subseteq Range(active')
    BY <2>1, WithoutKeeps DEF TypeOK
  <2>5. Owned \ {} \subseteq Owned'
    BY <2>2, <2>3, <2>4, OwnedStill
  <2>6. Taken' = Taken
    BY <2>1, SameLists
  <2> QED
    BY <2>1, <2>5, <2>6, LeakStill
<1> QED
  BY <1>1, <1>2

\* A job that is given back is taken no longer.
LEMMA RequeueLeaks ==
    ASSUME TypeOK, QueueInv, LeakInv, phase \in {"up", "closing"}, NEW w \in Workers, Requeue(w)
    PROVE  LeakInv'
<1>1. /\ pc[w] = "requeueing" /\ MoveBack(job[w]) /\ active' = Without(active, job[w])
      /\ Suspend(w, "done", active_users) /\ UNCHANGED failures
  BY DEF Requeue
<1>2. job[w] \in Job
  BY <1>1 DEF TypeOK, InHand
<1>3. Taken' \subseteq Taken \ {job[w]}
  BY <1>1, <1>2, MoveBackLists DEF QueueInv
<1>4. OthersAlone(w) /\ pc'[w] \notin Acknowledged
  BY <1>1 DEF Suspend, OthersAlone, TypeOK, Acknowledged
<1>5. Range(active) \ {job[w]} \subseteq Range(active')
  BY <1>1, WithoutKeeps DEF TypeOK
<1>6. Owned \ {job[w]} \subseteq Owned'
  BY <1>1, <1>4, <1>5, OwnedStill
<1> QED
  BY <1>1, <1>3, <1>6, LeakStill

\* A failed call leaves one job at most without an owner.
LEMMA MishapLeaks ==
    ASSUME TypeOK, QueueInv, LeakInv, phase \in {"up", "closing"}, NEW w \in Workers, Mishap(w)
    PROVE  LeakInv'
<1>1. Fails /\ active' = active
  BY DEF Mishap, PopFails, AckFails, RequeueFails
<1>2. Taken' \subseteq Taken
  <2>1. CASE PopFails(w)
    BY <2>1, SameLists DEF PopFails, redisVars
  <2>2. CASE AckFails(w)
    <3>1. job[w] \in Job /\ UNCHANGED pending
      BY <2>2 DEF AckFails, TypeOK, InHand, Finishing
    <3>2. CASE RemoveAcked(w)
      BY <3>1, <3>2, RemoveAckedLists DEF QueueInv
    <3>3. CASE UNCHANGED processing
      BY <3>1, <3>3, SameLists
    <3> QED
      BY <2>2, <3>2, <3>3 DEF AckFails
  <2>3. CASE RequeueFails(w)
    <3>1. job[w] \in Job
      BY <2>3 DEF RequeueFails, TypeOK, InHand
    <3>2. CASE MoveBack(job[w])
      BY <3>1, <3>2, MoveBackLists DEF QueueInv
    <3>3. CASE UNCHANGED redisVars
      BY <3>3, SameLists DEF redisVars
    <3> QED
      BY <2>3, <3>2, <3>3 DEF RequeueFails
  <2> QED
    BY <2>1, <2>2, <2>3 DEF Mishap
<1>3. OthersAlone(w) /\ (pc'[w] \in Acknowledged => job'[w] = job[w])
  <2>1. CASE PopFails(w) \/ RequeueFails(w)
    BY <2>1 DEF PopFails, RequeueFails, Suspend, OthersAlone, TypeOK, Acknowledged
  <2>2. CASE AckFails(w)
    BY <2>2 DEF AckFails, OthersAlone, TypeOK
  <2> QED
    BY <2>1, <2>2 DEF Mishap
<1>4. Owned \ {job[w]} \subseteq Owned'
  BY <1>1, <1>3, OwnedStill
<1> QED
  BY <1>1, <1>2, <1>4, LeakMore

\* Every step keeps the bound.
LEMMA LeakStep ==
    ASSUME TypeOK, PhaseInv, QueueInv, LeakInv, [Next]_vars
    PROVE  LeakInv'
<1> USE DEF redisVars, boundVars, memoryVars
<1>1. CASE UNCHANGED vars
  BY <1>1 DEF vars, LeakInv, Owned, Arriving, Forgotten, Taken, Elements
<1>2. ASSUME NEW user \in Users, NEW p \in Priorities, Enqueue(user, p)
      PROVE  LeakInv'
  <2>1. UNCHANGED <<processing, active, pc, job, phase, failures>>
    BY <1>2 DEF Enqueue
  <2> QED
    BY <2>1 DEF LeakInv, Owned, Arriving, Forgotten, Taken, Elements
<1>3. ASSUME NEW user \in Users, Purge(user)
      PROVE  LeakInv'
  <2>1. UNCHANGED <<active, pc, job, phase, failures>>
    BY <1>3 DEF Purge
  <2>2. Taken' \subseteq Taken
    BY <1>3, PurgeLists DEF QueueInv
  <2>3. Owned' = Owned
    BY <2>1 DEF Owned, Arriving, Forgotten
  <2>4. CASE phase \in {"up", "closing"}
    BY <2>1, <2>2, <2>3, <2>4, LeakStill
  <2>5. CASE phase \notin {"up", "closing"}
    BY <2>1, <2>5 DEF LeakInv
  <2> QED
    BY <2>4, <2>5
<1>4. ASSUME NEW w \in Workers, Turn(w) \/ Mishap(w)
      PROVE  LeakInv'
  <2>1. phase \in {"up", "closing"}
    BY <1>4, WorkersRunWhileUp DEF TypeOK
  <2> QED
    BY <1>4, <2>1, QuietTurnLeaks, PopLeaks, AckLeaks, RequeueLeaks, MishapLeaks DEF Turn
<1>5. CASE Recovered
  <2>1. Taken' = {}
    BY <1>5 DEF Recovered, Taken, Elements, Range
  <2>2. Taken' \ Owned' = {}
    BY <2>1
  <2>3. Cardinality(Taken' \ Owned') = 0
    BY <2>2, FS_EmptySet
  <2>4. failures' \in Nat
    BY <1>5 DEF Recovered, TypeOK
  <2> QED
    BY <2>3, <2>4 DEF LeakInv
<1>6. CASE BeginClose
  <2>1. UNCHANGED <<processing, active, pc, job, failures>> /\ phase = "up"
    BY <1>6 DEF BeginClose
  <2> QED
    BY <2>1 DEF LeakInv, Owned, Arriving, Forgotten, Taken, Elements
<1>7. CASE \/ Start \/ (\E p \in Priorities : Recover(p)) \/ WorkersGone \/ ReturnActive
           \/ EndClose \/ ReturnFails \/ Crash
  <2>1. phase' \notin {"up", "closing"}
    BY <1>7 DEF Start, Recover, WorkersGone, ReturnActive, EndClose, ReturnFails, Crash, MemoryLost
  <2> QED
    BY <2>1 DEF LeakInv
<1> QED
  BY <1>1, <1>2, <1>3, <1>4, <1>5, <1>6, <1>7 DEF Next, Process

\* While a process is up, all but one processing job for each failed call is registered as
\* active or on its way to a worker, whatever the number of users, workers, jobs, crashes and
\* failures.
THEOREM LeakBoundedCorrect == Spec => []LeakBounded
<1>1. Init => LeakInv
  BY DEF Init, LeakInv
<1>2. Inv /\ LeakInv /\ [Next]_vars => LeakInv'
  BY LeakStep DEF Inv
<1>3. Inv /\ LeakInv => LeakBounded
  <2> SUFFICES ASSUME Inv, LeakInv, phase \in {"up", "closing"}
               PROVE  Cardinality(Taken \ (Range(active) \cup Arriving)) <= failures
    BY DEF LeakBounded, Taken, Elements, Arriving
  <2>1. IsFiniteSet(Taken \ Owned) /\ failures \in Nat
    <3>1. IsFiniteSet(Taken)
      BY TakenFinite DEF Inv, QueueInv
    <3>2. IsFiniteSet(Taken \ Owned)
      BY <3>1, FS_Difference
    <3>3. failures \in Nat
      BY DEF Inv, TypeOK
    <3> QED
      BY <3>2, <3>3
  <2>2. Taken \ (Range(active) \cup Arriving) \subseteq Taken \ Owned
    BY DEF Owned
  <2>3. /\ IsFiniteSet(Taken \ (Range(active) \cup Arriving))
        /\ Cardinality(Taken \ (Range(active) \cup Arriving)) <= Cardinality(Taken \ Owned)
    BY <2>1, <2>2, FS_Subset
  <2>4. /\ Cardinality(Taken \ (Range(active) \cup Arriving)) \in Nat
        /\ Cardinality(Taken \ Owned) \in Nat
    BY <2>1, <2>3, FS_CardinalityType
  <2> QED
    BY <2>1, <2>3, <2>4 DEF LeakInv
<1> QED
  BY <1>1, <1>2, <1>3, InvCorrect, PTL DEF Spec
=============================================================================
