----------------------- MODULE MemoryAudioQueueProofs -----------------------
(***************************************************************************)
(* Proofs about MemoryAudioQueue.  A turn of a worker is first reduced to  *)
(* what it does with the job it picks (TurnCases); each invariant is then  *)
(* proved for those cases.                                                 *)
(***************************************************************************)
EXTENDS MemoryAudioQueue, SequenceLemmas

------------------------------------------------------------------------------
\* What one turn of a worker does.

\* The reservations and counters the worker finds once its last job has ended.
LeftBy(w) == IF pc[w] = "running" THEN ReleasedBy(job[w]) ELSE Released

RunsDeferred(w, i) ==
    /\ i \in DOMAIN deferred
    /\ deferred[i].user \notin LeftBy(w).users
    /\ OldestOfItsUser(i)
    /\ Run(w, deferred[i], LeftBy(w))
    /\ deferred' = RemoveAt(deferred, i)
    /\ UNCHANGED <<queue, pending_user_visible>>

PopsQueue(p) ==
    /\ queue[p] # <<>>
    /\ queue' = [queue EXCEPT ![p] = Tail(@)]
    /\ pending_user_visible' = IF p = "user_visible" THEN Decrement(pending_user_visible)
                                                     ELSE pending_user_visible

RunsQueued(w, p) ==
    /\ PopsQueue(p)
    /\ Head(queue[p]).user \notin LeftBy(w).users
    /\ Run(w, Head(queue[p]), LeftBy(w))
    /\ UNCHANGED deferred

Defers(w, p) ==
    /\ PopsQueue(p)
    /\ Head(queue[p]).user \in LeftBy(w).users
    /\ deferred' = Append(deferred, Head(queue[p]))
    /\ \E s \in {"asleep_visible", "asleep_prefetch"} : Suspend(w, s, LeftBy(w))

Waits(w) ==
    /\ Suspend(w, "waiting", LeftBy(w))
    /\ UNCHANGED <<queue, deferred, pending_user_visible>>

Picks(w) ==
    \/ \E i \in DOMAIN deferred : RunsDeferred(w, i)
    \/ \E p \in Priorities : RunsQueued(w, p) \/ Defers(w, p)
    \/ Waits(w)

\* When a job of user-visible priority stays set aside although its user is free,
\* the turn has run one of them.
SkipsNoVisible(w) ==
    (pc[w] = "running" /\ FreeDeferred("user_visible", LeftBy(w).users) # {})
    => \E i \in FreeDeferred("user_visible", LeftBy(w).users) : RunsDeferred(w, i)

\* The four places a scan looks at belong to the two priorities.
LEMMA PriorityOfIsPriority ==
    \A s \in 1..4 : PriorityOf(s) \in Priorities
BY DEF PriorityOf, Priorities

\* A source that offers a job is served in one of the three ways.
LEMMA ServeCases ==
    ASSUME TypeOK, NEW w \in Workers, NEW from \in 1..4,
           NEW s \in FirstOffer(from, LeftBy(w).users), Serve(w, s, LeftBy(w))
    PROVE  /\ Picks(w)
           /\ (from = 1 /\ FreeDeferred("user_visible", LeftBy(w).users) # {})
                => \E i \in FreeDeferred("user_visible", LeftBy(w).users) : RunsDeferred(w, i)
<1> DEFINE rel == LeftBy(w)
           p == PriorityOf(s)
<1>1. s \in from..4 /\ s \in 1..4 /\ Offers(s, rel.users)
      /\ \A r \in from..(s - 1) : ~Offers(r, rel.users)
  BY DEF FirstOffer, QueuedPrefetch
<1>2. p \in Priorities
  BY <1>1, PriorityOfIsPriority
<1>3. ASSUME s \in {DeferredVisible, DeferredPrefetch}
      PROVE  \E i \in FreeDeferred(p, rel.users) : RunsDeferred(w, i)
  BY <1>3 DEF Serve, TakeDeferred, FreeDeferred, RunsDeferred
<1>4. ASSUME s \notin {DeferredVisible, DeferredPrefetch}
      PROVE  RunsQueued(w, p) \/ Defers(w, p)
  <2>1. queue[p] # <<>>
    BY <1>1, <1>4 DEF Offers
  <2>2. TakeQueued(w, p, rel)
    BY <1>4 DEF Serve
  <2>3. PopsQueue(p)
    BY <2>1, <2>2 DEF TakeQueued, PopsQueue
  <2>4. CASE Head(queue[p]).user \notin rel.users
    BY <2>2, <2>3, <2>4 DEF TakeQueued, RunsQueued
  <2>5. CASE Head(queue[p]).user \in rel.users
    BY <2>2, <2>3, <2>5 DEF TakeQueued, Defers
  <2> QED
    BY <2>4, <2>5
<1>5. Picks(w)
  BY <1>2, <1>3, <1>4 DEF Picks, FreeDeferred
<1>6. ASSUME from = 1, FreeDeferred("user_visible", rel.users) # {}
      PROVE  \E i \in FreeDeferred("user_visible", rel.users) : RunsDeferred(w, i)
  <2>1. Offers(1, rel.users)
    BY <1>6 DEF Offers, PriorityOf, DeferredVisible
  <2>2. s = 1
    BY <1>1, <1>6, <2>1
  <2> QED
    BY <2>2, <1>3 DEF DeferredVisible, PriorityOf
<1> QED
  BY <1>5, <1>6

\* A scan that finds nothing to offer saw no ready user-visible job among the deferred ones.
LEMMA WaitsCases ==
    ASSUME NEW w \in Workers, FirstOffer(1, LeftBy(w).users) = {}
    PROVE  FreeDeferred("user_visible", LeftBy(w).users) = {}
<1> SUFFICES ASSUME FreeDeferred("user_visible", LeftBy(w).users) # {}
             PROVE  1 \in FirstOffer(1, LeftBy(w).users)
  OBVIOUS
<1> QED
  BY DEF FirstOffer, Offers, PriorityOf, DeferredVisible, QueuedPrefetch

\* The scan of a worker, wherever it begins, ends in one of the four ways.
LEMMA ScanCases ==
    ASSUME TypeOK, NEW w \in Workers, NEW from \in 1..4, ScanFrom(w, from, LeftBy(w))
    PROVE  /\ Picks(w)
           /\ (from = 1 /\ FreeDeferred("user_visible", LeftBy(w).users) # {})
                => \E i \in FreeDeferred("user_visible", LeftBy(w).users) : RunsDeferred(w, i)
<1> DEFINE rel == LeftBy(w)
<1>1. CASE \E s \in FirstOffer(from, rel.users) : Serve(w, s, rel)
  BY <1>1, ServeCases
<1>2. CASE /\ FirstOffer(from, rel.users) = {}
           /\ enqueue_event
           /\ ScanOrWait(w, rel)
  <2>1. CASE \E s \in FirstOffer(1, rel.users) : Serve(w, s, rel)
    BY <2>1, ServeCases
  <2>2. CASE FirstOffer(1, rel.users) = {} /\ Waits(w)
    BY <2>2, WaitsCases DEF Picks
  <2> QED
    BY <1>2, <2>1, <2>2 DEF ScanOrWait, DeferredVisible, Waits
<1>3. CASE /\ FirstOffer(from, rel.users) = {}
           /\ Waits(w)
  BY <1>3, WaitsCases DEF Picks
<1> QED
  BY <1>1, <1>2, <1>3 DEF ScanFrom, Waits

\* Every turn of a worker picks a job or waits, and leaves the rest of the queue alone.
LEMMA TurnCases ==
    ASSUME TypeOK, NEW w \in Workers, Turn(w)
    PROVE  /\ Picks(w)
           /\ SkipsNoVisible(w)
           /\ UNCHANGED <<next_id, closeVars>>
           /\ enqueue_event' \in BOOLEAN
           /\ unfinished' \in [Priorities -> Nat]
<1> USE DEF DeferredVisible, QueuedVisible, DeferredPrefetch, QueuedPrefetch
<1>0. ASSUME NEW from \in 1..4, ScanFrom(w, from, LeftBy(w))
      PROVE  enqueue_event' \in BOOLEAN
  BY <1>0 DEF ScanFrom, TypeOK
<1>1. CASE Begin(w)
  <2>1. LeftBy(w) = Released /\ ScanFrom(w, 1, LeftBy(w)) /\ pc[w] # "running"
    BY <1>1 DEF Begin, LeftBy
  <2> QED
    BY <1>0, <1>1, <2>1, ScanCases DEF Begin, SkipsNoVisible, TypeOK
<1>2. CASE Wake(w)
  <2>1. LeftBy(w) = Released /\ ScanOrWait(w, LeftBy(w)) /\ pc[w] # "running"
    BY <1>2 DEF Wake, LeftBy
  <2>2. ASSUME NEW s \in FirstOffer(1, LeftBy(w).users), Serve(w, s, LeftBy(w))
        PROVE  Picks(w)
    BY <2>2, ServeCases
  <2>3. Waits(w) => Picks(w)
    BY DEF Picks
  <2>4. Picks(w)
    BY <2>1, <2>2, <2>3 DEF ScanOrWait, Waits
  <2> QED
    BY <1>2, <2>1, <2>4 DEF Wake, SkipsNoVisible, TypeOK
<1>3. CASE Resume(w)
  <2>1. LeftBy(w) = Released /\ pc[w] # "running"
        /\ \E from \in 1..4 : ScanFrom(w, from, LeftBy(w))
    BY <1>3 DEF Resume, LeftBy
  <2> QED
    BY <1>0, <1>3, <2>1, ScanCases DEF Resume, SkipsNoVisible, TypeOK
<1>4. CASE Finish(w)
  <2>1. LeftBy(w) = ReleasedBy(job[w]) /\ ScanFrom(w, 1, LeftBy(w))
    BY <1>4 DEF Finish, LeftBy
  <2>2. unfinished' \in [Priorities -> Nat]
    <3>1. \A n \in Nat : Decrement(n) \in Nat
      BY DEF Decrement
    <3>2. unfinished \in [Priorities -> Nat]
      BY DEF TypeOK
    <3>3. unfinished' = [unfinished EXCEPT ![job[w].priority]
                            = Decrement(unfinished[job[w].priority])]
      BY <1>4 DEF Finish
    <3> QED
      BY <3>1, <3>2, <3>3
  <2> QED
    BY <1>0, <1>4, <2>1, <2>2, ScanCases DEF Finish, SkipsNoVisible
<1> QED
  BY <1>1, <1>2, <1>3, <1>4 DEF Turn

------------------------------------------------------------------------------
\* Type correctness.

\* What a worker leaves behind when its job ends has the types of the counters.
LEMMA LeftByType ==
    ASSUME TypeOK, NEW w \in Workers
    PROVE  /\ LeftBy(w).users \in SUBSET active_users
           /\ LeftBy(w).count \in Nat
           /\ LeftBy(w).visible \in Nat
BY DEF LeftBy, Released, ReleasedBy, Decrement, TypeOK

\* Popping the head of a queue yields a job and keeps the types.
LEMMA PopsQueueType ==
    ASSUME TypeOK, NEW p \in Priorities, PopsQueue(p)
    PROVE  /\ Head(queue[p]) \in Job
           /\ queue' \in [Priorities -> Seq(Job)]
           /\ pending_user_visible' \in Nat
<1>1. queue[p] \in Seq(Job) /\ queue[p] # <<>>
  BY DEF TypeOK, PopsQueue
<1>2. Head(queue[p]) \in Job /\ Tail(queue[p]) \in Seq(Job)
  BY <1>1, HeadTailProperties
<1>3. queue' \in [Priorities -> Seq(Job)]
  BY <1>2 DEF TypeOK, PopsQueue
<1>4. pending_user_visible' \in Nat
  BY DEF TypeOK, PopsQueue, Decrement
<1> QED
  BY <1>2, <1>3, <1>4

\* Starting a job keeps the types of the workers' variables.
LEMMA RunType ==
    ASSUME TypeOK, NEW w \in Workers, NEW j \in Job, Run(w, j, LeftBy(w))
    PROVE  /\ pc' \in [Workers -> WorkerStates]
           /\ job' \in [Workers -> Job \cup {NoJob}]
           /\ \A v \in Workers : pc'[v] = "running" <=> job'[v] # NoJob
           /\ active_users' \in SUBSET Users
           /\ processing' \in Nat
           /\ processing_user_visible' \in Nat
<1>1. j # NoJob /\ j.user \in Users
  BY QueueAssumption DEF Job
<1>2. active_users' \in SUBSET Users
  BY <1>1, LeftByType DEF Run, TypeOK
<1>3. processing' \in Nat /\ processing_user_visible' \in Nat
  BY LeftByType DEF Run, VisibleUnit
<1>4. /\ pc' \in [Workers -> WorkerStates]
      /\ job' \in [Workers -> Job \cup {NoJob}]
      /\ \A v \in Workers : pc'[v] = "running" <=> job'[v] # NoJob
  BY <1>1 DEF Run, TypeOK, WorkerStates
<1> QED
  BY <1>2, <1>3, <1>4

\* Suspending without a job keeps the types of the workers' variables.
LEMMA SuspendType ==
    ASSUME TypeOK, NEW w \in Workers,
           NEW s \in {"waiting", "asleep_visible", "asleep_prefetch"},
           Suspend(w, s, LeftBy(w))
    PROVE  /\ pc' \in [Workers -> WorkerStates]
           /\ job' \in [Workers -> Job \cup {NoJob}]
           /\ \A v \in Workers : pc'[v] = "running" <=> job'[v] # NoJob
           /\ active_users' \in SUBSET Users
           /\ processing' \in Nat
           /\ processing_user_visible' \in Nat
<1>1. active_users' \in SUBSET Users /\ processing' \in Nat /\ processing_user_visible' \in Nat
  BY LeftByType DEF Suspend, TypeOK
<1>2. /\ pc' \in [Workers -> WorkerStates]
      /\ job' \in [Workers -> Job \cup {NoJob}]
      /\ \A v \in Workers : pc'[v] = "running" <=> job'[v] # NoJob
  BY DEF Suspend, TypeOK, WorkerStates
<1> QED
  BY <1>1, <1>2

\* The outcomes of a scan keep the types.
LEMMA PicksType ==
    ASSUME TypeOK, NEW w \in Workers, Picks(w),
           UNCHANGED <<next_id, closeVars>>,
           enqueue_event' \in BOOLEAN, unfinished' \in [Priorities -> Nat]
    PROVE  TypeOK'
<1>1. ASSUME NEW i \in DOMAIN deferred, RunsDeferred(w, i)
      PROVE  TypeOK'
  <2>1. deferred \in Seq(Job) /\ deferred[i] \in Job
    BY ElementOfSeq DEF TypeOK
  <2>2. deferred' \in Seq(Job)
    BY <1>1, <2>1, RemoveAtFacts DEF RunsDeferred
  <2>3. queue' \in [Priorities -> Seq(Job)] /\ pending_user_visible' \in Nat
    BY <1>1 DEF RunsDeferred, TypeOK
  <2>4. Run(w, deferred[i], LeftBy(w))
    BY <1>1 DEF RunsDeferred
  <2> QED
    BY <2>1, <2>2, <2>3, <2>4, RunType DEF TypeOK, closeVars
<1>2. ASSUME NEW p \in Priorities, RunsQueued(w, p)
      PROVE  TypeOK'
  BY <1>2, PopsQueueType, RunType DEF RunsQueued, TypeOK, closeVars
<1>3. ASSUME NEW p \in Priorities, Defers(w, p)
      PROVE  TypeOK'
  <2>1. deferred' \in Seq(Job)
    BY <1>3, PopsQueueType, AppendProperties DEF Defers, TypeOK
  <2>2. PICK s \in {"asleep_visible", "asleep_prefetch"} : Suspend(w, s, LeftBy(w))
    BY <1>3 DEF Defers
  <2>3. PopsQueue(p)
    BY <1>3 DEF Defers
  <2> QED
    BY <2>1, <2>2, <2>3, PopsQueueType, SuspendType DEF TypeOK, closeVars
<1>4. CASE Waits(w)
  BY <1>4, SuspendType DEF Waits, TypeOK, closeVars
<1> QED
  BY <1>1, <1>2, <1>3, <1>4 DEF Picks

\* An accepted job is appended to the queue of its priority.
LEMMA EnqueueType ==
    ASSUME TypeOK, NEW user \in Users, NEW priority \in Priorities, Enqueue(user, priority)
    PROVE  TypeOK'
<1> DEFINE j == [id |-> next_id, user |-> user, priority |-> priority]
<1>1. next_id \in 1..MaxJobs /\ next_id' \in 1..(MaxJobs + 1)
  BY QueueAssumption DEF TypeOK, Enqueue
<1>2. j \in Job
  BY <1>1 DEF Job
<1>3. queue' \in [Priorities -> Seq(Job)]
  <2>1. Append(queue[priority], j) \in Seq(Job)
    BY <1>2, AppendProperties DEF TypeOK
  <2> QED
    BY <2>1 DEF TypeOK, Enqueue
<1>4. unfinished' \in [Priorities -> Nat] /\ pending_user_visible' \in Nat
  BY DEF TypeOK, Enqueue, VisibleUnit
<1>5. /\ pc' \in [Workers -> WorkerStates]
      /\ \A w \in Workers : pc'[w] = "running" <=> job'[w] # NoJob
  <2>1. \A w \in Workers : /\ WokenWorker(w) \in WorkerStates
                           /\ WokenWorker(w) = "running" <=> pc[w] = "running"
    BY DEF TypeOK, WokenWorker, WorkerStates
  <2>2. pc' = [w \in Workers |-> WokenWorker(w)] /\ UNCHANGED job
    BY DEF Enqueue
  <2> QED
    BY <2>1, <2>2 DEF TypeOK
<1> QED
  BY <1>1, <1>3, <1>4, <1>5 DEF TypeOK, Enqueue, closeVars

\* The reset at shutdown keeps the types.
LEMMA ShutdownType ==
    ASSUME TypeOK, Shutdown
    PROVE  TypeOK'
<1>1. <<>> \in Seq(Job)
  BY EmptySeq
<1>2. queue' \in [Priorities -> Seq(Job)] /\ deferred' \in Seq(Job)
      /\ unfinished' \in [Priorities -> Nat]
  BY <1>1 DEF Shutdown
<1>3. /\ pc' \in [Workers -> WorkerStates]
      /\ job' \in [Workers -> Job \cup {NoJob}]
      /\ \A w \in Workers : pc'[w] = "running" <=> job'[w] # NoJob
  BY DEF Shutdown, WorkerStates
<1> QED
  BY <1>2, <1>3 DEF TypeOK, Shutdown

\* Type correctness is inductive.
LEMMA TypeStep == TypeOK /\ [Next]_vars => TypeOK'
<1> SUFFICES ASSUME TypeOK, [Next]_vars PROVE TypeOK'
  OBVIOUS
<1>1. CASE \E user \in Users, priority \in Priorities : Enqueue(user, priority)
  BY <1>1, EnqueueType
<1>2. CASE \E w \in Workers : Turn(w)
  BY <1>2, TurnCases, PicksType
<1>3. CASE BeginClose
  BY <1>3, QueueAssumption DEF BeginClose, TypeOK, jobVars, workerVars
<1>4. CASE JoinedVisible
  BY <1>4 DEF JoinedVisible, TypeOK, jobVars, workerVars
<1>5. CASE Shutdown
  BY <1>5, ShutdownType
<1>6. CASE UNCHANGED vars
  BY <1>6 DEF vars, TypeOK, jobVars, workerVars, closeVars
<1> QED
  BY <1>1, <1>2, <1>3, <1>4, <1>5, <1>6 DEF Next, Close

\* The types of the empty queue.
LEMMA TypeInitially == Init => TypeOK
<1> SUFFICES ASSUME Init PROVE TypeOK
  OBVIOUS
<1>1. <<>> \in Seq(Job)
  BY EmptySeq
<1>2. next_id \in 1..(MaxJobs + 1) /\ closes \in 0..MaxCloses
  BY QueueAssumption DEF Init
<1>3. /\ pc \in [Workers -> WorkerStates]
      /\ job \in [Workers -> Job \cup {NoJob}]
      /\ \A w \in Workers : pc[w] = "running" <=> job[w] # NoJob
  BY DEF Init, WorkerStates
<1> QED
  BY <1>1, <1>2, <1>3 DEF Init, TypeOK

\* Every variable of the queue keeps its type: the counters never leave Nat, and a
\* worker holds a job exactly while it runs one.
THEOREM TypeCorrect == Spec => []TypeOK
<1> QED
  BY TypeInitially, TypeStep, PTL DEF Spec

------------------------------------------------------------------------------
\* One job per user.

\* A worker that starts a job joins the running ones; the others keep their jobs.
LEMMA RunningAfterRun ==
    ASSUME TypeOK, NEW w \in Workers, NEW j \in Job, Run(w, j, LeftBy(w))
    PROVE  /\ Running' = (Running \ {w}) \cup {w}
           /\ job'[w] = j
           /\ \A v \in Running \ {w} : job'[v] = job[v]
BY DEF TypeOK, Running, Run

\* A worker that suspends leaves the running ones; the others keep their jobs.
LEMMA RunningAfterSuspend ==
    ASSUME TypeOK, NEW w \in Workers,
           NEW s \in {"waiting", "asleep_visible", "asleep_prefetch"},
           Suspend(w, s, LeftBy(w))
    PROVE  /\ Running' = Running \ {w}
           /\ \A v \in Running \ {w} : job'[v] = job[v]
BY DEF TypeOK, Running, Suspend

\* The worker's own job no longer counts among the reservations it leaves.
LEMMA LeftUsers ==
    ASSUME TypeOK, OneJobPerUser, NEW w \in Workers
    PROVE  LeftBy(w).users = {job[v].user : v \in Running \ {w}}
<1>1. CASE pc[w] = "running"
  <2>1. w \in Running /\ LeftBy(w).users = active_users \ {job[w].user}
    BY <1>1 DEF Running, LeftBy, ReleasedBy
  <2> QED
    BY <2>1 DEF OneJobPerUser
<1>2. CASE pc[w] # "running"
  <2>1. w \notin Running /\ LeftBy(w).users = active_users
    BY <1>2 DEF Running, LeftBy, Released
  <2> QED
    BY <2>1 DEF OneJobPerUser
<1> QED
  BY <1>1, <1>2

\* A job of an unreserved user may start.
LEMMA RunKeepsOneJobPerUser ==
    ASSUME TypeOK, OneJobPerUser, NEW w \in Workers, NEW j \in Job,
           j.user \notin LeftBy(w).users, Run(w, j, LeftBy(w))
    PROVE  OneJobPerUser'
<1>1. active_users' = {job[v].user : v \in Running \ {w}} \cup {j.user}
  BY LeftUsers DEF Run
<1>2. \A v \in Running \ {w} : job[v].user # j.user
  BY LeftUsers
<1> QED
  BY <1>1, <1>2, RunningAfterRun DEF OneJobPerUser

\* A worker that suspends gives up exactly its own user.
LEMMA SuspendKeepsOneJobPerUser ==
    ASSUME TypeOK, OneJobPerUser, NEW w \in Workers,
           NEW s \in {"waiting", "asleep_visible", "asleep_prefetch"},
           Suspend(w, s, LeftBy(w))
    PROVE  OneJobPerUser'
<1>1. active_users' = {job[v].user : v \in Running \ {w}}
  BY LeftUsers DEF Suspend
<1> QED
  BY <1>1, RunningAfterSuspend DEF OneJobPerUser

\* No outcome of a scan breaks the serialisation of a user's jobs.
LEMMA PicksKeepsOneJobPerUser ==
    ASSUME TypeOK, OneJobPerUser, NEW w \in Workers, Picks(w)
    PROVE  OneJobPerUser'
<1>1. ASSUME NEW i \in DOMAIN deferred, RunsDeferred(w, i)
      PROVE  OneJobPerUser'
  <2>1. deferred[i] \in Job
    BY ElementOfSeq DEF TypeOK
  <2> QED
    BY <1>1, <2>1, RunKeepsOneJobPerUser DEF RunsDeferred
<1>2. ASSUME NEW p \in Priorities, RunsQueued(w, p)
      PROVE  OneJobPerUser'
  BY <1>2, PopsQueueType, RunKeepsOneJobPerUser DEF RunsQueued
<1>3. ASSUME NEW p \in Priorities, Defers(w, p)
      PROVE  OneJobPerUser'
  BY <1>3, SuspendKeepsOneJobPerUser DEF Defers
<1>4. CASE Waits(w)
  BY <1>4, SuspendKeepsOneJobPerUser DEF Waits
<1> QED
  BY <1>1, <1>2, <1>3, <1>4 DEF Picks

\* OneJobPerUser is inductive with the types.
LEMMA OneJobPerUserStep == TypeOK /\ OneJobPerUser /\ [Next]_vars => OneJobPerUser'
<1> SUFFICES ASSUME TypeOK, OneJobPerUser, [Next]_vars PROVE OneJobPerUser'
  OBVIOUS
<1>1. ASSUME NEW user \in Users, NEW priority \in Priorities, Enqueue(user, priority)
      PROVE  OneJobPerUser'
  <2>1. Running' = Running
    <3>1. \A w \in Workers : WokenWorker(w) = "running" <=> pc[w] = "running"
      BY DEF TypeOK, WokenWorker, WorkerStates
    <3> QED
      BY <1>1, <3>1 DEF Enqueue, Running
  <2> QED
    BY <1>1, <2>1 DEF Enqueue, OneJobPerUser
<1>2. CASE \E w \in Workers : Turn(w)
  BY <1>2, TurnCases, PicksKeepsOneJobPerUser
<1>3. CASE UNCHANGED workerVars
  BY <1>3 DEF OneJobPerUser, workerVars, Running
<1>4. CASE Shutdown
  BY <1>4 DEF OneJobPerUser, Shutdown, Running
<1> QED
  BY <1>1, <1>2, <1>3, <1>4 DEF Next, Close, BeginClose, JoinedVisible, vars

\* Reservations serialise the jobs of a user, for every number of workers and users:
\* no two workers run jobs of one user, and no reservation outlives its job.
THEOREM OneJobPerUserHolds == Spec => []OneJobPerUser
<1>1. Init => OneJobPerUser
  BY DEF Init, OneJobPerUser, Running
<1>2. TypeOK /\ OneJobPerUser /\ [Next]_vars => OneJobPerUser'
  BY OneJobPerUserStep
<1> QED
  BY <1>1, <1>2, TypeCorrect, PTL DEF Spec

------------------------------------------------------------------------------
\* Capacity.  The check in Enqueue adds up lengths and the `processing` counter, so
\* the invariant needs the counter to be the number of running workers.

ProcessingExact == processing = Cardinality(Running)

CapacityInv == ProcessingExact /\ ActiveJobs <= MaxQueueSize

\* The running workers can be counted.
LEMMA RunningFinite == IsFiniteSet(Running) /\ Cardinality(Running) \in Nat
<1>1. IsFiniteSet(Running)
  BY QueueAssumption, FS_Subset DEF Running
<1> QED
  BY <1>1, FS_CardinalityType

\* LeftBy(w).count is the number of the other running workers.
LEMMA LeftCount ==
    ASSUME TypeOK, ProcessingExact, NEW w \in Workers
    PROVE  /\ LeftBy(w).count = Cardinality(Running \ {w})
           /\ LeftBy(w).count \in Nat
           /\ LeftBy(w).count <= processing
           /\ pc[w] # "running" => LeftBy(w).count = processing
<1>1. CASE pc[w] = "running"
  <2>1. w \in Running /\ Cardinality(Running \ {w}) = Cardinality(Running) - 1
    BY <1>1, RunningFinite, FS_RemoveElement DEF Running
  <2>2. processing # 0
    <3> SUFFICES ASSUME processing = 0 PROVE FALSE
      OBVIOUS
    <3>1. Running = {}
      BY RunningFinite, FS_EmptySet DEF ProcessingExact
    <3> QED
      BY <2>1, <3>1
  <2>3. LeftBy(w).count = processing - 1
    BY <1>1, <2>2 DEF LeftBy, ReleasedBy, Decrement
  <2> QED
    BY <1>1, <2>1, <2>2, <2>3, RunningFinite DEF ProcessingExact, TypeOK
<1>2. CASE pc[w] # "running"
  <2>1. Running \ {w} = Running
    BY <1>2 DEF Running
  <2>2. LeftBy(w).count = processing /\ processing \in Nat
    BY <1>2 DEF LeftBy, Released, TypeOK
  <2> QED
    BY <1>2, <2>1, <2>2 DEF ProcessingExact
<1> QED
  BY <1>1, <1>2

\* Starting a job adds one to the counter and to the running workers.
LEMMA RunKeepsProcessing ==
    ASSUME TypeOK, ProcessingExact, NEW w \in Workers, NEW j \in Job,
           Run(w, j, LeftBy(w))
    PROVE  ProcessingExact' /\ processing' = LeftBy(w).count + 1
<1>1. processing' = LeftBy(w).count + 1
  BY DEF Run
<1>2. IsFiniteSet(Running \ {w})
  BY RunningFinite, FS_Subset
<1>3. Cardinality((Running \ {w}) \cup {w}) = Cardinality(Running \ {w}) + 1
  BY <1>2, FS_AddElement
<1> QED
  BY <1>1, <1>3, LeftCount, RunningAfterRun DEF ProcessingExact

\* Suspending adds nothing to either.
LEMMA SuspendKeepsProcessing ==
    ASSUME TypeOK, ProcessingExact, NEW w \in Workers,
           NEW s \in {"waiting", "asleep_visible", "asleep_prefetch"},
           Suspend(w, s, LeftBy(w))
    PROVE  ProcessingExact' /\ processing' = LeftBy(w).count
<1>1. processing' = LeftBy(w).count
  BY DEF Suspend
<1> QED
  BY <1>1, LeftCount, RunningAfterSuspend DEF ProcessingExact

\* The number of jobs in the two asyncio queues.
QueueLength == Len(queue["user_visible"]) + Len(queue["prefetch"])

\* The summands of the capacity test are natural numbers.
LEMMA QueueLengthNat ==
    ASSUME TypeOK
    PROVE  /\ Len(queue["user_visible"]) \in Nat
           /\ Len(queue["prefetch"]) \in Nat
           /\ QueueLength \in Nat
           /\ Len(deferred) \in Nat
           /\ ActiveJobs = QueueLength + Len(deferred) + processing
<1> DEFINE a == Len(queue["user_visible"])
           b == Len(queue["prefetch"])
           d == Len(deferred)
<1>1. a \in Nat /\ b \in Nat /\ d \in Nat /\ processing \in Nat
  BY LenProperties DEF TypeOK, Priorities
<1>2. QueueLength = a + b /\ ActiveJobs = a + b + d + processing
  BY DEF QueueLength, ActiveJobs
<1> HIDE DEF a, b, d
<1>3. QueueLength \in Nat /\ ActiveJobs = QueueLength + d + processing
  BY <1>1, <1>2
<1> QED
  BY <1>1, <1>3 DEF a, b, d

\* Changing the length of one of the two queues by k changes their sum by k.
LEMMA QueueLengthChange ==
    ASSUME TypeOK, NEW p \in Priorities, NEW k \in Int,
           Len(queue'[p]) = Len(queue[p]) + k,
           \A r \in Priorities \ {p} : queue'[r] = queue[r]
    PROVE  QueueLength' = QueueLength + k
<1> DEFINE a == Len(queue["user_visible"])
           b == Len(queue["prefetch"])
           aa == Len(queue'["user_visible"])
           bb == Len(queue'["prefetch"])
<1>1. a \in Nat /\ b \in Nat
  BY QueueLengthNat
<1>2. (aa = a + k /\ bb = b) \/ (aa = a /\ bb = b + k)
  <2>1. CASE p = "user_visible"
    BY <2>1 DEF Priorities
  <2>2. CASE p = "prefetch"
    BY <2>2 DEF Priorities
  <2> QED
    BY <2>1, <2>2 DEF Priorities
<1>3. QueueLength = a + b /\ QueueLength' = aa + bb
  BY DEF QueueLength
<1> HIDE DEF a, b, aa, bb
<1> QED
  BY <1>1, <1>2, <1>3

\* Popping a queue shortens it by one and leaves the other alone.
LEMMA PopsQueueLength ==
    ASSUME TypeOK, NEW p \in Priorities, PopsQueue(p)
    PROVE  QueueLength' = QueueLength + (-1)
<1>1. queue[p] \in Seq(Job) /\ queue[p] # <<>>
  BY DEF TypeOK, PopsQueue
<1>2. Len(Tail(queue[p])) = Len(queue[p]) + (-1)
  BY <1>1, HeadTailProperties, LenProperties
<1>3. queue'[p] = Tail(queue[p]) /\ \A r \in Priorities \ {p} : queue'[r] = queue[r]
  BY DEF PopsQueue, TypeOK
<1>4. -1 \in Int
  OBVIOUS
<1> QED
  BY <1>2, <1>3, <1>4, QueueLengthChange

\* A turn that does not add to the sum keeps it under the bound.
LEMMA SumBound ==
    ASSUME TypeOK, CapacityInv, ProcessingExact', NEW n \in Nat, n <= processing,
           NEW qq, NEW dd, NEW pp,
           QueueLength' = qq, Len(deferred') = dd, processing' = pp,
           qq + dd + pp = QueueLength + Len(deferred) + n,
           qq \in Int, dd \in Int, pp \in Int
    PROVE  CapacityInv'
<1> DEFINE d == Len(deferred)
           e == Len(deferred')
<1>1. /\ ActiveJobs = QueueLength + d + processing /\ ActiveJobs <= MaxQueueSize
      /\ QueueLength \in Nat /\ d \in Nat /\ processing \in Nat /\ MaxQueueSize \in Nat
  BY QueueLengthNat, QueueAssumption DEF TypeOK, CapacityInv
<1>2. ActiveJobs' = Len(queue'["user_visible"]) + Len(queue'["prefetch"]) + e + processing'
      /\ QueueLength' = Len(queue'["user_visible"]) + Len(queue'["prefetch"])
  BY DEF ActiveJobs, QueueLength
<1>3. ActiveJobs' = QueueLength' + e + processing'
  BY <1>2
<1>4. ActiveJobs' = qq + dd + pp
  BY <1>3
<1> HIDE DEF d
<1>5. ActiveJobs' <= MaxQueueSize
  BY <1>1, <1>4 DEF d
<1> QED
  BY <1>5 DEF CapacityInv

\* A scan moves jobs between the places the capacity test counts.
LEMMA PicksKeepsCapacity ==
    ASSUME TypeOK, CapacityInv, NEW w \in Workers, Picks(w)
    PROVE  CapacityInv'
<1> DEFINE q == QueueLength
           d == Len(deferred)
           n == LeftBy(w).count
<1>0. /\ ProcessingExact
      /\ q \in Nat /\ d \in Nat /\ n \in Nat /\ n <= processing
  BY QueueLengthNat, LeftCount DEF CapacityInv
<1>1. ASSUME NEW i \in DOMAIN deferred, RunsDeferred(w, i)
      PROVE  CapacityInv'
  <2>1. deferred \in Seq(Job) /\ deferred[i] \in Job
    BY ElementOfSeq DEF TypeOK
  <2>2. Len(deferred') = d - 1 /\ QueueLength' = q
    BY <1>1, <2>1, RemoveAtFacts DEF RunsDeferred, QueueLength
  <2>3. ProcessingExact' /\ processing' = n + 1
    BY <1>0, <1>1, <2>1, RunKeepsProcessing DEF RunsDeferred
  <2>4. q + (d - 1) + (n + 1) = q + d + n
    <3> HIDE DEF q, d, n
    <3> QED
      BY <1>0
  <2> QED
    BY <1>0, <2>2, <2>3, <2>4, SumBound
<1>2. ASSUME NEW p \in Priorities, RunsQueued(w, p)
      PROVE  CapacityInv'
  <2>1. ProcessingExact' /\ processing' = n + 1
    BY <1>0, <1>2, PopsQueueType, RunKeepsProcessing DEF RunsQueued
  <2>2. QueueLength' = q + (-1) /\ Len(deferred') = d
    BY <1>2, PopsQueueLength DEF RunsQueued
  <2>3. (q + (-1)) + d + (n + 1) = q + d + n
    <3> HIDE DEF q, d, n
    <3> QED
      BY <1>0
  <2> QED
    BY <1>0, <2>1, <2>2, <2>3, SumBound
<1>3. ASSUME NEW p \in Priorities, Defers(w, p)
      PROVE  CapacityInv'
  <2>1. ProcessingExact' /\ processing' = n
    BY <1>0, <1>3, SuspendKeepsProcessing DEF Defers
  <2>2. PopsQueue(p) /\ deferred' = Append(deferred, Head(queue[p]))
    BY <1>3 DEF Defers
  <2>3. Len(deferred') = d + 1 /\ QueueLength' = q + (-1)
    BY <2>2, PopsQueueType, PopsQueueLength, AppendProperties DEF TypeOK
  <2>4. /\ (q + (-1)) + (d + 1) + n = q + d + n
        /\ q + (-1) \in Int /\ d + 1 \in Int /\ n \in Int
    <3> HIDE DEF q, d, n
    <3> QED
      BY <1>0
  <2> QED
    BY <1>0, <2>1, <2>3, <2>4, SumBound
<1>4. CASE Waits(w)
  <2>1. ProcessingExact' /\ processing' = n /\ Len(deferred') = d /\ QueueLength' = q
    BY <1>0, <1>4, SuspendKeepsProcessing DEF Waits, QueueLength
  <2> QED
    BY <1>0, <2>1, SumBound
<1> QED
  BY <1>1, <1>2, <1>3, <1>4 DEF Picks

\* An accepted job found room.
LEMMA EnqueueKeepsCapacity ==
    ASSUME TypeOK, CapacityInv,
           NEW user \in Users, NEW priority \in Priorities, Enqueue(user, priority)
    PROVE  CapacityInv'
<1> DEFINE j == [id |-> next_id, user |-> user, priority |-> priority]
<1>1. Len(Append(queue[priority], j)) = Len(queue[priority]) + 1
  <2>1. j \in [id : {next_id}, user : Users, priority : Priorities]
    OBVIOUS
  <2>2. queue[priority] \in Seq(Job \cup {j})
    BY SeqMonotonic DEF TypeOK
  <2> QED
    BY <2>2, AppendProperties
<1>2. QueueLength' = QueueLength + 1
  <2>1. queue'[priority] = Append(queue[priority], j)
        /\ \A r \in Priorities \ {priority} : queue'[r] = queue[r]
    BY DEF TypeOK, Enqueue
  <2> QED
    BY <1>1, <2>1, QueueLengthChange
<1>3. Running' = Running
  <2>1. \A w \in Workers : WokenWorker(w) = "running" <=> pc[w] = "running"
    BY DEF TypeOK, WokenWorker, WorkerStates
  <2> QED
    BY <2>1 DEF Enqueue, Running
<1>4. UNCHANGED <<deferred, processing>> /\ processing \in Nat /\ ActiveJobs < MaxQueueSize
  BY DEF Enqueue, TypeOK
<1>5. ActiveJobs' = ActiveJobs + 1 /\ ActiveJobs \in Nat
  <2> DEFINE d == Len(deferred)
  <2>1. ActiveJobs = QueueLength + d + processing /\ QueueLength \in Nat /\ d \in Nat
    BY QueueLengthNat
  <2>2. ActiveJobs' = QueueLength' + d + processing
    BY <1>4 DEF ActiveJobs, QueueLength
  <2> HIDE DEF d
  <2> QED
    BY <1>2, <1>4, <2>1, <2>2
<1>6. ActiveJobs' <= MaxQueueSize
  BY <1>4, <1>5, QueueAssumption
<1> QED
  BY <1>3, <1>4, <1>6 DEF CapacityInv, ProcessingExact

\* CapacityInv is inductive with the types.
LEMMA CapacityStep == TypeOK /\ CapacityInv /\ [Next]_vars => CapacityInv'
<1> SUFFICES ASSUME TypeOK, CapacityInv, [Next]_vars PROVE CapacityInv'
  OBVIOUS
<1>1. CASE \E user \in Users, priority \in Priorities : Enqueue(user, priority)
  BY <1>1, EnqueueKeepsCapacity
<1>2. CASE \E w \in Workers : Turn(w)
  BY <1>2, TurnCases, PicksKeepsCapacity
<1>3. CASE UNCHANGED <<jobVars, workerVars>>
  BY <1>3 DEF CapacityInv, ProcessingExact, ActiveJobs, jobVars, workerVars, Running
<1>4. CASE Shutdown
  <2>1. Running' = {}
    BY <1>4 DEF Shutdown, Running
  <2>2. ProcessingExact'
    BY <1>4, <2>1, FS_EmptySet DEF Shutdown, ProcessingExact
  <2>3. ActiveJobs' = 0
    BY <1>4, EmptySeq DEF Shutdown, ActiveJobs, Priorities
  <2> QED
    BY <2>2, <2>3, QueueAssumption DEF CapacityInv
<1> QED
  BY <1>1, <1>2, <1>3, <1>4 DEF Next, Close, BeginClose, JoinedVisible, vars

\* The empty queue is within its capacity.
LEMMA CapacityInitially == Init => CapacityInv
<1> SUFFICES ASSUME Init PROVE CapacityInv
  OBVIOUS
<1>1. Running = {}
  BY DEF Init, Running
<1>2. ActiveJobs = 0
  BY EmptySeq DEF Init, ActiveJobs, Priorities
<1> QED
  BY <1>1, <1>2, FS_EmptySet, QueueAssumption DEF Init, CapacityInv, ProcessingExact

\* The capacity check bounds queued, set-aside and running jobs together, for every
\* capacity and every number of workers.
THEOREM CapacityHolds == Spec => []CapacityRespected
<1>1. CapacityInv => CapacityRespected
  BY DEF CapacityInv, ProcessingExact, CapacityRespected, ActiveJobs
<1> QED
  BY <1>1, CapacityInitially, CapacityStep, TypeCorrect, PTL DEF Spec

------------------------------------------------------------------------------
\* Jobs set aside, and the order of the user-visible jobs of a user.

Q == queue["user_visible"]

Visible(i) == deferred[i].priority = "user_visible"

\* Ids grow along the user-visible queue; what was set aside came out of it earlier.
QueueSorted ==
    /\ \A i, k \in DOMAIN Q : i < k => Q[i].id < Q[k].id
    /\ \A i \in DOMAIN Q : Q[i].id < next_id
    /\ \A p \in Priorities : \A i \in DOMAIN queue[p] : queue[p][i].priority = p

DeferredSorted ==
    /\ \A i, k \in DOMAIN deferred :
          (i < k /\ Visible(i) /\ Visible(k)) => deferred[i].id < deferred[k].id
    /\ \A i \in DOMAIN deferred : \A k \in DOMAIN Q :
          Visible(i) => deferred[i].id < Q[k].id
    /\ \A i \in DOMAIN deferred : Visible(i) => deferred[i].id < next_id

\* A running user-visible job is older than those of its user that wait.
RunningOlder ==
    \A w \in Running : job[w].priority = "user_visible" =>
        /\ \A i \in DOMAIN deferred :
              (Visible(i) /\ deferred[i].user = job[w].user) => job[w].id < deferred[i].id
        /\ \A k \in DOMAIN Q : Q[k].user = job[w].user => job[w].id < Q[k].id
        /\ job[w].id < next_id

OrderInv ==
    /\ OneJobPerUser
    /\ DeferredOnlyWhileBusy
    /\ QueueSorted
    /\ DeferredSorted
    /\ RunningOlder

\* After its turn a worker has left no user-visible job aside whose user is free.
LEMMA NoVisibleLeft ==
    ASSUME TypeOK, OneJobPerUser, DeferredOnlyWhileBusy, NEW w \in Workers,
           Picks(w), SkipsNoVisible(w), NEW k \in DOMAIN deferred, Visible(k)
    PROVE  /\ deferred[k].user \in active_users'
           /\ deferred[k].user \notin LeftBy(w).users => \E i \in DOMAIN deferred : RunsDeferred(w, i)
<1> DEFINE u == deferred[k].user
<1>1. u \in active_users
  BY DEF DeferredOnlyWhileBusy, Visible
<1>2. LeftBy(w).users \subseteq active_users'
  BY DEF Picks, RunsDeferred, RunsQueued, Defers, Waits, Run, Suspend
<1>3. CASE u \notin LeftBy(w).users
  <2>1. pc[w] = "running" /\ \A x \in active_users : x \notin LeftBy(w).users => x = job[w].user
    BY <1>1, <1>3 DEF LeftBy, Released, ReleasedBy
  <2>2. k \in FreeDeferred("user_visible", LeftBy(w).users)
    BY <1>3 DEF FreeDeferred, Visible
  <2>3. PICK i \in FreeDeferred("user_visible", LeftBy(w).users) : RunsDeferred(w, i)
    BY <2>1, <2>2 DEF SkipsNoVisible
  <2>4. i \in DOMAIN deferred /\ Visible(i) /\ deferred[i].user \notin LeftBy(w).users
    BY <2>3 DEF FreeDeferred, Visible
  <2>5. deferred[i].user \in active_users
    BY <2>4 DEF DeferredOnlyWhileBusy, Visible
  <2>6. deferred[i].user = u
    BY <1>1, <1>3, <2>1, <2>4, <2>5
  <2>7. deferred[i].user \in active_users'
    BY <2>3 DEF RunsDeferred, Run
  <2> QED
    BY <2>3, <2>4, <2>6, <2>7
<1> QED
  BY <1>2, <1>3

\* Where the jobs left in the queues were before the head of queue p was popped.
LEMMA PoppedFacts ==
    ASSUME TypeOK, NEW p \in Priorities, PopsQueue(p)
    PROVE  /\ 1 \in DOMAIN queue[p] /\ Head(queue[p]) = queue[p][1]
           /\ \A r \in Priorities \ {p} : queue'[r] = queue[r]
           /\ \A k \in DOMAIN queue'[p] :
                 /\ k \in Nat \ {0}
                 /\ k + 1 \in DOMAIN queue[p]
                 /\ queue'[p][k] = queue[p][k + 1]
<1>1. queue[p] \in Seq(Job) /\ queue[p] # <<>>
  BY DEF TypeOK, PopsQueue
<1>2. queue'[p] = Tail(queue[p]) /\ \A r \in Priorities \ {p} : queue'[r] = queue[r]
  BY DEF PopsQueue, TypeOK
<1>3. DOMAIN queue[p] = 1..Len(queue[p]) /\ Len(queue[p]) \in Nat
  BY <1>1, LenProperties
<1>4. Len(queue[p]) # 0
  BY <1>1, EmptySeq
<1>5. Tail(queue[p]) \in Seq(Job) /\ Len(Tail(queue[p])) = Len(queue[p]) - 1
      /\ \A k \in 1..Len(Tail(queue[p])) : Tail(queue[p])[k] = queue[p][k + 1]
  BY <1>1, HeadTailProperties
<1>6. DOMAIN Tail(queue[p]) = 1..(Len(queue[p]) - 1)
  BY <1>5, LenProperties
<1>7. Head(queue[p]) = queue[p][1]
  BY <1>1, HeadTailProperties
<1>8. 1 \in DOMAIN queue[p]
  BY <1>3, <1>4
<1>9. ASSUME NEW k \in DOMAIN queue'[p]
      PROVE  k \in Nat \ {0} /\ k + 1 \in DOMAIN queue[p] /\ queue'[p][k] = queue[p][k + 1]
  <2>1. k \in 1..(Len(queue[p]) - 1)
    BY <1>2, <1>6
  <2>2. queue'[p][k] = queue[p][k + 1]
    BY <1>2, <1>5, <2>1
  <2> QED
    BY <1>3, <2>1, <2>2
<1> QED
  BY <1>2, <1>7, <1>8, <1>9

\* Removing from, appending to, or keeping `deferred`: where its elements come from.
LEMMA RemovedFacts ==
    ASSUME TypeOK, NEW i \in DOMAIN deferred, deferred' = RemoveAt(deferred, i)
    PROVE  \A k \in DOMAIN deferred' :
              \E m \in DOMAIN deferred :
                 /\ m # i /\ deferred'[k] = deferred[m]
                 /\ m = IF k < i THEN k ELSE k + 1
<1>1. deferred \in Seq(Job) /\ DOMAIN deferred = 1..Len(deferred) /\ Len(deferred) \in Nat
  BY LenProperties DEF TypeOK
<1>2. DOMAIN deferred' = 1..(Len(deferred) - 1)
      /\ \A k \in 1..(Len(deferred) - 1) :
            deferred'[k] = IF k < i THEN deferred[k] ELSE deferred[k + 1]
  BY <1>1, RemoveAtFacts
<1> SUFFICES ASSUME NEW k \in DOMAIN deferred'
             PROVE  LET m == IF k < i THEN k ELSE k + 1
                    IN  m \in DOMAIN deferred /\ m # i /\ deferred'[k] = deferred[m]
  OBVIOUS
<1>3. k \in 1..(Len(deferred) - 1)
  BY <1>2
<1> QED
  BY <1>1, <1>2, <1>3

\* The entries of the queues and of the deferred jobs are jobs with numeric ids.
LEMMA WaitingTypes ==
    ASSUME TypeOK
    PROVE  /\ \A i \in DOMAIN deferred : i \in Nat /\ deferred[i] \in Job /\ deferred[i].id \in Nat
           /\ \A p \in Priorities : \A k \in DOMAIN queue[p] :
                 k \in Nat /\ queue[p][k] \in Job /\ queue[p][k].id \in Nat
           /\ \A w \in Running : job[w] \in Job /\ job[w].id \in Nat
<1>1. \A j \in Job : j.id \in Nat
  BY DEF Job
<1>2. deferred \in Seq(Job) /\ \A p \in Priorities : queue[p] \in Seq(Job)
  BY DEF TypeOK
<1>3. \A w \in Running : job[w] \in Job
  BY DEF TypeOK, Running
<1>4. ASSUME NEW s \in Seq(Job), NEW i \in DOMAIN s
      PROVE  i \in Nat /\ s[i] \in Job
  BY <1>4, ElementOfSeq, LenProperties
<1> QED
  BY <1>1, <1>2, <1>3, <1>4

\* The user-visible queue after a job has been taken from one of the two queues.
LEMMA PopKeepsQueueSorted ==
    ASSUME TypeOK, QueueSorted, UNCHANGED next_id, NEW p \in Priorities, PopsQueue(p)
    PROVE  /\ QueueSorted'
           /\ \A k \in DOMAIN Q' : \E m \in DOMAIN Q : Q'[k] = Q[m]
           /\ p = "user_visible" => \A k \in DOMAIN Q' : Q[1].id < Q'[k].id
<1>1. "user_visible" \in Priorities
  BY DEF Priorities
<1>2. \A k \in DOMAIN Q : k \in Nat /\ Q[k].id \in Nat
  BY <1>1, WaitingTypes DEF Q
<1>3. CASE p = "user_visible"
  <2>1. /\ 1 \in DOMAIN Q
        /\ \A k \in DOMAIN Q' : k \in Nat \ {0} /\ k + 1 \in DOMAIN Q /\ Q'[k] = Q[k + 1]
    BY <1>3, PoppedFacts DEF Q
  <2>2. \A i, k \in DOMAIN Q' : i < k => Q'[i].id < Q'[k].id
    <3> SUFFICES ASSUME NEW i \in DOMAIN Q', NEW k \in DOMAIN Q', i < k
                 PROVE  Q[i + 1].id < Q[k + 1].id
      BY <2>1
    <3>1. i + 1 \in DOMAIN Q /\ k + 1 \in DOMAIN Q /\ i + 1 < k + 1
      BY <2>1
    <3> QED
      BY <3>1 DEF QueueSorted
  <2>3. \A k \in DOMAIN Q' : Q'[k].id < next_id /\ Q[1].id < Q'[k].id
    <3> SUFFICES ASSUME NEW k \in DOMAIN Q'
                 PROVE  Q[k + 1].id < next_id /\ Q[1].id < Q[k + 1].id
      BY <2>1
    <3>1. k + 1 \in DOMAIN Q /\ 1 \in DOMAIN Q /\ 1 < k + 1
      BY <2>1
    <3> QED
      BY <3>1 DEF QueueSorted
  <2>4. \A r \in Priorities : \A k \in DOMAIN queue'[r] : queue'[r][k].priority = r
    BY PoppedFacts DEF QueueSorted
  <2> QED
    BY <2>1, <2>2, <2>3, <2>4 DEF QueueSorted
<1>4. CASE p # "user_visible"
  <2>1. Q' = Q
    BY <1>1, <1>4, PoppedFacts DEF Q
  <2>2. \A r \in Priorities : \A k \in DOMAIN queue'[r] : queue'[r][k].priority = r
    BY PoppedFacts DEF QueueSorted
  <2> QED
    BY <1>4, <2>1, <2>2 DEF QueueSorted
<1> QED
  BY <1>3, <1>4

\* OrderInv, when a deferred job starts.
LEMMA RunsDeferredKeepsOrder ==
    ASSUME TypeOK, OrderInv, UNCHANGED next_id, NEW w \in Workers,
           Picks(w), SkipsNoVisible(w), NEW i \in DOMAIN deferred, RunsDeferred(w, i)
    PROVE  OrderInv'
<1>0. OneJobPerUser /\ DeferredOnlyWhileBusy /\ QueueSorted /\ DeferredSorted /\ RunningOlder
  BY DEF OrderInv
<1>1. deferred[i] \in Job /\ Run(w, deferred[i], LeftBy(w)) /\ UNCHANGED queue
      /\ deferred' = RemoveAt(deferred, i)
  BY WaitingTypes DEF RunsDeferred
<1>2. \A k \in DOMAIN deferred' :
         \E m \in DOMAIN deferred :
            m # i /\ deferred'[k] = deferred[m] /\ m = IF k < i THEN k ELSE k + 1
  BY <1>1, RemovedFacts
<1>3. /\ \A v \in Running' : v = w \/ (v \in Running /\ job'[v] = job[v])
      /\ job'[w] = deferred[i]
  BY <1>1, RunningAfterRun
<1>4. OneJobPerUser'
  BY <1>0, PicksKeepsOneJobPerUser
<1>5. DeferredOnlyWhileBusy'
  BY <1>0, <1>2, NoVisibleLeft DEF DeferredOnlyWhileBusy, Visible
<1>6. QueueSorted' /\ Q' = Q
  BY <1>0, <1>1 DEF QueueSorted, Q
<1>7. DeferredSorted'
  <2>1. ASSUME NEW k \in DOMAIN deferred', NEW l \in DOMAIN deferred',
               k < l, Visible(k)', Visible(l)'
        PROVE  deferred'[k].id < deferred'[l].id
    <3>1. PICK m \in DOMAIN deferred :
             deferred'[k] = deferred[m] /\ m = IF k < i THEN k ELSE k + 1
      BY <1>2
    <3>2. PICK n \in DOMAIN deferred :
             deferred'[l] = deferred[n] /\ n = IF l < i THEN l ELSE l + 1
      BY <1>2
    <3>3. i \in Nat /\ m \in Nat /\ n \in Nat
      BY WaitingTypes
    <3>4. k \in Int /\ l \in Int
      <4>1. deferred \in Seq(Job) /\ Len(deferred) \in Nat
        BY LenProperties DEF TypeOK
      <4>2. DOMAIN deferred' = 1..(Len(deferred) - 1)
        BY <1>1, <4>1, RemoveAtFacts
      <4> HIDE DEF TypeOK
      <4> QED
        BY <4>1, <4>2
    <3>5. m < n
      BY <2>1, <3>1, <3>2, <3>3, <3>4
    <3>6. Visible(m) /\ Visible(n)
      BY <2>1, <3>1, <3>2 DEF Visible
    <3> QED
      BY <1>0, <3>1, <3>2, <3>5, <3>6 DEF DeferredSorted
  <2>2. ASSUME NEW k \in DOMAIN deferred', Visible(k)'
        PROVE  deferred'[k].id < next_id /\ \A l \in DOMAIN Q : deferred'[k].id < Q[l].id
    <3>1. PICK m \in DOMAIN deferred : deferred'[k] = deferred[m]
      BY <1>2
    <3>2. Visible(m)
      BY <2>2, <3>1 DEF Visible
    <3> QED
      BY <1>0, <3>1, <3>2 DEF DeferredSorted
  <2> QED
    BY <1>6, <2>1, <2>2 DEF DeferredSorted
<1>8. RunningOlder'
  <2> SUFFICES ASSUME NEW v \in Running', job'[v].priority = "user_visible"
               PROVE  /\ \A k \in DOMAIN deferred' :
                             (Visible(k)' /\ deferred'[k].user = job'[v].user)
                             => job'[v].id < deferred'[k].id
                      /\ \A k \in DOMAIN Q : Q[k].user = job'[v].user => job'[v].id < Q[k].id
                      /\ job'[v].id < next_id
    BY <1>6 DEF RunningOlder
  <2>1. CASE v \in Running /\ job'[v] = job[v]
    <3>1. ASSUME NEW k \in DOMAIN deferred', Visible(k)', deferred'[k].user = job[v].user
          PROVE  job[v].id < deferred'[k].id
      <4>1. PICK m \in DOMAIN deferred : deferred'[k] = deferred[m]
        BY <1>2
      <4>2. Visible(m)
        BY <3>1, <4>1 DEF Visible
      <4> QED
        BY <1>0, <2>1, <3>1, <4>1, <4>2 DEF RunningOlder
    <3> QED
      BY <1>0, <2>1, <3>1 DEF RunningOlder
  <2>2. CASE v = w
    <3>1. job'[v] = deferred[i] /\ Visible(i)
      BY <1>3, <2>2 DEF Visible
    <3>2. ASSUME NEW k \in DOMAIN deferred', Visible(k)', deferred'[k].user = deferred[i].user
          PROVE  deferred[i].id < deferred'[k].id
      <4>1. PICK m \in DOMAIN deferred : deferred'[k] = deferred[m] /\ m # i
        BY <1>2
      <4>2. Visible(m) /\ deferred[m].user = deferred[i].user
        BY <3>2, <4>1 DEF Visible
      <4>3. i \in Nat /\ m \in Nat /\ m # 0
        BY WaitingTypes, LenProperties DEF TypeOK
      <4>4. m \notin 1..(i - 1)
        BY <3>1, <4>2 DEF RunsDeferred, OldestOfItsUser, Visible
      <4>5. i < m
        BY <4>1, <4>3, <4>4
      <4> QED
        BY <1>0, <3>1, <4>1, <4>2, <4>5 DEF DeferredSorted
    <3> QED
      BY <1>0, <3>1, <3>2 DEF DeferredSorted
  <2> QED
    BY <1>3, <2>1, <2>2
<1> QED
  BY <1>4, <1>5, <1>6, <1>7, <1>8 DEF OrderInv

\* Removing a job from the queues leaves the order of the jobs set aside alone.
LEMMA QueuesShrink ==
    ASSUME DeferredSorted, UNCHANGED <<deferred, next_id>>,
           \A k \in DOMAIN Q' : \E m \in DOMAIN Q : Q'[k] = Q[m]
    PROVE  DeferredSorted'
BY DEF DeferredSorted, Visible

\* The jobs of the other workers stay older than what waits.
LEMMA OthersStayOlder ==
    ASSUME RunningOlder, UNCHANGED next_id, NEW w \in Workers,
           NEW v \in Running, job'[v] = job[v], job'[v].priority = "user_visible",
           \A k \in DOMAIN Q' : \E m \in DOMAIN Q : Q'[k] = Q[m],
           \A k \in DOMAIN deferred' :
              \/ \E m \in DOMAIN deferred : deferred'[k] = deferred[m]
              \/ Visible(k)' => \E m \in DOMAIN Q : deferred'[k] = Q[m]
    PROVE  /\ \A k \in DOMAIN deferred' :
                 (Visible(k)' /\ deferred'[k].user = job'[v].user) => job'[v].id < deferred'[k].id
           /\ \A k \in DOMAIN Q' : Q'[k].user = job'[v].user => job'[v].id < Q'[k].id
           /\ job'[v].id < next_id
BY DEF RunningOlder, Visible

\* OrderInv, when the head of a queue starts.
LEMMA RunsQueuedKeepsOrder ==
    ASSUME TypeOK, OrderInv, UNCHANGED next_id, NEW w \in Workers,
           Picks(w), SkipsNoVisible(w), NEW p \in Priorities, RunsQueued(w, p)
    PROVE  OrderInv'
<1>0. OneJobPerUser /\ DeferredOnlyWhileBusy /\ QueueSorted /\ DeferredSorted /\ RunningOlder
  BY DEF OrderInv
<1>1. PopsQueue(p) /\ UNCHANGED deferred /\ Run(w, Head(queue[p]), LeftBy(w))
      /\ Head(queue[p]).user \notin LeftBy(w).users
  BY DEF RunsQueued
<1>2. /\ Head(queue[p]) \in Job
      /\ 1 \in DOMAIN queue[p] /\ Head(queue[p]) = queue[p][1]
  BY <1>1, PopsQueueType, PoppedFacts
<1>3. /\ \A v \in Running' : v = w \/ (v \in Running /\ job'[v] = job[v])
      /\ job'[w] = queue[p][1]
  BY <1>1, <1>2, RunningAfterRun
<1>4. OneJobPerUser'
  BY <1>0, PicksKeepsOneJobPerUser
<1>5. DeferredOnlyWhileBusy'
  BY <1>0, <1>1, NoVisibleLeft DEF DeferredOnlyWhileBusy, Visible
<1>6. /\ QueueSorted'
      /\ \A k \in DOMAIN Q' : \E m \in DOMAIN Q : Q'[k] = Q[m]
      /\ p = "user_visible" => \A k \in DOMAIN Q' : Q[1].id < Q'[k].id
  BY <1>0, <1>1, PopKeepsQueueSorted
<1>7. DeferredSorted'
  BY <1>0, <1>1, <1>6, QueuesShrink
<1>8. RunningOlder'
  <2> SUFFICES ASSUME NEW v \in Running', job'[v].priority = "user_visible"
               PROVE  /\ \A k \in DOMAIN deferred' :
                             (Visible(k)' /\ deferred'[k].user = job'[v].user)
                             => job'[v].id < deferred'[k].id
                      /\ \A k \in DOMAIN Q' : Q'[k].user = job'[v].user => job'[v].id < Q'[k].id
                      /\ job'[v].id < next_id
    BY DEF RunningOlder
  <2>1. CASE v \in Running /\ job'[v] = job[v]
    BY <1>0, <1>1, <1>6, <2>1, OthersStayOlder
  <2>2. CASE v = w
    <3>1. job'[v] = queue[p][1] /\ p = "user_visible"
      BY <1>0, <1>2, <1>3, <2>2 DEF QueueSorted
    <3>2. job'[v] = Q[1] /\ 1 \in DOMAIN Q
      BY <1>2, <3>1 DEF Q
    <3>3. \A i \in DOMAIN deferred : ~RunsDeferred(w, i)
      <4>1. queue[p] \in Seq(Job) /\ queue[p] # <<>>
        BY <1>1 DEF TypeOK, PopsQueue
      <4>2. Len(Tail(queue[p])) = Len(queue[p]) - 1 /\ Len(queue[p]) \in Nat
        BY <4>1, HeadTailProperties, LenProperties
      <4>3. queue'[p] = Tail(queue[p])
        BY <1>1 DEF PopsQueue, TypeOK
      <4>4. queue'[p] # queue[p]
        <5> SUFFICES ASSUME queue'[p] = queue[p] PROVE FALSE
          OBVIOUS
        <5>1. Len(Tail(queue[p])) = Len(queue[p])
          BY <4>3
        <5> QED
          BY <4>2, <5>1
      <4> QED
        BY <4>4 DEF RunsDeferred
    <3>4. \A k \in DOMAIN deferred : Visible(k) => deferred[k].user # Q[1].user
      <4> SUFFICES ASSUME NEW k \in DOMAIN deferred, Visible(k), deferred[k].user = Q[1].user
                   PROVE  FALSE
        OBVIOUS
      <4>1. deferred[k].user \notin LeftBy(w).users
        BY <1>1, <1>2, <3>1, <3>2
      <4> QED
        BY <1>0, <3>3, <4>1, NoVisibleLeft
    <3>5. \A k \in DOMAIN deferred' :
             (Visible(k)' /\ deferred'[k].user = job'[v].user) => job'[v].id < deferred'[k].id
      BY <1>1, <3>2, <3>4 DEF Visible
    <3>6. \A k \in DOMAIN Q' : Q'[k].user = job'[v].user => job'[v].id < Q'[k].id
      BY <1>6, <3>1, <3>2
    <3>7. job'[v].id < next_id
      BY <1>0, <3>2 DEF QueueSorted
    <3> QED
      BY <3>5, <3>6, <3>7
  <2> QED
    BY <1>3, <2>1, <2>2
<1> QED
  BY <1>4, <1>5, <1>6, <1>7, <1>8 DEF OrderInv

\* OrderInv, when the head of a queue is set aside.
LEMMA DefersKeepsOrder ==
    ASSUME TypeOK, OrderInv, UNCHANGED next_id, NEW w \in Workers,
           Picks(w), SkipsNoVisible(w), NEW p \in Priorities, Defers(w, p)
    PROVE  OrderInv'
<1> DEFINE j == Head(queue[p])
           n == Len(deferred)
<1>0. OneJobPerUser /\ DeferredOnlyWhileBusy /\ QueueSorted /\ DeferredSorted /\ RunningOlder
  BY DEF OrderInv
<1>1. PopsQueue(p) /\ j.user \in LeftBy(w).users /\ deferred' = Append(deferred, j)
  BY DEF Defers
<1>2. PICK s \in {"asleep_visible", "asleep_prefetch"} : Suspend(w, s, LeftBy(w))
  BY DEF Defers
<1>3. /\ j \in Job
      /\ 1 \in DOMAIN queue[p] /\ j = queue[p][1] /\ j.priority = p
  BY <1>0, <1>1, PopsQueueType, PoppedFacts DEF QueueSorted
<1>4. \A v \in Running' : v \in Running /\ job'[v] = job[v]
  BY <1>2, RunningAfterSuspend
<1>5. /\ n \in Nat
      /\ \A k \in DOMAIN deferred : k \in 1..n
      /\ \A k \in DOMAIN deferred' :
            \/ k \in DOMAIN deferred /\ deferred'[k] = deferred[k]
            \/ k = n + 1 /\ deferred'[k] = j
  <2>1. deferred \in Seq(Job) /\ n \in Nat /\ DOMAIN deferred = 1..n
    BY LenProperties DEF TypeOK
  <2>2. /\ deferred' \in Seq(Job) /\ Len(deferred') = n + 1
        /\ \A k \in 1..n : deferred'[k] = deferred[k]
        /\ deferred'[n + 1] = j
    BY <1>1, <1>3, <2>1, AppendProperties
  <2>3. DOMAIN deferred' = 1..(n + 1)
    BY <2>2, LenProperties
  <2> HIDE DEF n, j
  <2> QED
    BY <2>1, <2>2, <2>3
<1>6. OneJobPerUser'
  BY <1>0, PicksKeepsOneJobPerUser
<1>7. DeferredOnlyWhileBusy'
  <2>1. active_users' = LeftBy(w).users
    BY <1>2 DEF Suspend
  <2> SUFFICES ASSUME NEW k \in DOMAIN deferred', deferred'[k].priority = "user_visible"
               PROVE  deferred'[k].user \in active_users'
    BY DEF DeferredOnlyWhileBusy
  <2>2. CASE k \in DOMAIN deferred /\ deferred'[k] = deferred[k]
    BY <1>0, <2>2, NoVisibleLeft DEF Visible
  <2>3. CASE deferred'[k] = j
    BY <1>1, <2>1, <2>3
  <2> QED
    BY <1>5, <2>2, <2>3
<1>8. /\ QueueSorted'
      /\ \A k \in DOMAIN Q' : \E m \in DOMAIN Q : Q'[k] = Q[m]
      /\ p = "user_visible" => \A k \in DOMAIN Q' : Q[1].id < Q'[k].id
  BY <1>0, <1>1, PopKeepsQueueSorted
<1>9. \A k \in DOMAIN deferred' :
         (deferred'[k] = j /\ Visible(k)') => /\ p = "user_visible" /\ j = Q[1] /\ 1 \in DOMAIN Q
  BY <1>3 DEF Visible, Q
<1>10. DeferredSorted'
  <2>1. ASSUME NEW k \in DOMAIN deferred', NEW l \in DOMAIN deferred',
               k < l, Visible(k)', Visible(l)'
        PROVE  deferred'[k].id < deferred'[l].id
    <3>1. k \in DOMAIN deferred /\ deferred'[k] = deferred[k] /\ Visible(k)
      <4>1. k # n + 1
        <5> HIDE DEF n
        <5> QED
          BY <1>5, <2>1
      <4> QED
        BY <1>5, <2>1, <4>1 DEF Visible
    <3>2. CASE l \in DOMAIN deferred /\ deferred'[l] = deferred[l]
      BY <1>0, <2>1, <3>1, <3>2 DEF DeferredSorted, Visible
    <3>3. CASE deferred'[l] = j
      BY <1>0, <1>9, <2>1, <3>1, <3>3 DEF DeferredSorted
    <3> QED
      BY <1>5, <3>2, <3>3
  <2>2. ASSUME NEW k \in DOMAIN deferred', Visible(k)'
        PROVE  deferred'[k].id < next_id /\ \A l \in DOMAIN Q' : deferred'[k].id < Q'[l].id
    <3>1. CASE k \in DOMAIN deferred /\ deferred'[k] = deferred[k]
      <4>1. Visible(k)
        BY <2>2, <3>1 DEF Visible
      <4> QED
        BY <1>0, <1>8, <3>1, <4>1 DEF DeferredSorted
    <3>2. CASE deferred'[k] = j
      BY <1>0, <1>8, <1>9, <2>2, <3>2 DEF QueueSorted
    <3> QED
      BY <1>5, <3>1, <3>2
  <2> QED
    BY <2>1, <2>2 DEF DeferredSorted
<1>11. RunningOlder'
  <2> SUFFICES ASSUME NEW v \in Running', job'[v].priority = "user_visible"
               PROVE  /\ \A k \in DOMAIN deferred' :
                             (Visible(k)' /\ deferred'[k].user = job'[v].user)
                             => job'[v].id < deferred'[k].id
                      /\ \A k \in DOMAIN Q' : Q'[k].user = job'[v].user => job'[v].id < Q'[k].id
                      /\ job'[v].id < next_id
    BY DEF RunningOlder
  <2>1. \A k \in DOMAIN deferred' :
           \/ \E m \in DOMAIN deferred : deferred'[k] = deferred[m]
           \/ Visible(k)' => \E m \in DOMAIN Q : deferred'[k] = Q[m]
    BY <1>5, <1>9
  <2> QED
    BY <1>0, <1>4, <1>8, <2>1, OthersStayOlder
<1> QED
  BY <1>6, <1>7, <1>8, <1>10, <1>11 DEF OrderInv

\* OrderInv, when the worker waits.
LEMMA WaitsKeepsOrder ==
    ASSUME TypeOK, OrderInv, UNCHANGED next_id, NEW w \in Workers,
           Picks(w), SkipsNoVisible(w), Waits(w)
    PROVE  OrderInv'
<1>0. OneJobPerUser /\ DeferredOnlyWhileBusy /\ QueueSorted /\ DeferredSorted /\ RunningOlder
  BY DEF OrderInv
<1>1. UNCHANGED <<queue, deferred>> /\ Suspend(w, "waiting", LeftBy(w))
  BY DEF Waits
<1>2. \A v \in Running' : v \in Running /\ job'[v] = job[v]
  BY <1>1, RunningAfterSuspend
<1>3. OneJobPerUser'
  BY <1>0, PicksKeepsOneJobPerUser
<1>4. DeferredOnlyWhileBusy'
  BY <1>0, <1>1, NoVisibleLeft DEF DeferredOnlyWhileBusy, Visible
<1>5. QueueSorted' /\ DeferredSorted'
  BY <1>0, <1>1 DEF QueueSorted, DeferredSorted, Visible, Q
<1>6. RunningOlder'
  BY <1>0, <1>1, <1>2 DEF RunningOlder, Visible, Q
<1> QED
  BY <1>3, <1>4, <1>5, <1>6 DEF OrderInv

\* An accepted job is younger than every other one.
LEMMA EnqueueKeepsOrder ==
    ASSUME TypeOK, OrderInv, OneJobPerUser',
           NEW user \in Users, NEW priority \in Priorities, Enqueue(user, priority)
    PROVE  OrderInv'
<1> DEFINE j == [id |-> next_id, user |-> user, priority |-> priority]
           n == Len(queue[priority])
<1>0. DeferredOnlyWhileBusy /\ QueueSorted /\ DeferredSorted /\ RunningOlder
  BY DEF OrderInv
<1>1. /\ UNCHANGED <<deferred, job, active_users>>
      /\ next_id' = next_id + 1 /\ next_id \in Nat
      /\ queue'[priority] = Append(queue[priority], j)
      /\ \A r \in Priorities \ {priority} : queue'[r] = queue[r]
  BY QueueAssumption DEF Enqueue, TypeOK
<1>2. Running' = Running
  <2>1. \A w \in Workers : WokenWorker(w) = "running" <=> pc[w] = "running"
    BY DEF TypeOK, WokenWorker, WorkerStates
  <2> QED
    BY <2>1 DEF Enqueue, Running
<1>3. /\ n \in Nat
      /\ \A k \in DOMAIN queue[priority] : k \in 1..n
      /\ \A k \in DOMAIN queue'[priority] :
            \/ k \in DOMAIN queue[priority] /\ queue'[priority][k] = queue[priority][k]
            \/ k = n + 1 /\ queue'[priority][k] = j
  <2>1. next_id \in 1..MaxJobs
    BY QueueAssumption DEF TypeOK, Enqueue
  <2>2. j \in Job
    BY <2>1 DEF Job
  <2>3. queue[priority] \in Seq(Job) /\ n \in Nat /\ DOMAIN queue[priority] = 1..n
    BY LenProperties DEF TypeOK
  <2>4. /\ queue'[priority] \in Seq(Job) /\ Len(queue'[priority]) = n + 1
        /\ \A k \in 1..n : queue'[priority][k] = queue[priority][k]
        /\ queue'[priority][n + 1] = j
    BY <1>1, <2>2, <2>3, AppendProperties
  <2>5. DOMAIN queue'[priority] = 1..(n + 1)
    BY <2>4, LenProperties
  <2> HIDE DEF n, j
  <2> QED
    BY <2>3, <2>4, <2>5
<1>4. \A k \in DOMAIN Q' : \/ k \in DOMAIN Q /\ Q'[k] = Q[k]
                           \/ /\ Q'[k].id = next_id
                              /\ \A m \in DOMAIN Q : ~(k < m) /\ k # m
  <2>1. CASE priority = "user_visible"
    <3> SUFFICES ASSUME NEW k \in DOMAIN queue'[priority]
                 PROVE  \/ k \in DOMAIN queue[priority] /\ queue'[priority][k] = queue[priority][k]
                        \/ /\ queue'[priority][k].id = next_id
                           /\ \A m \in DOMAIN queue[priority] : ~(k < m) /\ k # m
      BY <2>1 DEF Q
    <3>1. j.id = next_id
      OBVIOUS
    <3> HIDE DEF n, j
    <3>2. k = n + 1 => \A m \in DOMAIN queue[priority] : ~(k < m) /\ k # m
      BY <1>3
    <3> QED
      BY <1>3, <3>1, <3>2
  <2>2. CASE priority # "user_visible"
    BY <1>1, <2>2 DEF Q, Priorities
  <2> QED
    BY <2>1, <2>2
<1>5. DeferredOnlyWhileBusy'
  BY <1>0, <1>1 DEF DeferredOnlyWhileBusy
<1>6. \A k \in DOMAIN Q : Q[k].id \in Nat
  BY WaitingTypes DEF Q, Priorities
<1>7. QueueSorted'
  <2>1. ASSUME NEW i \in DOMAIN Q', NEW k \in DOMAIN Q', i < k
        PROVE  Q'[i].id < Q'[k].id
    <3>1. i \in Nat /\ k \in Nat
      <4>1. \A r \in Priorities : \A m \in DOMAIN queue'[r] : m \in Nat
        BY <1>1, <1>3, WaitingTypes
      <4> QED
        BY <4>1 DEF Q, Priorities
    <3>2. CASE k \in DOMAIN Q /\ Q'[k] = Q[k]
      BY <1>0, <1>4, <2>1, <3>2 DEF QueueSorted
    <3>3. CASE Q'[k].id = next_id /\ ~(k \in DOMAIN Q /\ Q'[k] = Q[k])
      <4>1. i \in DOMAIN Q /\ Q'[i] = Q[i]
        <5>1. Q'[i].id # next_id \/ (i \in DOMAIN Q /\ Q'[i] = Q[i]) \/ i = k
          <6>1. CASE priority = "user_visible"
            BY <1>3, <3>3, <6>1 DEF Q
          <6>2. CASE priority # "user_visible"
            BY <1>1, <6>2 DEF Q, Priorities
          <6> QED
            BY <6>1, <6>2
        <5> QED
          BY <1>4, <2>1, <3>1, <5>1
      <4> QED
        BY <1>0, <3>3, <4>1 DEF QueueSorted
    <3> QED
      BY <1>4, <3>2, <3>3
  <2>2. \A k \in DOMAIN Q' : Q'[k].id < next_id'
    <3> SUFFICES ASSUME NEW k \in DOMAIN Q' PROVE Q'[k].id < next_id + 1
      BY <1>1
    <3>1. CASE k \in DOMAIN Q /\ Q'[k] = Q[k]
      BY <1>0, <1>1, <1>6, <3>1 DEF QueueSorted
    <3>2. CASE Q'[k].id = next_id
      BY <1>1, <3>2
    <3> QED
      BY <1>4, <3>1, <3>2
  <2>3. \A r \in Priorities : \A k \in DOMAIN queue'[r] : queue'[r][k].priority = r
    <3>1. ASSUME NEW k \in DOMAIN queue'[priority]
          PROVE  queue'[priority][k].priority = priority
      <4>1. j.priority = priority
        OBVIOUS
      <4> QED
        BY <1>0, <1>3, <4>1 DEF QueueSorted
    <3>2. \A r \in Priorities \ {priority} : \A k \in DOMAIN queue'[r] : queue'[r][k].priority = r
      BY <1>0, <1>1 DEF QueueSorted
    <3> QED
      BY <3>1, <3>2
  <2> QED
    BY <2>1, <2>2, <2>3 DEF QueueSorted
<1>8. DeferredSorted'
  <2>1. ASSUME NEW k \in DOMAIN deferred, Visible(k)
        PROVE  /\ deferred[k].id < next_id + 1
               /\ \A l \in DOMAIN Q' : deferred[k].id < Q'[l].id
    <3>1. deferred[k].id < next_id /\ deferred[k].id \in Nat
      BY <1>0, <2>1, WaitingTypes DEF DeferredSorted
    <3>2. \A l \in DOMAIN Q' : deferred[k].id < Q'[l].id
      BY <1>0, <1>4, <2>1, <3>1 DEF DeferredSorted
    <3> QED
      BY <1>1, <3>1, <3>2
  <2> QED
    BY <1>0, <1>1, <2>1 DEF DeferredSorted, Visible
<1>9. RunningOlder'
  <2> SUFFICES ASSUME NEW v \in Running, job[v].priority = "user_visible"
               PROVE  /\ \A k \in DOMAIN Q' : Q'[k].user = job[v].user => job[v].id < Q'[k].id
                      /\ job[v].id < next_id + 1
    BY <1>0, <1>1, <1>2 DEF RunningOlder, Visible
  <2>1. job[v].id < next_id /\ job[v].id \in Nat
    BY <1>0, WaitingTypes DEF RunningOlder
  <2>2. \A k \in DOMAIN Q' : Q'[k].user = job[v].user => job[v].id < Q'[k].id
    BY <1>0, <1>4, <2>1 DEF RunningOlder
  <2> QED
    BY <1>1, <2>1, <2>2
<1> QED
  BY <1>5, <1>7, <1>8, <1>9 DEF OrderInv

\* OrderInv is inductive with the types.
LEMMA OrderStep == TypeOK /\ OrderInv /\ [Next]_vars => OrderInv'
<1> SUFFICES ASSUME TypeOK, OrderInv, [Next]_vars PROVE OrderInv'
  OBVIOUS
<1>1. OneJobPerUser'
  BY OneJobPerUserStep DEF OrderInv
<1>2. CASE \E user \in Users, priority \in Priorities : Enqueue(user, priority)
  BY <1>1, <1>2, EnqueueKeepsOrder
<1>3. ASSUME NEW w \in Workers, Turn(w)
      PROVE  OrderInv'
  <2>1. Picks(w) /\ SkipsNoVisible(w) /\ UNCHANGED next_id
    BY <1>3, TurnCases
  <2> QED
    <3>1. ASSUME NEW i \in DOMAIN deferred, RunsDeferred(w, i) PROVE OrderInv'
      BY <2>1, <3>1, RunsDeferredKeepsOrder
    <3>2. ASSUME NEW p \in Priorities, RunsQueued(w, p) PROVE OrderInv'
      BY <2>1, <3>2, RunsQueuedKeepsOrder
    <3>3. ASSUME NEW p \in Priorities, Defers(w, p) PROVE OrderInv'
      BY <2>1, <3>3, DefersKeepsOrder
    <3>4. CASE Waits(w)
      BY <2>1, <3>4, WaitsKeepsOrder
    <3> QED
      BY <2>1, <3>1, <3>2, <3>3, <3>4 DEF Picks
<1>4. CASE UNCHANGED <<jobVars, workerVars, next_id>>
  BY <1>1, <1>4 DEF OrderInv, DeferredOnlyWhileBusy, QueueSorted, DeferredSorted, RunningOlder,
                    Visible, Q, Running, jobVars, workerVars
<1>5. CASE Shutdown
  <2>1. deferred' = <<>> /\ Q' = <<>> /\ Running' = {}
        /\ \A p \in Priorities : queue'[p] = <<>>
    BY <1>5 DEF Shutdown, Q, Running, Priorities
  <2>2. DOMAIN <<>> = {}
    OBVIOUS
  <2> QED
    BY <1>1, <2>1, <2>2 DEF OrderInv, DeferredOnlyWhileBusy, QueueSorted, DeferredSorted,
                            RunningOlder
<1> QED
  BY <1>2, <1>3, <1>4, <1>5 DEF Next, Close, BeginClose, JoinedVisible, vars

\* OrderInv holds of the empty queue.
LEMMA OrderInitially == Init => OrderInv
<1> SUFFICES ASSUME Init PROVE OrderInv
  OBVIOUS
<1>1. deferred = <<>> /\ Q = <<>> /\ Running = {} /\ active_users = {}
      /\ \A p \in Priorities : queue[p] = <<>>
  BY DEF Init, Q, Running, Priorities
<1>2. DOMAIN <<>> = {}
  OBVIOUS
<1> QED
  BY <1>1, <1>2 DEF OrderInv, OneJobPerUser, DeferredOnlyWhileBusy, QueueSorted, DeferredSorted,
                    RunningOlder

\* A user-visible job stays set aside only while another job of its user runs: the
\* worker that ends that job takes the oldest of them in the same step.
THEOREM DeferredOnlyWhileBusyHolds == Spec => []DeferredOnlyWhileBusy
<1>1. OrderInv => DeferredOnlyWhileBusy
  BY DEF OrderInv
<1> QED
  BY <1>1, OrderInitially, OrderStep, TypeCorrect, PTL DEF Spec

\* The user-visible jobs of a user run in the order they were accepted, although
\* deferral takes them out of the queue and several workers pick jobs.
THEOREM UserOrderHolds == Spec => []UserOrder
<1>1. TypeOK /\ OrderInv => UserOrder
  <2> SUFFICES ASSUME TypeOK, OrderInv,
                      NEW w \in Running, job[w].priority = "user_visible",
                      NEW j \in WaitingJobs, j.user = job[w].user, j.priority = "user_visible"
               PROVE  job[w].id < j.id
    BY DEF UserOrder
  <2>1. CASE j \in Range(queue["user_visible"])
    <3>1. PICK k \in DOMAIN Q : j = Q[k]
      BY <2>1 DEF Range, Q
    <3> QED
      BY <3>1 DEF OrderInv, RunningOlder
  <2>2. CASE j \in Range(queue["prefetch"])
    <3>1. PICK k \in DOMAIN queue["prefetch"] : j = queue["prefetch"][k]
      BY <2>2 DEF Range
    <3> QED
      BY <3>1 DEF OrderInv, QueueSorted, Priorities
  <2>3. CASE j \in Range(deferred)
    <3>1. PICK k \in DOMAIN deferred : j = deferred[k]
      BY <2>3 DEF Range
    <3> QED
      BY <3>1 DEF OrderInv, RunningOlder, Visible
  <2> QED
    BY <2>1, <2>2, <2>3 DEF WaitingJobs
<1> QED
  BY <1>1, OrderInitially, OrderStep, TypeCorrect, PTL DEF Spec

------------------------------------------------------------------------------
\* Where a job is: in one queue, set aside, or run by one worker, and nowhere twice.

Queued == Range(queue["user_visible"]) \cup Range(queue["prefetch"])

Apart ==
    /\ \A p \in Priorities :
          /\ IsInjective(queue[p])
          /\ \A j \in Range(queue[p]) : j.priority = p
    /\ IsInjective(deferred)
    /\ Queued \cap Range(deferred) = {}
    /\ WaitingJobs \cap RunningJobs = {}
    /\ \A j \in WaitingJobs \cup RunningJobs : j.id < next_id

\* The job whose end a turn begins with, and what the other workers run.
OwnJobs(w) == {job[v] : v \in Running \cap {w}}
Others(w) == RunningJobs \ OwnJobs(w)

\* The two effects of a turn on the jobs: one starts, or none does.
StartsJob(w, j) ==
    /\ j \in WaitingJobs
    /\ WaitingJobs' = WaitingJobs \ {j}
    /\ w \in Running' /\ job'[w] = j
    /\ RunningJobs' = Others(w) \cup {j}

StartsNone(w) == WaitingJobs' = WaitingJobs /\ RunningJobs' = Others(w)

\* Two workers never run the same job.
LEMMA OthersJobs ==
    ASSUME OneJobPerUser, NEW w \in Workers
    PROVE  Others(w) = {job[v] : v \in Running \ {w}}
  BY DEF OneJobPerUser, Others, OwnJobs, RunningJobs

\* Popping takes the head out of the queued jobs.
LEMMA PopMoves ==
    ASSUME TypeOK, Apart, NEW p \in Priorities, PopsQueue(p)
    PROVE  /\ Head(queue[p]) \in Job /\ Head(queue[p]) \in Queued /\ Head(queue[p]).priority = p
           /\ Queued' = Queued \ {Head(queue[p])}
           /\ \A r \in Priorities :
                 /\ IsInjective(queue'[r])
                 /\ \A j \in Range(queue'[r]) : j.priority = r
<1> DEFINE j == Head(queue[p])
<1>1. queue[p] \in Seq(Job) /\ queue[p] # <<>> /\ IsInjective(queue[p])
  BY DEF TypeOK, PopsQueue, Apart
<1>2. /\ j \in Job /\ j \in Range(queue[p])
      /\ Range(Tail(queue[p])) = Range(queue[p]) \ {j}
      /\ IsInjective(Tail(queue[p]))
  BY <1>1, TailFacts
<1>3. /\ queue'[p] = Tail(queue[p])
      /\ \A r \in Priorities \ {p} : queue'[r] = queue[r]
  BY DEF TypeOK, PopsQueue
<1>4. j.priority = p /\ \A r \in Priorities \ {p} : j \notin Range(queue[r])
  BY <1>2 DEF Apart
<1>5. Queued' = Queued \ {j} /\ j \in Queued
  BY <1>2, <1>3, <1>4 DEF Queued, Priorities
<1> QED
  BY <1>2, <1>3, <1>4, <1>5 DEF Apart

\* A worker that starts a waiting job runs it beside the others' jobs.
LEMMA RunMoves ==
    ASSUME TypeOK, OneJobPerUser, NEW w \in Workers, NEW j \in Job, Run(w, j, LeftBy(w))
    PROVE  w \in Running' /\ job'[w] = j /\ RunningJobs' = Others(w) \cup {j}
<1>1. /\ Running' = (Running \ {w}) \cup {w} /\ job'[w] = j
      /\ \A v \in Running \ {w} : job'[v] = job[v]
  BY RunningAfterRun
<1> QED
  BY <1>1, OthersJobs DEF RunningJobs

\* A worker that suspends leaves the others' jobs.
LEMMA SuspendMoves ==
    ASSUME TypeOK, OneJobPerUser, NEW w \in Workers,
           NEW s \in {"waiting", "asleep_visible", "asleep_prefetch"},
           Suspend(w, s, LeftBy(w))
    PROVE  RunningJobs' = Others(w)
<1>1. Running' = Running \ {w} /\ \A v \in Running \ {w} : job'[v] = job[v]
  BY RunningAfterSuspend
<1> QED
  BY <1>1, OthersJobs DEF RunningJobs

\* A turn starts one waiting job or none, and every job stays in one place.
LEMMA PicksMoves ==
    ASSUME TypeOK, OneJobPerUser, Apart, NEW w \in Workers, Picks(w), UNCHANGED next_id
    PROVE  /\ StartsNone(w) \/ \E j \in Job : StartsJob(w, j)
           /\ Apart'
<1> DEFINE D == Range(deferred)
<1>0. /\ deferred \in Seq(Job) /\ IsInjective(deferred) /\ Others(w) \subseteq RunningJobs
      /\ Queued \cap D = {} /\ WaitingJobs = Queued \cup D
      /\ WaitingJobs' = Queued' \cup D'
  BY DEF TypeOK, Apart, Others, WaitingJobs, Queued
<1>1. ASSUME NEW i \in DOMAIN deferred, RunsDeferred(w, i)
      PROVE  (\E j \in Job : StartsJob(w, j)) /\ Apart'
  <2> DEFINE j == deferred[i]
  <2>1. j \in Job /\ j \in D
    BY <1>0, ElementOfSeq DEF Range
  <2>2. D' = D \ {j} /\ IsInjective(deferred')
    BY <1>0, <1>1, RemoveAtElements DEF RunsDeferred
  <2>3. Queued' = Queued /\ UNCHANGED queue
    BY <1>1 DEF RunsDeferred, Queued
  <2>4. StartsJob(w, j)
    BY <1>0, <1>1, <2>1, <2>2, <2>3, RunMoves DEF RunsDeferred, StartsJob
  <2>5. /\ WaitingJobs' \cap RunningJobs' = {} /\ Queued' \cap D' = {}
        /\ \A k \in WaitingJobs' \cup RunningJobs' : k.id < next_id
    BY <1>0, <2>2, <2>3, <2>4 DEF Apart, StartsJob
  <2> QED
    BY <2>1, <2>2, <2>3, <2>4, <2>5 DEF Apart
<1>2. ASSUME NEW p \in Priorities, RunsQueued(w, p)
      PROVE  (\E j \in Job : StartsJob(w, j)) /\ Apart'
  <2> DEFINE j == Head(queue[p])
  <2>1. /\ j \in Job /\ j \in Queued /\ Queued' = Queued \ {j}
        /\ \A r \in Priorities :
              IsInjective(queue'[r]) /\ \A k \in Range(queue'[r]) : k.priority = r
    BY <1>2, PopMoves DEF RunsQueued
  <2>2. D' = D /\ UNCHANGED deferred
    BY <1>2 DEF RunsQueued
  <2>3. StartsJob(w, j)
    BY <1>0, <1>2, <2>1, <2>2, RunMoves DEF RunsQueued, StartsJob
  <2> QED
    BY <1>0, <2>1, <2>2, <2>3 DEF Apart, StartsJob
<1>3. ASSUME NEW p \in Priorities, Defers(w, p)
      PROVE  StartsNone(w) /\ Apart'
  <2> DEFINE j == Head(queue[p])
  <2>1. /\ j \in Job /\ j \in Queued /\ Queued' = Queued \ {j}
        /\ \A r \in Priorities :
              IsInjective(queue'[r]) /\ \A k \in Range(queue'[r]) : k.priority = r
    BY <1>3, PopMoves DEF Defers
  <2>2. D' = D \cup {j} /\ IsInjective(deferred')
    BY <1>0, <1>3, <2>1, AppendFacts DEF Defers
  <2>3. StartsNone(w)
    BY <1>0, <1>3, <2>1, <2>2, SuspendMoves DEF Defers, StartsNone
  <2> QED
    BY <1>0, <2>1, <2>2, <2>3 DEF Apart, StartsNone
<1>4. CASE Waits(w)
  <2>1. UNCHANGED <<queue, deferred>> /\ Queued' = Queued
    BY <1>4 DEF Waits, Queued
  <2>2. StartsNone(w)
    BY <1>0, <1>4, <2>1, SuspendMoves DEF Waits, StartsNone
  <2> QED
    BY <1>0, <2>1, <2>2 DEF Apart, StartsNone
<1> QED
  BY <1>1, <1>2, <1>3, <1>4 DEF Picks

\* Every job in the queue is a job of the model, also the running ones.
LEMMA JobsTyped ==
    ASSUME TypeOK
    PROVE  WaitingJobs \subseteq Job /\ RunningJobs \subseteq Job
<1>1. \A s \in Seq(Job) : Range(s) \subseteq Job
  BY ElementOfSeq DEF Range
<1>2. WaitingJobs \subseteq Job
  BY <1>1 DEF TypeOK, WaitingJobs, Priorities
<1>3. RunningJobs \subseteq Job
  BY DEF TypeOK, RunningJobs, Running
<1> QED
  BY <1>2, <1>3

\* An accepted job waits, and is none of the jobs already there.
LEMMA EnqueueMoves ==
    ASSUME TypeOK, Apart,
           NEW user \in Users, NEW priority \in Priorities, Enqueue(user, priority)
    PROVE  LET j == [id |-> next_id, user |-> user, priority |-> priority]
           IN  /\ j \in Job /\ j \notin WaitingJobs \cup RunningJobs
               /\ WaitingJobs' = WaitingJobs \cup {j}
               /\ RunningJobs' = RunningJobs
               /\ Apart'
<1> DEFINE j == [id |-> next_id, user |-> user, priority |-> priority]
<1>1. next_id \in 1..MaxJobs /\ next_id \in Nat /\ next_id' = next_id + 1
  BY QueueAssumption DEF TypeOK, Enqueue
<1>2. j \in Job /\ j.id = next_id /\ j.priority = priority
  BY <1>1 DEF Job
<1>3. j \notin WaitingJobs \cup RunningJobs
  BY <1>1, <1>2 DEF Apart
<1>4. /\ queue'[priority] = Append(queue[priority], j)
      /\ \A r \in Priorities \ {priority} : queue'[r] = queue[r]
      /\ UNCHANGED <<deferred, job>>
  BY DEF Enqueue, TypeOK
<1>5. queue[priority] \in Seq(Job) /\ IsInjective(queue[priority])
  BY DEF TypeOK, Apart
<1>6. j \notin Range(queue[priority])
  BY <1>3 DEF WaitingJobs, Priorities
<1> HIDE DEF j
<1>7. Range(queue'[priority]) = Range(queue[priority]) \cup {j} /\ IsInjective(queue'[priority])
  BY <1>2, <1>4, <1>5, <1>6, AppendFacts
<1>8. Queued' = Queued \cup {j} /\ WaitingJobs' = WaitingJobs \cup {j}
  BY <1>4, <1>7 DEF Queued, WaitingJobs, Priorities
<1>9. Running' = Running /\ RunningJobs' = RunningJobs
  <2>1. \A w \in Workers : WokenWorker(w) = "running" <=> pc[w] = "running"
    BY DEF TypeOK, WokenWorker, WorkerStates
  <2>2. Running' = Running
    BY <2>1 DEF Enqueue, Running
  <2> QED
    BY <1>4, <2>2 DEF RunningJobs
<1>10. \A k \in WaitingJobs' \cup RunningJobs' : k.id < next_id'
  <2> SUFFICES ASSUME NEW k \in WaitingJobs \cup RunningJobs \cup {j}
               PROVE  k.id < next_id + 1
    BY <1>1, <1>8, <1>9
  <2>1. CASE k = j
    BY <1>1, <1>2, <2>1
  <2>2. CASE k \in WaitingJobs \cup RunningJobs
    <3>1. k.id < next_id /\ k.id \in Nat
      BY <2>2, JobsTyped, QueueAssumption DEF Apart, Job
    <3> QED
      BY <1>1, <3>1
  <2> QED
    BY <2>1, <2>2
<1>11. \A p \in Priorities : IsInjective(queue'[p]) /\ \A k \in Range(queue'[p]) : k.priority = p
  <2>1. \A p \in Priorities : p = priority \/ queue'[p] = queue[p]
    BY <1>4
  <2>2. \A k \in Range(queue'[priority]) : k.priority = priority
    BY <1>2, <1>7 DEF Apart
  <2> QED
    BY <1>7, <2>1, <2>2 DEF Apart
<1>12. Apart'
  <2>1. j \notin Range(deferred)
    BY <1>3 DEF WaitingJobs
  <2>2. IsInjective(deferred') /\ Queued' \cap Range(deferred') = {}
    BY <1>4, <1>8, <2>1 DEF Apart
  <2>3. WaitingJobs' \cap RunningJobs' = {}
    BY <1>3, <1>8, <1>9 DEF Apart
  <2> QED
    BY <1>10, <1>11, <2>2, <2>3 DEF Apart
<1> QED
  BY <1>2, <1>3, <1>8, <1>9, <1>12 DEF j

\* A shutdown leaves no job.
LEMMA ShutdownMoves ==
    ASSUME Shutdown
    PROVE  WaitingJobs' = {} /\ RunningJobs' = {} /\ Apart'
<1>1. deferred' = <<>> /\ Running' = {} /\ \A p \in Priorities : queue'[p] = <<>>
  BY DEF Shutdown, Running
<1>2. Range(<<>>) = {} /\ IsInjective(<<>>)
  BY DEF Range, IsInjective
<1>3. WaitingJobs' = {} /\ RunningJobs' = {} /\ Queued' = {}
  BY <1>1, <1>2 DEF WaitingJobs, RunningJobs, Queued, Priorities
<1> QED
  BY <1>1, <1>2, <1>3 DEF Apart

\* A step that touches neither the queues nor the workers moves no job.
LEMMA QuietMoves ==
    ASSUME UNCHANGED <<jobVars, workerVars, next_id>>
    PROVE  /\ WaitingJobs' = WaitingJobs /\ RunningJobs' = RunningJobs
           /\ Apart => Apart'
BY DEF jobVars, workerVars, WaitingJobs, RunningJobs, Running, Queued, Apart

\* Every job stays in one place.
LEMMA ApartStep == TypeOK /\ OneJobPerUser /\ Apart /\ [Next]_vars => Apart'
<1> SUFFICES ASSUME TypeOK, OneJobPerUser, Apart, [Next]_vars PROVE Apart'
  OBVIOUS
<1>1. ASSUME NEW user \in Users, NEW priority \in Priorities, Enqueue(user, priority)
      PROVE  Apart'
  BY <1>1, EnqueueMoves
<1>2. ASSUME NEW w \in Workers, Turn(w)
      PROVE  Apart'
  BY <1>2, TurnCases, PicksMoves
<1>3. CASE Shutdown
  BY <1>3, ShutdownMoves
<1>4. CASE UNCHANGED <<jobVars, workerVars, next_id>>
  BY <1>4, QuietMoves
<1> QED
  BY <1>1, <1>2, <1>3, <1>4 DEF Next, Close, BeginClose, JoinedVisible, vars

\* The empty queue holds no job.
LEMMA ApartInitially == Init => Apart /\ WaitingJobs = {} /\ RunningJobs = {}
<1> SUFFICES ASSUME Init PROVE Apart /\ WaitingJobs = {} /\ RunningJobs = {}
  OBVIOUS
<1>1. deferred = <<>> /\ Running = {} /\ \A p \in Priorities : queue[p] = <<>>
  BY DEF Init, Running
<1>2. Range(<<>>) = {} /\ IsInjective(<<>>)
  BY DEF Range, IsInjective
<1>3. WaitingJobs = {} /\ RunningJobs = {} /\ Queued = {}
  BY <1>1, <1>2 DEF WaitingJobs, RunningJobs, Queued, Priorities
<1> QED
  BY <1>1, <1>2, <1>3 DEF Apart

\* The jobs can be counted; each running worker has one of its own.
LEMMA JobsFinite ==
    ASSUME TypeOK, OneJobPerUser, Apart
    PROVE  /\ IsFiniteSet(WaitingJobs) /\ IsFiniteSet(RunningJobs)
           /\ Cardinality(RunningJobs) = Cardinality(Running)
           /\ Cardinality(WaitingJobs)
                = Len(queue["user_visible"]) + Len(queue["prefetch"]) + Len(deferred)
<1> DEFINE A == Range(queue["user_visible"])
           B == Range(queue["prefetch"])
           D == Range(deferred)
           f == [w \in Running |-> job[w]]
<1>1. /\ IsFiniteSet(A) /\ Cardinality(A) = Len(queue["user_visible"])
      /\ IsFiniteSet(B) /\ Cardinality(B) = Len(queue["prefetch"])
      /\ IsFiniteSet(D) /\ Cardinality(D) = Len(deferred)
  BY InjectiveLen DEF TypeOK, Apart, Priorities
<1>2. A \cap B = {} /\ (A \cup B) \cap D = {}
  BY DEF Apart, Queued, Priorities
<1>3. f \in [Running -> RunningJobs]
  BY DEF RunningJobs
<1>4. f \in Surjection(Running, RunningJobs)
  BY <1>3 DEF Surjection, RunningJobs
<1>5. f \in Injection(Running, RunningJobs)
  BY <1>3 DEF Injection, IsInjective, OneJobPerUser
<1>6. IsFiniteSet(RunningJobs) /\ Cardinality(RunningJobs) = Cardinality(Running)
  <2> HIDE DEF f
  <2> QED
    BY <1>4, <1>5, RunningFinite, FS_Surjection
<1>7. WaitingJobs = (A \cup B) \cup D
  BY DEF WaitingJobs
<1> HIDE DEF A, B, D
<1>8. IsFiniteSet(A \cup B) /\ Cardinality(A \cup B) = Cardinality(A) + Cardinality(B)
  BY <1>1, <1>2, DisjointCardinality
<1>9. /\ IsFiniteSet((A \cup B) \cup D)
      /\ Cardinality((A \cup B) \cup D) = Cardinality(A \cup B) + Cardinality(D)
  BY <1>1, <1>2, <1>8, DisjointCardinality
<1> QED
  BY <1>1, <1>6, <1>7, <1>8, <1>9

------------------------------------------------------------------------------
\* The count behind queue.join().

\* What a worker ran is its job, when it ran one.
LEMMA OwnJobsFacts ==
    ASSUME NEW w \in Workers
    PROVE  /\ OwnJobs(w) = IF pc[w] = "running" THEN {job[w]} ELSE {}
           /\ OwnJobs(w) \subseteq RunningJobs
BY DEF OwnJobs, Running, RunningJobs

\* A turn counts the job it ends, and no other.
LEMMA TurnCounts ==
    ASSUME NEW w \in Workers, Turn(w)
    PROVE  unfinished' = IF pc[w] = "running"
                         THEN [unfinished EXCEPT ![job[w].priority] = Decrement(@)]
                         ELSE unfinished
BY DEF Turn, Begin, Wake, Resume, Finish

\* A turn takes out of the queue the job it ends.
LEMMA TurnMoves ==
    ASSUME TypeOK, OneJobPerUser, Apart, NEW w \in Workers, Turn(w)
    PROVE  /\ StartsNone(w) \/ \E j \in Job : StartsJob(w, j)
           /\ WaitingJobs' \cup RunningJobs' = (WaitingJobs \cup RunningJobs) \ OwnJobs(w)
           /\ UNCHANGED next_id
<1>1. Picks(w) /\ UNCHANGED next_id
  BY TurnCases
<1>2. StartsNone(w) \/ \E j \in Job : StartsJob(w, j)
  BY <1>1, PicksMoves
<1>3. WaitingJobs \cap OwnJobs(w) = {}
  BY OwnJobsFacts DEF Apart
<1> QED
  BY <1>1, <1>2, <1>3 DEF StartsNone, StartsJob, Others

\* Jobs of one priority in a set.
OfPriority(S, p) == {j \in S : j.priority = p}

\* One job more in a set that can be counted.
LEMMA OfPriorityAdd ==
    ASSUME NEW S, IsFiniteSet(S), NEW j, j \notin S, NEW p
    PROVE  Cardinality(OfPriority(S \cup {j}, p))
              = Cardinality(OfPriority(S, p)) + (IF j.priority = p THEN 1 ELSE 0)
           /\ Cardinality(OfPriority(S, p)) \in Nat
<1>1. IsFiniteSet(OfPriority(S, p)) /\ Cardinality(OfPriority(S, p)) \in Nat
  BY FS_Subset, FS_CardinalityType DEF OfPriority
<1>2. CASE j.priority = p
  <2>1. OfPriority(S \cup {j}, p) = OfPriority(S, p) \cup {j} /\ j \notin OfPriority(S, p)
    BY <1>2 DEF OfPriority
  <2> QED
    BY <1>1, <1>2, <2>1, FS_AddElement
<1>3. CASE j.priority # p
  <2>1. OfPriority(S \cup {j}, p) = OfPriority(S, p)
    BY <1>3 DEF OfPriority
  <2> QED
    BY <1>1, <1>3, <2>1
<1> QED
  BY <1>1, <1>2, <1>3

\* One job less of a set that can be counted.
LEMMA OfPriorityRemove ==
    ASSUME NEW S, IsFiniteSet(S), NEW j \in S, NEW p
    PROVE  Cardinality(OfPriority(S \ {j}, p))
              = IF j.priority = p THEN Decrement(Cardinality(OfPriority(S, p)))
                                  ELSE Cardinality(OfPriority(S, p))
<1>1. IsFiniteSet(OfPriority(S, p)) /\ Cardinality(OfPriority(S, p)) \in Nat
  BY FS_Subset, FS_CardinalityType DEF OfPriority
<1>2. CASE j.priority = p
  <2>1. OfPriority(S \ {j}, p) = OfPriority(S, p) \ {j} /\ j \in OfPriority(S, p)
    BY <1>2 DEF OfPriority
  <2>2. Cardinality(OfPriority(S, p)) # 0
    BY <1>1, <2>1, FS_EmptySet
  <2> QED
    BY <1>1, <1>2, <2>1, <2>2, FS_RemoveElement DEF Decrement
<1>3. CASE j.priority # p
  <2>1. OfPriority(S \ {j}, p) = OfPriority(S, p)
    BY <1>3 DEF OfPriority
  <2> QED
    BY <1>3, <2>1
<1> QED
  BY <1>2, <1>3

\* JoinMeansDrained is inductive with Apart and the invariants it rests on.
LEMMA DrainedStep ==
    TypeOK /\ OneJobPerUser /\ Apart /\ JoinMeansDrained /\ [Next]_vars => JoinMeansDrained'
<1> DEFINE A == WaitingJobs \cup RunningJobs
<1> SUFFICES ASSUME TypeOK, OneJobPerUser, Apart, JoinMeansDrained, [Next]_vars
             PROVE  \A p \in Priorities : unfinished'[p] = Cardinality(OfPriority(A', p))
  BY DEF JoinMeansDrained, OfPriority
<1>0. /\ IsFiniteSet(A)
      /\ \A p \in Priorities : unfinished[p] = Cardinality(OfPriority(A, p))
      /\ unfinished \in [Priorities -> Nat]
  <2>1. IsFiniteSet(A)
    BY JobsFinite, FS_Union
  <2> QED
    BY <2>1 DEF JoinMeansDrained, OfPriority, TypeOK
<1>1. ASSUME NEW user \in Users, NEW priority \in Priorities, Enqueue(user, priority),
             NEW p \in Priorities
      PROVE  unfinished'[p] = Cardinality(OfPriority(A', p))
  <2> DEFINE j == [id |-> next_id, user |-> user, priority |-> priority]
  <2>1. j \notin A /\ A' = A \cup {j}
    BY <1>1, EnqueueMoves
  <2>2. j.priority = priority
    OBVIOUS
  <2>3. unfinished'[p] = unfinished[p] + (IF priority = p THEN 1 ELSE 0)
    BY <1>0, <1>1 DEF Enqueue
  <2> HIDE DEF j, A
  <2> QED
    BY <1>0, <2>1, <2>2, <2>3, OfPriorityAdd
<1>2. ASSUME NEW w \in Workers, Turn(w), NEW p \in Priorities
      PROVE  unfinished'[p] = Cardinality(OfPriority(A', p))
  <2>1. A' = A \ OwnJobs(w) /\ OwnJobs(w) \subseteq A
    BY <1>2, TurnMoves, OwnJobsFacts
  <2>2. CASE pc[w] = "running"
    <3>1. job[w] \in A /\ A' = A \ {job[w]}
      BY <2>1, <2>2, OwnJobsFacts
    <3>2. unfinished'[p] = IF job[w].priority = p THEN Decrement(unfinished[p])
                                                  ELSE unfinished[p]
      BY <1>0, <1>2, <2>2, TurnCounts
    <3> HIDE DEF A
    <3> QED
      BY <1>0, <3>1, <3>2, OfPriorityRemove
  <2>3. CASE pc[w] # "running"
    <3>1. A' = A
      BY <2>1, <2>3, OwnJobsFacts
    <3>2. unfinished' = unfinished
      BY <1>2, <2>3, TurnCounts
    <3> QED
      BY <1>0, <3>1, <3>2
  <2> QED
    BY <2>2, <2>3
<1>3. CASE Shutdown
  <2>1. A' = {}
    BY <1>3, ShutdownMoves
  <2>2. \A p \in Priorities : unfinished'[p] = 0
    BY <1>3 DEF Shutdown
  <2>3. \A p : OfPriority({}, p) = {}
    BY DEF OfPriority
  <2> QED
    BY <2>1, <2>2, <2>3, FS_EmptySet
<1>4. CASE UNCHANGED <<jobVars, workerVars, next_id>>
  <2>1. A' = A /\ unfinished' = unfinished
    BY <1>4, QuietMoves DEF jobVars
  <2> QED
    BY <1>0, <2>1
<1> QED
  BY <1>1, <1>2, <1>3, <1>4 DEF Next, Close, BeginClose, JoinedVisible, vars

\* Apart, with the invariants it rests on, holds in every state.
LEMMA ApartHolds == Spec => [](TypeOK /\ OneJobPerUser /\ Apart)
<1> QED
  BY ApartInitially, ApartStep, TypeCorrect, OneJobPerUserHolds, PTL DEF Spec

\* queue.join() returns only when no job of its priority is queued, set aside or running,
\* for every number of workers: task_done() is called once for each job, on the queue the
\* job came from, also when the job had been set aside in between.
THEOREM JoinMeansDrainedHolds == Spec => []JoinMeansDrained
<1>1. Init => JoinMeansDrained
  <2> SUFFICES ASSUME Init PROVE JoinMeansDrained
    OBVIOUS
  <2>1. WaitingJobs \cup RunningJobs = {} /\ \A p \in Priorities : unfinished[p] = 0
    BY ApartInitially DEF Init
  <2> QED
    BY <2>1, FS_EmptySet DEF JoinMeansDrained
<1> QED
  BY <1>1, DrainedStep, ApartHolds, PTL DEF Spec

------------------------------------------------------------------------------
\* The three counters behind a queue position.

\* Two of them count what they are named for; the third is a length.
CountersExact ==
    /\ pending_user_visible = Len(queue["user_visible"])
    /\ processing_user_visible = Cardinality(OfPriority(RunningJobs, "user_visible"))

\* LeftBy(w).visible counts the others' user-visible jobs.
LEMMA LeftVisible ==
    ASSUME TypeOK, OneJobPerUser, Apart, CountersExact, NEW w \in Workers
    PROVE  /\ LeftBy(w).visible = Cardinality(OfPriority(Others(w), "user_visible"))
           /\ IsFiniteSet(Others(w))
<1>1. IsFiniteSet(RunningJobs) /\ IsFiniteSet(Others(w))
  BY JobsFinite, FS_Subset DEF Others
<1>2. CASE pc[w] = "running"
  <2>1. job[w] \in RunningJobs /\ Others(w) = RunningJobs \ {job[w]}
    BY <1>2, OwnJobsFacts DEF Others
  <2>2. LeftBy(w).visible = IF job[w].priority = "user_visible"
                            THEN Decrement(processing_user_visible)
                            ELSE processing_user_visible
    BY <1>2 DEF LeftBy, ReleasedBy
  <2> QED
    BY <1>1, <2>1, <2>2, OfPriorityRemove DEF CountersExact
<1>3. CASE pc[w] # "running"
  <2>1. Others(w) = RunningJobs
    BY <1>3, OwnJobsFacts DEF Others
  <2>2. LeftBy(w).visible = processing_user_visible
    BY <1>3 DEF LeftBy, Released
  <2> QED
    BY <1>1, <2>1, <2>2 DEF CountersExact
<1> QED
  BY <1>1, <1>2, <1>3

\* A worker that starts a job counts it with the others' jobs.
LEMMA RunCounts ==
    ASSUME TypeOK, OneJobPerUser, Apart, CountersExact, NEW w \in Workers,
           NEW j \in Job, j \in WaitingJobs, Run(w, j, LeftBy(w))
    PROVE  processing_user_visible' = Cardinality(OfPriority(RunningJobs', "user_visible"))
<1>1. RunningJobs' = Others(w) \cup {j} /\ j \notin Others(w)
  BY RunMoves DEF Apart, Others
<1>2. processing_user_visible' = LeftBy(w).visible + (IF j.priority = "user_visible" THEN 1 ELSE 0)
  BY DEF Run, VisibleUnit
<1> QED
  BY <1>1, <1>2, LeftVisible, OfPriorityAdd

\* Popping a queue lowers the pending counter by the job it takes.
LEMMA PopCounts ==
    ASSUME TypeOK, CountersExact, NEW p \in Priorities, PopsQueue(p)
    PROVE  pending_user_visible' = Len(queue'["user_visible"])
<1>1. CASE p = "user_visible"
  <2> DEFINE n == Len(queue["user_visible"])
  <2>1. queue["user_visible"] \in Seq(Job) /\ queue["user_visible"] # <<>>
    BY <1>1 DEF TypeOK, PopsQueue
  <2>2. n \in Nat /\ n # 0 /\ Len(Tail(queue["user_visible"])) = n - 1
    BY <2>1, LenProperties, HeadTailProperties, EmptySeq
  <2>3. queue'["user_visible"] = Tail(queue["user_visible"]) /\ pending_user_visible' = Decrement(n)
    BY <1>1 DEF TypeOK, PopsQueue, CountersExact
  <2> QED
    BY <2>2, <2>3 DEF Decrement
<1>2. CASE p # "user_visible"
  <2>1. queue'["user_visible"] = queue["user_visible"] /\ UNCHANGED pending_user_visible
    BY <1>2 DEF TypeOK, PopsQueue, Priorities
  <2> QED
    BY <2>1 DEF CountersExact
<1> QED
  BY <1>1, <1>2

\* Every outcome of a turn keeps the counters exact.
LEMMA PicksCounts ==
    ASSUME TypeOK, OneJobPerUser, Apart, CountersExact, NEW w \in Workers, Picks(w)
    PROVE  CountersExact'
<1> DEFINE Exact == processing_user_visible'
                        = Cardinality(OfPriority(RunningJobs', "user_visible"))
<1>1. ASSUME NEW s \in {"waiting", "asleep_visible", "asleep_prefetch"},
             Suspend(w, s, LeftBy(w))
      PROVE  Exact
  <2>1. processing_user_visible' = LeftBy(w).visible /\ RunningJobs' = Others(w)
    BY <1>1, SuspendMoves DEF Suspend
  <2> QED
    BY <2>1, LeftVisible
<1>2. ASSUME NEW i \in DOMAIN deferred, RunsDeferred(w, i)
      PROVE  CountersExact'
  <2>1. deferred[i] \in Job /\ deferred[i] \in WaitingJobs
    BY ElementOfSeq DEF TypeOK, WaitingJobs, Range
  <2>2. Exact
    BY <1>2, <2>1, RunCounts DEF RunsDeferred
  <2> QED
    BY <1>2, <2>2 DEF RunsDeferred, CountersExact
<1>3. ASSUME NEW p \in Priorities, RunsQueued(w, p)
      PROVE  CountersExact'
  <2>1. Head(queue[p]) \in Job /\ Head(queue[p]) \in WaitingJobs
    BY <1>3, PopMoves DEF RunsQueued, Queued, WaitingJobs
  <2>2. Exact
    BY <1>3, <2>1, RunCounts DEF RunsQueued
  <2> QED
    BY <1>3, <2>2, PopCounts DEF RunsQueued, CountersExact
<1>4. ASSUME NEW p \in Priorities, Defers(w, p)
      PROVE  CountersExact'
  BY <1>1, <1>4, PopCounts DEF Defers, CountersExact
<1>5. CASE Waits(w)
  BY <1>1, <1>5 DEF Waits, CountersExact
<1> QED
  BY <1>2, <1>3, <1>4, <1>5 DEF Picks

\* CountersExact is inductive with the invariants before it.
LEMMA CountersStep ==
    TypeOK /\ OneJobPerUser /\ Apart /\ CountersExact /\ [Next]_vars => CountersExact'
<1> SUFFICES ASSUME TypeOK, OneJobPerUser, Apart, CountersExact, [Next]_vars
             PROVE  CountersExact'
  OBVIOUS
<1>1. ASSUME NEW user \in Users, NEW priority \in Priorities, Enqueue(user, priority)
      PROVE  CountersExact'
  <2> DEFINE j == [id |-> next_id, user |-> user, priority |-> priority]
             n == Len(queue["user_visible"])
  <2>1. j \in Job /\ RunningJobs' = RunningJobs /\ UNCHANGED processing_user_visible
    BY <1>1, EnqueueMoves DEF Enqueue
  <2>2. queue["user_visible"] \in Seq(Job) /\ n \in Nat
    BY LenProperties DEF TypeOK, Priorities
  <2>3. Len(queue'["user_visible"]) = n + VisibleUnit(priority)
    <3>1. CASE priority = "user_visible"
      <4>1. queue'["user_visible"] = Append(queue["user_visible"], j)
        BY <1>1, <3>1 DEF Enqueue, TypeOK
      <4> HIDE DEF j
      <4> QED
        BY <2>1, <2>2, <3>1, <4>1, AppendProperties DEF VisibleUnit
    <3>2. CASE priority # "user_visible"
      <4>1. queue'["user_visible"] = queue["user_visible"]
        BY <1>1, <3>2 DEF Enqueue, TypeOK, Priorities
      <4> QED
        BY <2>2, <3>2, <4>1 DEF VisibleUnit
    <3> QED
      BY <3>1, <3>2
  <2>4. pending_user_visible' = n + VisibleUnit(priority)
    BY <1>1 DEF Enqueue, CountersExact
  <2> QED
    BY <2>1, <2>3, <2>4 DEF CountersExact
<1>2. ASSUME NEW w \in Workers, Turn(w)
      PROVE  CountersExact'
  BY <1>2, TurnCases, PicksCounts
<1>3. CASE Shutdown
  <2>1. RunningJobs' = {} /\ processing_user_visible' = 0 /\ pending_user_visible' = 0
        /\ queue'["user_visible"] = <<>>
    BY <1>3, ShutdownMoves DEF Shutdown, Priorities
  <2>2. OfPriority({}, "user_visible") = {} /\ Len(<<>>) = 0
    BY EmptySeq DEF OfPriority
  <2> QED
    BY <2>1, <2>2, FS_EmptySet DEF CountersExact
<1>4. CASE UNCHANGED <<jobVars, workerVars, next_id>>
  BY <1>4, QuietMoves DEF CountersExact, jobVars, workerVars
<1> QED
  BY <1>1, <1>2, <1>3, <1>4 DEF Next, Close, BeginClose, JoinedVisible, vars

\* Apart cuts the user-visible jobs into the three sets the counters stand for.
LEMMA PositionFromCounters ==
    ASSUME TypeOK, OneJobPerUser, Apart, CountersExact
    PROVE  PositionExact
<1> DEFINE A == Range(queue["user_visible"])
           D == OfPriority(Range(deferred), "user_visible")
           R == OfPriority(RunningJobs, "user_visible")
<1>1. IsFiniteSet(A) /\ Cardinality(A) = Len(queue["user_visible"])
  BY InjectiveLen DEF TypeOK, Apart, Priorities
<1>2. IsFiniteSet(D) /\ IsFiniteSet(R)
  <2>1. IsFiniteSet(Range(deferred)) /\ IsFiniteSet(RunningJobs)
    BY JobsFinite, InjectiveLen DEF TypeOK, Apart
  <2> QED
    BY <2>1, FS_Subset DEF OfPriority
<1>3. A \cap R = {} /\ (A \cup R) \cap D = {}
  BY DEF Apart, Queued, WaitingJobs, OfPriority
<1>4. OfPriority(WaitingJobs \cup RunningJobs, "user_visible") = (A \cup R) \cup D
  BY DEF Apart, WaitingJobs, OfPriority, Priorities
<1>5. pending_user_visible = Cardinality(A) /\ processing_user_visible = Cardinality(R)
  BY <1>1 DEF CountersExact
<1> HIDE DEF A, D, R
<1>6. IsFiniteSet(A \cup R) /\ Cardinality(A \cup R) = Cardinality(A) + Cardinality(R)
  BY <1>1, <1>2, <1>3, DisjointCardinality
<1>7. Cardinality((A \cup R) \cup D) = Cardinality(A \cup R) + Cardinality(D)
  BY <1>2, <1>3, <1>6, DisjointCardinality
<1>8. pending_user_visible + processing_user_visible + Cardinality(D)
        = Cardinality(OfPriority(WaitingJobs \cup RunningJobs, "user_visible"))
  BY <1>4, <1>5, <1>6, <1>7
<1> QED
  BY <1>8 DEF PositionExact, D, OfPriority

\* The position reported to a user is exact in every state: the counters of queued and
\* running user-visible jobs and the jobs set aside add up to the user-visible jobs there
\* are, although no two of the three are changed at one place of the code.
THEOREM PositionExactHolds == Spec => []PositionExact
<1>1. Init => CountersExact
  <2> SUFFICES ASSUME Init PROVE CountersExact
    OBVIOUS
  <2>1. /\ RunningJobs = {} /\ processing_user_visible = 0 /\ pending_user_visible = 0
        /\ queue["user_visible"] = <<>>
    BY ApartInitially DEF Init, Priorities
  <2>2. OfPriority({}, "user_visible") = {} /\ Len(<<>>) = 0
    BY EmptySeq DEF OfPriority
  <2> QED
    BY <2>1, <2>2, FS_EmptySet DEF CountersExact
<1>2. TypeOK /\ OneJobPerUser /\ Apart /\ CountersExact => PositionExact
  BY PositionFromCounters
<1> QED
  BY <1>1, <1>2, CountersStep, ApartHolds, PTL DEF Spec

------------------------------------------------------------------------------
\* The queue keeps the promises of AudioQueueSpec.

Implements == [AbstractQueue!Next]_AbstractQueue!vars

\* The instance counts as this module does.
LEMMA SameCardinality == \A S : AbstractQueue!Cardinality(S) = Cardinality(S)
BY DEF AbstractQueue!Cardinality, Cardinality

\* A turn that starts no job ends one, or is not seen.
LEMMA StartsNoneImplements ==
    ASSUME NEW w \in Workers, StartsNone(w), UNCHANGED next_id
    PROVE  Implements
<1>1. CASE pc[w] = "running"
  <2>1. job[w] \in RunningJobs /\ RunningJobs' = RunningJobs \ {job[w]}
    BY <1>1, OwnJobsFacts DEF StartsNone, Others
  <2>2. AbstractQueue!Finish(job[w])
    BY <2>1 DEF AbstractQueue!Finish, StartsNone
  <2> QED
    BY <2>1, <2>2 DEF Implements, AbstractQueue!Next
<1>2. CASE pc[w] # "running"
  <2>1. RunningJobs' = RunningJobs
    BY <1>2, OwnJobsFacts DEF StartsNone, Others
  <2> QED
    BY <2>1 DEF Implements, AbstractQueue!vars, StartsNone
<1> QED
  BY <1>1, <1>2

\* A turn that starts a job may start it: its user has no other job running, and no
\* older user-visible job waiting.
LEMMA StartsJobImplements ==
    ASSUME TypeOK, Apart, OneJobPerUser', UserOrder',
           NEW w \in Workers, NEW j \in Job, StartsJob(w, j), UNCHANGED next_id
    PROVE  Implements
<1>1. /\ j \in WaitingJobs /\ WaitingJobs' = WaitingJobs \ {j}
      /\ w \in Running' /\ job'[w] = j
      /\ RunningJobs' = Others(w) \cup {j} /\ j \notin Others(w)
  BY DEF StartsJob, Apart, Others
<1>2. ASSUME NEW k \in Others(w)
      PROVE  k.user # j.user
  <2>1. PICK v \in Running' : k = job'[v]
    BY <1>1 DEF RunningJobs
  <2>2. v # w
    BY <1>1, <2>1
  <2> QED
    BY <1>1, <2>1, <2>2 DEF OneJobPerUser
<1>3. ASSUME j.priority = "user_visible",
             NEW k \in WaitingJobs, k.user = j.user, k.priority = "user_visible"
      PROVE  j.id <= k.id
  <2>1. j.id \in Nat /\ k.id \in Nat
    BY JobsTyped, QueueAssumption DEF Job
  <2>2. CASE k = j
    BY <2>1, <2>2
  <2>3. CASE k # j
    <3>1. j.id < k.id
      BY <1>1, <1>3, <2>3 DEF UserOrder
    <3> QED
      BY <2>1, <3>1
  <2> QED
    BY <2>2, <2>3
<1>4. AbstractQueue!MayStart(j, Others(w))
  BY <1>2, <1>3 DEF AbstractQueue!MayStart
<1>5. CASE pc[w] = "running"
  <2>1. job[w] \in RunningJobs /\ Others(w) = RunningJobs \ {job[w]}
    BY <1>5, OwnJobsFacts DEF Others
  <2>2. AbstractQueue!Handover(job[w], j)
    BY <1>1, <1>4, <2>1 DEF AbstractQueue!Handover
  <2> QED
    BY <1>1, <2>1, <2>2 DEF Implements, AbstractQueue!Next
<1>6. CASE pc[w] # "running"
  <2>1. Others(w) = RunningJobs
    BY <1>6, OwnJobsFacts DEF Others
  <2>2. AbstractQueue!Start(j)
    BY <1>1, <1>4, <2>1 DEF AbstractQueue!Start
  <2> QED
    BY <1>1, <2>2 DEF Implements, AbstractQueue!Next
<1> QED
  BY <1>5, <1>6

\* The capacity check counts the jobs that wait and run.
LEMMA CapacityCounts ==
    ASSUME TypeOK, OneJobPerUser, Apart, ProcessingExact
    PROVE  AbstractQueue!Cardinality(WaitingJobs \cup RunningJobs) = ActiveJobs
<1> DEFINE a == Len(queue["user_visible"])
           b == Len(queue["prefetch"])
           d == Len(deferred)
<1>1. /\ IsFiniteSet(WaitingJobs) /\ IsFiniteSet(RunningJobs)
      /\ Cardinality(RunningJobs) = processing
      /\ Cardinality(WaitingJobs) = a + b + d
  BY JobsFinite DEF ProcessingExact
<1>2. Cardinality(WaitingJobs \cup RunningJobs) = (a + b + d) + processing
  BY <1>1, DisjointCardinality DEF Apart
<1>3. ActiveJobs = (a + b + d) + processing
  BY DEF ActiveJobs
<1> QED
  BY <1>2, <1>3, SameCardinality

\* An accepted job had room.
LEMMA EnqueueImplements ==
    ASSUME TypeOK, OneJobPerUser, Apart, ProcessingExact,
           NEW user \in Users, NEW priority \in Priorities, Enqueue(user, priority)
    PROVE  Implements
<1>1. /\ WaitingJobs' = WaitingJobs
           \cup {[id |-> next_id, user |-> user, priority |-> priority]}
      /\ RunningJobs' = RunningJobs
  BY EnqueueMoves
<1>2. AbstractQueue!Cardinality(WaitingJobs \cup RunningJobs) < MaxQueueSize
  BY CapacityCounts DEF Enqueue
<1>3. next_id <= MaxJobs /\ next_id' = next_id + 1
  BY DEF Enqueue
<1>4. AbstractQueue!Accept(user, priority)
  BY <1>1, <1>2, <1>3 DEF AbstractQueue!Accept
<1> QED
  BY <1>4 DEF Implements, AbstractQueue!Next, Priorities

\* Every step of the queue is a step of AudioQueueSpec, or one it does not see.
LEMMA StepImplements ==
    TypeOK /\ OneJobPerUser /\ Apart /\ ProcessingExact /\ OneJobPerUser' /\ UserOrder'
        /\ [Next]_vars
    => [AbstractQueue!Next]_AbstractQueue!vars
<1> SUFFICES ASSUME TypeOK, OneJobPerUser, Apart, ProcessingExact, OneJobPerUser', UserOrder',
                    [Next]_vars
             PROVE  Implements
  BY DEF Implements
<1>1. CASE \E user \in Users, priority \in Priorities : Enqueue(user, priority)
  BY <1>1, EnqueueImplements
<1>2. CASE \E w \in Workers : Turn(w)
  BY <1>2, TurnMoves, StartsNoneImplements, StartsJobImplements
<1>3. CASE Shutdown
  <2>1. AbstractQueue!Shutdown
    BY <1>3, ShutdownMoves DEF AbstractQueue!Shutdown, Shutdown
  <2> QED
    BY <2>1 DEF Implements, AbstractQueue!Next
<1>4. CASE UNCHANGED <<jobVars, workerVars, next_id>>
  BY <1>4, QuietMoves DEF Implements, AbstractQueue!vars
<1> QED
  BY <1>1, <1>2, <1>3, <1>4 DEF Next, Close, BeginClose, JoinedVisible, vars

\* The in-process queue keeps what AudioQueueSpec promises, for every number of users,
\* workers and jobs and every capacity: a job is accepted only while there is room, starts
\* at most once, beside no other job of its user and after his older user-visible ones,
\* and only a shutdown drops it.
THEOREM ImplementsAudioQueueHolds == Spec => ImplementsAudioQueue
<1>1. Init => AbstractQueue!Init
  BY ApartInitially DEF Init, AbstractQueue!Init
<1>2. CapacityInv => ProcessingExact
  BY DEF CapacityInv
<1> QED
  BY <1>1, <1>2, CapacityInitially, CapacityStep, StepImplements, TypeCorrect, ApartHolds,
     OneJobPerUserHolds, UserOrderHolds, PTL
     DEF Spec, ImplementsAudioQueue, AbstractQueue!Spec

------------------------------------------------------------------------------
\* No lost wake-up.

\* Workers that look at the user-visible queue and at the jobs set aside before they
\* suspend again, or that take a job of a user they release.
WillLook == {w \in Workers : pc[w] \in {"fresh", "woken", "running", "asleep_visible"}}
Awake == {w \in Workers : pc[w] \notin {"absent", "waiting"}}

\* An event that is set has woken every worker.  Once it is cleared, a worker that
\* looks everywhere stands behind each job, except behind queued prefetch jobs, which
\* a worker asleep in the prefetch loop also sees.
WakeInv ==
    /\ enqueue_event => Awake = Workers
    /\ (~enqueue_event /\ (queue["user_visible"] # <<>> \/ deferred # <<>>)) => WillLook # {}
    /\ queue["prefetch"] # <<>> => Awake # {}

\* A scan that stops nowhere has seen that no source offers a job.
LEMMA NothingOffered ==
    ASSUME NEW busy, NEW from \in 1..4, FirstOffer(from, busy) = {}
    PROVE  \A s \in from..4 : ~Offers(s, busy)
<1>1. \A s \in from..4 : Offers(s, busy) => \E r \in from..(s - 1) : Offers(r, busy)
  BY DEF FirstOffer, QueuedPrefetch
<1>2. 1 \in from..4 => ~Offers(1, busy)
  BY <1>1
<1>3. 2 \in from..4 => ~Offers(2, busy)
  BY <1>1, <1>2
<1>4. 3 \in from..4 => ~Offers(3, busy)
  BY <1>1, <1>2, <1>3
<1>5. 4 \in from..4 => ~Offers(4, busy)
  BY <1>1, <1>2, <1>3, <1>4
<1>6. \A s \in from..4 : s \in {1, 2, 3, 4}
  OBVIOUS
<1> QED
  BY <1>2, <1>3, <1>4, <1>5, <1>6

\* A worker that serves a source runs a job or sleeps; it does not wait.
LEMMA ServeStaysAwake ==
    ASSUME TypeOK, NEW w \in Workers, NEW s, NEW rel, Serve(w, s, rel)
    PROVE  pc'[w] # "waiting"
BY DEF Serve, TakeDeferred, TakeQueued, Run, Suspend, TypeOK

\* What a worker that goes to wait has seen in its last scan.
SawNothing(w, from) ==
    /\ from \in 1..4
    /\ FirstOffer(from, LeftBy(w).users) = {}
    /\ \/ from = DeferredVisible
       \/ from = QueuedVisible /\ pc[w] = "asleep_visible"
       \/ from = QueuedPrefetch /\ pc[w] = "asleep_prefetch" /\ ~enqueue_event

WaitsForGood(w) ==
    /\ Waits(w)
    /\ ~enqueue_event'
    /\ \E from \in 1..4 : SawNothing(w, from)

\* A turn serves a source, or waits with the event cleared after a scan.
LEMMA TurnEnds ==
    ASSUME TypeOK, NEW w \in Workers, Turn(w)
    PROVE  \/ pc'[w] # "waiting" /\ (enqueue_event' => enqueue_event)
           \/ WaitsForGood(w)
<1> USE DEF DeferredVisible, QueuedVisible, DeferredPrefetch, QueuedPrefetch
<1> DEFINE rel == LeftBy(w)
           Served == pc'[w] # "waiting" /\ (enqueue_event' => enqueue_event)
<1>1. ASSUME ScanOrWait(w, rel), enqueue_event' = FALSE
      PROVE  Served \/ WaitsForGood(w)
  <2>1. CASE \E s \in FirstOffer(1, rel.users) : Serve(w, s, rel)
    BY <1>1, <2>1, ServeStaysAwake
  <2>2. CASE FirstOffer(1, rel.users) = {} /\ Waits(w)
    BY <1>1, <2>2 DEF WaitsForGood, SawNothing
  <2> QED
    BY <1>1, <2>1, <2>2 DEF ScanOrWait, Waits
<1>2. ASSUME NEW from \in 1..4, ScanFrom(w, from, rel),
             \/ from = 1
             \/ from = 2 /\ pc[w] = "asleep_visible"
             \/ from = 4 /\ pc[w] = "asleep_prefetch"
      PROVE  Served \/ WaitsForGood(w)
  <2>1. CASE (\E s \in FirstOffer(from, rel.users) : Serve(w, s, rel)) /\ UNCHANGED enqueue_event
    BY <2>1, ServeStaysAwake
  <2>2. CASE enqueue_event' = FALSE /\ enqueue_event /\ ScanOrWait(w, rel)
    BY <1>1, <2>2
  <2>3. CASE /\ FirstOffer(from, rel.users) = {} /\ enqueue_event' = FALSE
             /\ ~enqueue_event /\ Waits(w)
    BY <1>2, <2>3 DEF WaitsForGood, SawNothing
  <2> QED
    BY <1>2, <2>1, <2>2, <2>3 DEF ScanFrom, Waits
<1>3. CASE Begin(w)
  <2>1. ScanFrom(w, 1, rel)
    BY <1>3 DEF Begin, LeftBy
  <2> QED
    BY <2>1, <1>2
<1>4. CASE Wake(w)
  <2>1. ScanOrWait(w, rel) /\ enqueue_event' = FALSE
    BY <1>4 DEF Wake, LeftBy
  <2> QED
    BY <2>1, <1>1
<1>5. CASE Resume(w)
  <2>1. \/ pc[w] = "asleep_visible" /\ ScanFrom(w, 2, rel)
        \/ pc[w] = "asleep_prefetch" /\ ScanFrom(w, 4, rel)
    BY <1>5 DEF Resume, LeftBy
  <2> QED
    BY <2>1, <1>2
<1>6. CASE Finish(w)
  <2>1. ScanFrom(w, 1, rel)
    BY <1>6 DEF Finish, LeftBy
  <2> QED
    BY <2>1, <1>2
<1> QED
  BY <1>3, <1>4, <1>5, <1>6 DEF Turn

\* Starting a job and setting one aside both leave a worker that runs one.
LEMMA PicksLeavesRunning ==
    ASSUME TypeOK, OneJobPerUser, NEW w \in Workers, Picks(w), pc'[w] # "waiting"
    PROVE  \E v \in Workers : pc'[v] = "running"
<1>1. ASSUME NEW j, Run(w, j, LeftBy(w))
      PROVE  pc'[w] = "running"
  BY <1>1 DEF Run, TypeOK
<1>2. ASSUME NEW p \in Priorities, Defers(w, p)
      PROVE  \E v \in Workers : pc'[v] = "running"
  <2>1. PICK v \in Running \ {w} : Head(queue[p]).user = job[v].user
    BY <1>2, LeftUsers DEF Defers
  <2>2. pc'[v] = "running"
    BY <1>2, <2>1 DEF Defers, Suspend, Running, TypeOK
  <2> QED
    BY <2>1, <2>2 DEF Running
<1>3. ~Waits(w)
  BY DEF Waits, Suspend, TypeOK
<1> QED
  BY <1>1, <1>2, <1>3 DEF Picks, RunsDeferred, RunsQueued

\* A worker that goes to wait leaves another one behind what is left.
LEMMA WaitsSafely ==
    ASSUME TypeOK, OneJobPerUser, DeferredOnlyWhileBusy, WakeInv,
           NEW w \in Workers, WaitsForGood(w)
    PROVE  WakeInv'
<1> USE DEF DeferredVisible, QueuedVisible, DeferredPrefetch, QueuedPrefetch
<1> DEFINE busy == LeftBy(w).users
<1>1. /\ Suspend(w, "waiting", LeftBy(w)) /\ UNCHANGED <<queue, deferred>>
      /\ ~enqueue_event'
  BY DEF WaitsForGood, Waits
<1>2. \A v \in Workers \ {w} : pc'[v] = pc[v]
  BY <1>1 DEF Suspend, TypeOK
<1>3. PICK from \in 1..4 : SawNothing(w, from)
  BY DEF WaitsForGood
<1>4. \A s \in from..4 : ~Offers(s, busy)
  BY <1>3, NothingOffered DEF SawNothing
<1>5. queue["prefetch"] = <<>>
  <2>1. ~Offers(4, busy)
    BY <1>4
  <2> QED
    BY <2>1 DEF Offers, PriorityOf
<1>6. CASE from = 4 /\ pc[w] = "asleep_prefetch" /\ ~enqueue_event
  <2>1. w \notin WillLook
    BY <1>6 DEF WillLook
  <2>2. \A v \in WillLook : v \in WillLook'
    BY <1>2, <2>1 DEF WillLook
  <2> QED
    BY <1>1, <1>5, <1>6, <2>2 DEF WakeInv
<1>7. CASE from \in {1, 2}
  <2>1. queue["user_visible"] = <<>>
    <3>1. ~Offers(2, busy)
      BY <1>4, <1>7
    <3> QED
      BY <3>1 DEF Offers, PriorityOf
  <2>2. ASSUME NEW i \in DOMAIN deferred
        PROVE  deferred[i].user \in busy
    <3>1. deferred[i] \in Job
      BY ElementOfSeq DEF TypeOK
    <3>2. CASE deferred[i].priority = "prefetch"
      <4>1. ~Offers(3, busy)
        BY <1>4, <1>7
      <4> QED
        BY <3>2, <4>1 DEF Offers, PriorityOf, FreeDeferred
    <3>3. CASE deferred[i].priority = "user_visible" /\ from = 1
      <4>1. ~Offers(1, busy)
        BY <1>4, <3>3
      <4> QED
        BY <3>3, <4>1 DEF Offers, PriorityOf, FreeDeferred
    <3>4. CASE deferred[i].priority = "user_visible" /\ from = 2
      <4>1. busy = active_users
        BY <1>3, <3>4 DEF SawNothing, LeftBy, Released
      <4> QED
        BY <3>4, <4>1 DEF DeferredOnlyWhileBusy
    <3> QED
      BY <1>7, <3>1, <3>2, <3>3, <3>4 DEF Job, Priorities
  <2>3. ASSUME deferred # <<>>
        PROVE  WillLook' # {}
    <3>1. PICK i \in DOMAIN deferred : TRUE
      <4>1. deferred \in Seq(Job) /\ Len(deferred) \in Nat /\ DOMAIN deferred = 1..Len(deferred)
        BY LenProperties DEF TypeOK
      <4>2. Len(deferred) # 0
        BY <2>3, <4>1, EmptySeq
      <4>3. 1 \in DOMAIN deferred
        BY <4>1, <4>2
      <4> QED
        BY <4>3
    <3>2. PICK v \in Running \ {w} : deferred[i].user = job[v].user
      BY <2>2, LeftUsers
    <3>3. v \in WillLook'
      BY <1>2, <3>2 DEF Running, WillLook
    <3> QED
      BY <3>3
  <2> QED
    BY <1>1, <1>5, <2>1, <2>3 DEF WakeInv
<1> QED
  BY <1>3, <1>6, <1>7 DEF SawNothing

\* WakeInv is inductive with the types, the reservations and DeferredOnlyWhileBusy.
LEMMA WakeStep ==
    TypeOK /\ OneJobPerUser /\ DeferredOnlyWhileBusy /\ WakeInv /\ [Next]_vars => WakeInv'
<1> SUFFICES ASSUME TypeOK, OneJobPerUser, DeferredOnlyWhileBusy, WakeInv, [Next]_vars
             PROVE  WakeInv'
  OBVIOUS
<1>1. ASSUME NEW user \in Users, NEW priority \in Priorities, Enqueue(user, priority)
      PROVE  WakeInv'
  <2>1. \A w \in Workers : WokenWorker(w) \notin {"absent", "waiting"}
    BY DEF WokenWorker
  <2>2. pc' = [w \in Workers |-> WokenWorker(w)] /\ enqueue_event'
    BY <1>1 DEF Enqueue
  <2>3. Awake' = Workers
    BY <2>1, <2>2 DEF Awake
  <2> QED
    BY <2>2, <2>3, QueueAssumption DEF WakeInv
<1>2. ASSUME NEW w \in Workers, Turn(w)
      PROVE  WakeInv'
  <2>1. CASE WaitsForGood(w)
    BY <2>1, WaitsSafely
  <2>2. CASE pc'[w] # "waiting" /\ (enqueue_event' => enqueue_event)
    <3>1. PICK v \in Workers : pc'[v] = "running"
      BY <1>2, <2>2, TurnCases, PicksLeavesRunning
    <3>2. v \in WillLook' /\ v \in Awake'
      BY <3>1 DEF WillLook, Awake
    <3>3. /\ \A u \in Workers \ {w} : pc'[u] = pc[u]
          /\ pc'[w] # "absent"
      <4>1. Picks(w)
        BY <1>2, TurnCases
      <4>2. \/ \E j : Run(w, j, LeftBy(w))
            \/ \E s \in {"waiting", "asleep_visible", "asleep_prefetch"} :
                  Suspend(w, s, LeftBy(w))
        BY <4>1 DEF Picks, RunsDeferred, RunsQueued, Defers, Waits
      <4> QED
        BY <4>2 DEF Run, Suspend, TypeOK
    <3>4. enqueue_event' => Awake' = Workers
      BY <2>2, <3>3 DEF WakeInv, Awake
    <3> QED
      BY <3>2, <3>4 DEF WakeInv
  <2> QED
    BY <1>2, <2>1, <2>2, TurnEnds
<1>3. CASE Shutdown
  BY <1>3 DEF Shutdown, WakeInv, Priorities
<1>4. CASE UNCHANGED <<jobVars, workerVars, enqueue_event>>
  BY <1>4 DEF WakeInv, WillLook, Awake, jobVars, workerVars
<1> QED
  BY <1>1, <1>2, <1>3, <1>4 DEF Next, Close, BeginClose, JoinedVisible, vars

\* No wake-up is lost, for every number of workers: while a job is queued or set aside
\* some worker is not in event.wait(), although any worker clears the event they share and
\* a worker that slept in the prefetch loop waits without having looked at the other jobs.
THEOREM NoLostWakeupHolds == Spec => []NoLostWakeup
<1>1. Init => WakeInv
  BY DEF Init, WakeInv, Priorities
<1>2. TypeOK /\ WakeInv => NoLostWakeup
  <2> SUFFICES ASSUME TypeOK, WakeInv, WaitingJobs # {}
               PROVE  Awake # {}
    BY DEF NoLostWakeup, Awake
  <2>1. CASE enqueue_event
    BY <2>1, QueueAssumption DEF WakeInv
  <2>2. CASE ~enqueue_event
    <3>1. Range(<<>>) = {}
      BY DEF Range
    <3>2. queue["user_visible"] # <<>> \/ deferred # <<>> \/ queue["prefetch"] # <<>>
      BY <3>1 DEF WaitingJobs
    <3>3. WillLook \subseteq Awake
      BY DEF WillLook, Awake
    <3> QED
      BY <2>2, <3>2, <3>3 DEF WakeInv
  <2> QED
    BY <2>1, <2>2
<1> QED
  BY <1>1, <1>2, WakeStep, TypeCorrect, OneJobPerUserHolds, DeferredOnlyWhileBusyHolds, PTL
     DEF Spec
=============================================================================
