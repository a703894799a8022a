-------------------------- MODULE MemoryAudioQueue --------------------------
(***************************************************************************)
(* The in-process ("memory") audio queue of services/reading/audio_queue:  *)
(* two asyncio queues (user-visible jobs and prefetch jobs), the jobs set  *)
(* aside because their user already has one running, and the worker tasks. *)
(*                                                                         *)
(* asyncio runs a task up to its next suspension point.  The active-user   *)
(* lock is never contended (nothing awaits while holding it), so a worker  *)
(* suspends in three places only: in the job it runs, in the short sleep   *)
(* after it set a job aside, and in event.wait().  One action below is one *)
(* stretch between two suspension points: ending a job, releasing its user *)
(* and picking the next job are a single step.                             *)
(***************************************************************************)
EXTENDS Naturals, Sequences, SequencesExt

CONSTANTS Users,          \* users that own jobs
          Workers,        \* worker tasks: READING_AUDIO_QUEUE_WORKER_COUNT of them
          MaxQueueSize,   \* READING_AUDIO_QUEUE_MAX_SIZE
          MaxJobs,        \* bound: jobs accepted in one behaviour
          MaxCloses,      \* bound: shutdowns in one behaviour
          NoJob           \* the job of a worker that runs none

Priorities == {"user_visible", "prefetch"}
Job == [id : 1..MaxJobs, user : Users, priority : Priorities]

\* config.py admits only positive sizes and counts; `_worker_count` is at least 1.
ASSUME QueueAssumption ==
    /\ MaxQueueSize \in Nat \ {0}
    /\ MaxJobs \in Nat
    /\ MaxCloses \in Nat
    /\ Workers # {} /\ IsFiniteSet(Workers)
    /\ NoJob \notin Job

VARIABLES
    queue,                     \* the two asyncio queues, by priority
    deferred,                  \* jobs set aside, oldest first, of every user
    unfinished,                \* asyncio.Queue's count for join(), by priority
    enqueue_event,             \* _memory_audio_generation_enqueue_event
    pc,                        \* where each worker task is suspended
    job,                       \* the job each worker runs
    active_users,              \* _active_audio_user_ids
    pending_user_visible,      \* the counters behind the queue position and the
    processing,                \* capacity check
    processing_user_visible,
    next_id,                   \* id of the next accepted job
    phase,                     \* where close_audio_queue is suspended
    closes                     \* shutdowns so far (bounds the model)

jobVars == <<queue, deferred, unfinished, pending_user_visible>>
workerVars == <<pc, job, active_users, processing, processing_user_visible>>
closeVars == <<phase, closes>>
vars == <<jobVars, workerVars, closeVars, enqueue_event, next_id>>

\* "absent": no task; "fresh": task created, not yet run; "woken": its wait()
\* has been resolved; "asleep_*": in the sleep of that priority's loop.
WorkerStates == {"absent", "fresh", "waiting", "woken", "running",
                 "asleep_visible", "asleep_prefetch"}

TypeOK ==
    /\ queue \in [Priorities -> Seq(Job)]
    /\ deferred \in Seq(Job)
    /\ unfinished \in [Priorities -> Nat]
    /\ enqueue_event \in BOOLEAN
    /\ pc \in [Workers -> WorkerStates]
    /\ job \in [Workers -> Job \cup {NoJob}]
    /\ \A w \in Workers : pc[w] = "running" <=> job[w] # NoJob
    /\ active_users \in SUBSET Users
    /\ pending_user_visible \in Nat
    /\ processing \in Nat
    /\ processing_user_visible \in Nat
    /\ next_id \in 1..(MaxJobs + 1)
    /\ phase \in {"open", "join_visible", "join_prefetch"}
    /\ closes \in 0..MaxCloses

Init ==
    /\ queue = [p \in Priorities |-> <<>>]
    /\ deferred = <<>>
    /\ unfinished = [p \in Priorities |-> 0]
    /\ enqueue_event = FALSE
    /\ pc = [w \in Workers |-> "absent"]
    /\ job = [w \in Workers |-> NoJob]
    /\ active_users = {}
    /\ pending_user_visible = 0
    /\ processing = 0
    /\ processing_user_visible = 0
    /\ next_id = 1
    /\ phase = "open"
    /\ closes = 0

\* max(n - 1, 0), the way every counter of the module is decremented.
Decrement(n) == IF n = 0 THEN 0 ELSE n - 1

VisibleUnit(priority) == IF priority = "user_visible" THEN 1 ELSE 0

------------------------------------------------------------------------------
\* enqueue_memory_audio_job.

\* Slip: the jobs set aside are not counted.
ActiveJobsWithoutDeferred ==
    Len(queue["user_visible"]) + Len(queue["prefetch"]) + processing

\* The four terms the capacity check adds up.
ActiveJobs ==
    Len(queue["user_visible"]) + Len(queue["prefetch"]) + Len(deferred) + processing

\* Slip: enqueue does not set the event.
WokenWorkerNoEvent(w) == IF pc[w] = "absent" THEN "fresh" ELSE pc[w]

\* event.set() resolves every pending wait(); ensure_memory_audio_generation_queue
\* creates the workers that are missing.
WokenWorker(w) ==
    CASE pc[w] = "absent"  -> "fresh"
      [] pc[w] = "waiting" -> "woken"
      [] OTHER             -> pc[w]

\* A full queue raises QueueFull and changes nothing.
Enqueue(user, priority) ==
    /\ next_id <= MaxJobs
    /\ ActiveJobs < MaxQueueSize
    /\ queue' = [queue EXCEPT ![priority] =
                    Append(@, [id |-> next_id, user |-> user, priority |-> priority])]
    /\ unfinished' = [unfinished EXCEPT ![priority] = @ + 1]
    /\ enqueue_event' = TRUE
    /\ pc' = [w \in Workers |-> WokenWorker(w)]
    /\ pending_user_visible' = pending_user_visible + VisibleUnit(priority)
    /\ next_id' = next_id + 1
    /\ UNCHANGED <<deferred, job, active_users, processing, processing_user_visible,
                   closeVars>>

------------------------------------------------------------------------------
\* _pop_next_memory_audio_job: four sources, tried in this order.

DeferredVisible  == 1
QueuedVisible    == 2
DeferredPrefetch == 3
QueuedPrefetch   == 4

PriorityOf(source) ==
    IF source \in {DeferredVisible, QueuedVisible} THEN "user_visible" ELSE "prefetch"

\* The positions of jobs set aside whose user has nothing running.
FreeDeferred(priority, busy) ==
    {i \in DOMAIN deferred : deferred[i].priority = priority /\ deferred[i].user \notin busy}

\* Slip: any job of the user is returned, not the oldest.
OldestOfItsUserAny(i) == TRUE

\* The jobs of one user and priority are taken in the order they were set aside.
OldestOfItsUser(i) ==
    \A k \in 1..(i - 1) :
        deferred[k].user = deferred[i].user => deferred[k].priority # deferred[i].priority

Offers(source, busy) ==
    IF source \in {DeferredVisible, DeferredPrefetch}
    THEN FreeDeferred(PriorityOf(source), busy) # {}
    ELSE queue[PriorityOf(source)] # <<>>

\* The source a scan that begins at `from` stops at: none, or exactly one.
FirstOffer(from, busy) ==
    {s \in from..QueuedPrefetch :
        Offers(s, busy) /\ \A r \in from..(s - 1) : ~Offers(r, busy)}

\* What the worker's last job leaves behind when the scan begins.
Released == [users |-> active_users, count |-> processing, visible |-> processing_user_visible]

\* Slip: the finally block does not release the user.
ReleasedByKeepsUser(j) ==
    [users   |-> active_users,
     count   |-> Decrement(processing),
     visible |-> IF j.priority = "user_visible"
                 THEN Decrement(processing_user_visible)
                 ELSE processing_user_visible]

ReleasedBy(j) ==
    [users   |-> active_users \ {j.user},
     count   |-> Decrement(processing),
     visible |-> IF j.priority = "user_visible"
                 THEN Decrement(processing_user_visible)
                 ELSE processing_user_visible]

\* Slip: a job starts without reserving its user.
RunUnreserved(w, j, rel) ==
    /\ pc' = [pc EXCEPT ![w] = "running"]
    /\ job' = [job EXCEPT ![w] = j]
    /\ active_users' = rel.users
    /\ processing' = rel.count + 1
    /\ processing_user_visible' = rel.visible + VisibleUnit(j.priority)

Run(w, j, rel) ==
    /\ pc' = [pc EXCEPT ![w] = "running"]
    /\ job' = [job EXCEPT ![w] = j]
    /\ active_users' = rel.users \cup {j.user}
    /\ processing' = rel.count + 1
    /\ processing_user_visible' = rel.visible + VisibleUnit(j.priority)

\* Slip: the worker keeps the job it has ended.
SuspendKeepsJob(w, state, rel) ==
    /\ pc' = [pc EXCEPT ![w] = state]
    /\ UNCHANGED job
    /\ active_users' = rel.users
    /\ processing' = rel.count
    /\ processing_user_visible' = rel.visible

Suspend(w, state, rel) ==
    /\ pc' = [pc EXCEPT ![w] = state]
    /\ job' = [job EXCEPT ![w] = NoJob]
    /\ active_users' = rel.users
    /\ processing' = rel.count
    /\ processing_user_visible' = rel.visible

\* _pop_ready_deferred_memory_audio_job.  Which ready user is found first (dict
\* order) is left open.
TakeDeferred(w, priority, rel) ==
    \E i \in FreeDeferred(priority, rel.users) :
        /\ OldestOfItsUser(i)
        /\ Run(w, deferred[i], rel)
        /\ deferred' = RemoveAt(deferred, i)
        /\ UNCHANGED <<queue, pending_user_visible>>

\* Slip: the pending counter is decremented only when the job runs.
TakeQueuedCountsRunsOnly(w, priority, rel) ==
    LET j == Head(queue[priority]) IN
        /\ queue' = [queue EXCEPT ![priority] = Tail(@)]
        /\ \/ /\ j.user \notin rel.users
              /\ Run(w, j, rel)
              /\ pending_user_visible' = pending_user_visible - VisibleUnit(priority)
              /\ UNCHANGED deferred
           \/ /\ j.user \in rel.users
              /\ deferred' = Append(deferred, j)
              /\ Suspend(w, IF priority = "user_visible" THEN "asleep_visible"
                                                         ELSE "asleep_prefetch", rel)
              /\ UNCHANGED pending_user_visible

\* Slip: a job whose user is busy is popped and not set aside.
TakeQueuedLosesJob(w, priority, rel) ==
    LET j == Head(queue[priority]) IN
        /\ queue' = [queue EXCEPT ![priority] = Tail(@)]
        /\ pending_user_visible' = pending_user_visible - VisibleUnit(priority)
        /\ UNCHANGED deferred
        /\ IF j.user \notin rel.users THEN Run(w, j, rel)
                                       ELSE Suspend(w, "waiting", rel)

\* get_nowait(), then try to reserve the user: the job runs, or is set aside and
\* the worker sleeps in the loop of this priority.
TakeQueued(w, priority, rel) ==
    LET j == Head(queue[priority]) IN
        /\ queue' = [queue EXCEPT ![priority] = Tail(@)]
        /\ pending_user_visible' =
              IF priority = "user_visible" THEN Decrement(pending_user_visible)
                                           ELSE pending_user_visible
        /\ \/ /\ j.user \notin rel.users
              /\ Run(w, j, rel)
              /\ UNCHANGED deferred
           \/ /\ j.user \in rel.users
              /\ deferred' = Append(deferred, j)
              /\ Suspend(w, IF priority = "user_visible" THEN "asleep_visible"
                                                         ELSE "asleep_prefetch", rel)

Serve(w, source, rel) ==
    IF source \in {DeferredVisible, DeferredPrefetch}
    THEN TakeDeferred(w, PriorityOf(source), rel)
    ELSE TakeQueued(w, PriorityOf(source), rel)

\* One whole scan: a job, or event.wait().
ScanOrWait(w, rel) ==
    \/ \E s \in FirstOffer(DeferredVisible, rel.users) : Serve(w, s, rel)
    \/ /\ FirstOffer(DeferredVisible, rel.users) = {}
       /\ Suspend(w, "waiting", rel)
       /\ UNCHANGED <<queue, deferred, pending_user_visible>>

\* The scan resumed at source `from`.  When it finds nothing and the event is set,
\* wait() returns at once: the event is cleared and a whole scan follows.
ScanFrom(w, from, rel) ==
    \/ /\ \E s \in FirstOffer(from, rel.users) : Serve(w, s, rel)
       /\ UNCHANGED enqueue_event
    \/ /\ FirstOffer(from, rel.users) = {}
       /\ enqueue_event' = FALSE
       /\ IF enqueue_event
          THEN ScanOrWait(w, rel)
          ELSE /\ Suspend(w, "waiting", rel)
               /\ UNCHANGED <<queue, deferred, pending_user_visible>>

------------------------------------------------------------------------------
\* _audio_generation_worker.

\* The task runs for the first time.
Begin(w) ==
    /\ pc[w] = "fresh"
    /\ ScanFrom(w, DeferredVisible, Released)
    /\ UNCHANGED <<unfinished, next_id, closeVars>>

\* wait() returns; the worker clears the event and scans.
Wake(w) ==
    /\ pc[w] = "woken"
    /\ enqueue_event' = FALSE
    /\ ScanOrWait(w, Released)
    /\ UNCHANGED <<unfinished, next_id, closeVars>>

\* The sleep after a deferral ends: the scan goes on in the loop it was in.
Resume(w) ==
    /\ \/ /\ pc[w] = "asleep_visible"
          /\ ScanFrom(w, QueuedVisible, Released)
       \/ /\ pc[w] = "asleep_prefetch"
          /\ ScanFrom(w, QueuedPrefetch, Released)
    /\ UNCHANGED <<unfinished, next_id, closeVars>>

\* Slip: task_done() is always called on the user-visible queue.
FinishOneQueue(w) ==
    /\ pc[w] = "running"
    /\ unfinished' = [unfinished EXCEPT !["user_visible"] = Decrement(@)]
    /\ ScanFrom(w, DeferredVisible, ReleasedBy(job[w]))
    /\ UNCHANGED <<next_id, closeVars>>

\* Slip: after a job the worker goes to the queue, not to the jobs set aside.
FinishSkipsDeferred(w) ==
    /\ pc[w] = "running"
    /\ unfinished' = [unfinished EXCEPT ![job[w].priority] = Decrement(@)]
    /\ ScanFrom(w, QueuedVisible, ReleasedBy(job[w]))
    /\ UNCHANGED <<next_id, closeVars>>

\* The job returns or raises: the finally block, then the next scan.
Finish(w) ==
    /\ pc[w] = "running"
    /\ unfinished' = [unfinished EXCEPT ![job[w].priority] = Decrement(@)]
    /\ ScanFrom(w, DeferredVisible, ReleasedBy(job[w]))
    /\ UNCHANGED <<next_id, closeVars>>

Turn(w) == Begin(w) \/ Wake(w) \/ Resume(w) \/ Finish(w)

------------------------------------------------------------------------------
\* close_audio_queue, the part that concerns this backend.

BeginClose ==
    /\ phase = "open"
    /\ closes < MaxCloses
    /\ phase' = "join_visible"
    /\ closes' = closes + 1
    /\ UNCHANGED <<jobVars, workerVars, enqueue_event, next_id>>

\* queue.join() returns at zero; wait_for may give up on it earlier.
JoinedVisible ==
    /\ phase = "join_visible"
    /\ phase' = "join_prefetch"
    /\ UNCHANGED <<jobVars, workerVars, enqueue_event, next_id, closes>>

\* The second join returns or times out; the workers are cancelled and the state
\* is reset.  Cancelled jobs are taken to end without suspending again.
Shutdown ==
    /\ phase = "join_prefetch"
    /\ phase' = "open"
    /\ queue' = [p \in Priorities |-> <<>>]
    /\ deferred' = <<>>
    /\ unfinished' = [p \in Priorities |-> 0]
    /\ enqueue_event' = FALSE
    /\ pc' = [w \in Workers |-> "absent"]
    /\ job' = [w \in Workers |-> NoJob]
    /\ active_users' = {}
    /\ pending_user_visible' = 0
    /\ processing' = 0
    /\ processing_user_visible' = 0
    /\ UNCHANGED <<next_id, closes>>

Close == BeginClose \/ JoinedVisible \/ Shutdown

Next ==
    \/ \E user \in Users, priority \in Priorities : Enqueue(user, priority)
    \/ \E w \in Workers : Turn(w)
    \/ Close

Spec == Init /\ [][Next]_vars

\* The event loop runs every task that can run; jobs end (the model of a job that
\* waits for another one is in ReadingPipeline).
FairSpec == Spec /\ \A w \in Workers : WF_vars(Turn(w))
------------------------------------------------------------------------------
\* Properties.

Running == {w \in Workers : pc[w] = "running"}
WaitingJobs == Range(queue["user_visible"]) \cup Range(queue["prefetch"]) \cup Range(deferred)
RunningJobs == {job[w] : w \in Running}

\* The capacity check of enqueue_memory_audio_job bounds every job in the system,
\* also the ones set aside or running: no step moves a job to a place the check
\* does not count.
CapacityRespected ==
    Len(queue["user_visible"]) + Len(queue["prefetch"]) + Len(deferred)
        + Cardinality(Running) <= MaxQueueSize

\* The reservation in _active_audio_user_ids serialises a user: two workers never
\* run jobs of one user, and a user is reserved exactly while a job of his runs
\* (a leaked reservation would keep his jobs set aside for ever).
OneJobPerUser ==
    /\ active_users = {job[w].user : w \in Running}
    /\ \A v, w \in Running : v # w => job[v].user # job[w].user

\* The position memory_audio_queue_position reports is one more than the number of
\* user-visible jobs in the queue, set aside or running, although three counters
\* kept in different places add up to it.
PositionExact ==
    pending_user_visible + processing_user_visible
        + Cardinality({j \in Range(deferred) : j.priority = "user_visible"})
    = Cardinality({j \in WaitingJobs \cup RunningJobs : j.priority = "user_visible"})

\* queue.join() in close_audio_queue waits for deferred and running jobs too:
\* task_done() is called once for each job, on the queue it came from.
JoinMeansDrained ==
    \A p \in Priorities :
        unfinished[p] = Cardinality({j \in WaitingJobs \cup RunningJobs : j.priority = p})

\* No lost wake-up: while a job is queued or set aside some worker is not in
\* event.wait(), although workers clear the one event they all share.
NoLostWakeup ==
    WaitingJobs # {} => \E w \in Workers : pc[w] \notin {"absent", "waiting"}

\* A user-visible job is set aside only while its user is busy: the worker that
\* releases the user takes it in the same step, so it never waits for a free user.
DeferredOnlyWhileBusy ==
    \A i \in DOMAIN deferred :
        deferred[i].priority = "user_visible" => deferred[i].user \in active_users

\* The user-visible jobs of a user run in the order they were accepted ("so as not
\* to break the order of the parts"), although deferral takes jobs out of the queue.
UserOrder ==
    \A w \in Running : job[w].priority = "user_visible" =>
        \A j \in WaitingJobs :
            (j.user = job[w].user /\ j.priority = "user_visible") => job[w].id < j.id

\* README.md:190, "User-visible jobs (`send_chunk`, `export_audio`) have priority
\* over prefetch jobs": no worker starts a prefetch job while a user-visible job of
\* a user with nothing running is queued.
UserVisibleFirst ==
    [][\A w \in Workers :
          (pc'[w] = "running" /\ job'[w] # job[w] /\ job'[w].priority = "prefetch")
          => \A j \in Range(queue["user_visible"]) : j.user \in active_users]_vars

\* The queue implements AudioQueueSpec: jobs queued and set aside wait there, the
\* workers' jobs run there.
AbstractQueue == INSTANCE AudioQueueSpec WITH waiting <- WaitingJobs, running <- RunningJobs
ImplementsAudioQueue == AbstractQueue!Spec

\* No accepted job waits for ever: it runs, unless a shutdown drops it.
EveryJobServed ==
    \A n \in 1..MaxJobs :
        (\E j \in WaitingJobs : j.id = n) ~> (\A j \in WaitingJobs : j.id # n)
=============================================================================
