--------------------------- MODULE RedisAudioQueue ---------------------------
(***************************************************************************)
(* The Redis audio queue of services/reading/audio_queue: a pending and a  *)
(* processing list for each priority, the worker tasks of one process, the *)
(* jobs they set aside, the recovery at start-up, shutdown, and deletion   *)
(* of a user's jobs.  The process may crash at any point and be started    *)
(* again, and a call to Redis may fail before or after Redis executed it.  *)
(*                                                                         *)
(* Redis executes a command (or a Lua script) atomically.  BRPOPLPUSH and  *)
(* LREM of a worker are two steps, the execution and the arrival of the    *)
(* reply: the worker may be cancelled or crash between them.  What a       *)
(* worker does from a reply to its next call does not suspend (the         *)
(* active-user lock is never contended), so it is part of the step.        *)
(*                                                                         *)
(* A list is written with its right end first: BRPOPLPUSH takes the head   *)
(* of the pending list, LPUSH appends.                                     *)
(***************************************************************************)
EXTENDS Naturals, Sequences, SequencesExt

CONSTANTS Users,          \* users that own jobs
          Workers,        \* worker tasks: READING_AUDIO_QUEUE_WORKER_COUNT of them
          MaxQueueSize,   \* READING_AUDIO_QUEUE_MAX_SIZE
          MaxJobs,        \* bound: jobs accepted in one behaviour
          MaxStops,       \* bound: crashes and shutdowns in one behaviour
          MaxFailures,    \* bound: failed calls to Redis in one behaviour
          NoJob           \* the job of a worker that has none

Priorities == {"user_visible", "prefetch"}
Job == [id : 1..MaxJobs, user : Users, priority : Priorities]

ASSUME RedisQueueAssumption ==
    /\ MaxQueueSize \in Nat \ {0}
    /\ MaxJobs \in Nat
    /\ MaxStops \in Nat
    /\ MaxFailures \in Nat
    /\ NoJob \notin Job

VARIABLES
    pending,        \* the pending lists, by priority
    processing,     \* the processing lists, by priority
    deferred,       \* jobs set aside, oldest first, of every user
    active,         \* _redis_audio_generation_active_raw_jobs, in insertion order
    active_users,   \* _active_audio_user_ids
    pc,             \* where each worker task is suspended
    job,            \* the job each worker has in hand
    phase,          \* the life of the process
    next_id,        \* id of the next accepted job
    begun,          \* jobs this process has started (history)
    purged,         \* jobs removed by a purge (history)
    stops,          \* crashes and shutdowns so far (bounds the model)
    failures        \* failed calls so far (bounds the model)

redisVars == <<pending, processing>>
memoryVars == <<deferred, active, active_users, pc, job, begun>>
boundVars == <<next_id, purged, stops>>
vars == <<redisVars, memoryVars, boundVars, phase, failures>>

\* "popping_*": BRPOPLPUSH sent; "got_job" and "no_*": its reply is on the way.
\* "acking*": the handler has ended and LREM is sent: after a return, after a
\* RedisError or ValueError (a pause follows), after another exception.
WorkerStates ==
    {"absent", "fresh", "popping_visible", "no_visible", "popping_prefetch", "no_prefetch",
     "got_job", "asleep", "handling", "acking", "acking_error", "acking_exception",
     "acked", "acked_error", "requeueing", "done"}

Acking == {"acking", "acking_error", "acking_exception"}
Finishing == Acking \cup {"acked", "acked_error"}
InHand == {"got_job", "handling", "requeueing"} \cup Finishing

Phases == {"down", "recovering", "up", "closing", "requeueing"}

TypeOK ==
    /\ pending \in [Priorities -> Seq(Job)]
    /\ processing \in [Priorities -> Seq(Job)]
    /\ deferred \in Seq(Job)
    /\ active \in Seq(Job)
    /\ active_users \in SUBSET Users
    /\ pc \in [Workers -> WorkerStates]
    /\ job \in [Workers -> Job \cup {NoJob}]
    /\ \A w \in Workers : job[w] # NoJob <=> pc[w] \in InHand
    /\ phase \in Phases
    /\ next_id \in 1..(MaxJobs + 1)
    /\ begun \in SUBSET Job
    /\ purged \in SUBSET Job
    /\ stops \in 0..MaxStops
    /\ failures \in 0..MaxFailures

Init ==
    /\ pending = [p \in Priorities |-> <<>>]
    /\ processing = [p \in Priorities |-> <<>>]
    /\ deferred = <<>>
    /\ active = <<>>
    /\ active_users = {}
    /\ pc = [w \in Workers |-> "absent"]
    /\ job = [w \in Workers |-> NoJob]
    /\ phase = "down"
    /\ next_id = 1
    /\ begun = {}
    /\ purged = {}
    /\ stops = 0
    /\ failures = 0

------------------------------------------------------------------------------
\* Commands and scripts, as operations on one list.

\* LREM with count 1.
Without(list, j) ==
    IF j \in Range(list) THEN RemoveAt(list, CHOOSE i \in DOMAIN list : list[i] = j)
                         ELSE list

\* The entries at the positions in `kept`, in their order.
EntriesAt(list, kept) ==
    [k \in 1..Cardinality(kept) |->
        list[CHOOSE i \in kept : Cardinality({h \in kept : h <= i}) = k]]

\* What the purge script leaves of a list.
WithoutUser(list, user) == EntriesAt(list, {i \in DOMAIN list : list[i].user # user})

Listed == UNION {Range(pending[p]) \cup Range(processing[p]) : p \in Priorities}

\* A call to Redis raises RedisError.
Fails == /\ failures < MaxFailures
         /\ failures' = failures + 1

------------------------------------------------------------------------------
\* enqueue_redis_audio_job.  The script refuses a job when the four lists are full.
Enqueue(user, priority) ==
    /\ phase \in {"up", "closing", "requeueing"}
    /\ next_id <= MaxJobs
    /\ Len(pending["user_visible"]) + Len(pending["prefetch"])
         + Len(processing["user_visible"]) + Len(processing["prefetch"]) < MaxQueueSize
    /\ pending' = [pending EXCEPT ![priority] =
                      Append(@, [id |-> next_id, user |-> user, priority |-> priority])]
    /\ next_id' = next_id + 1
    /\ UNCHANGED <<processing, memoryVars, purged, stops, phase, failures>>

\* purge_queued_audio_jobs_for_user: one script over the four lists.  Jobs the
\* workers hold or have set aside stay in their hands.
Purge(user) ==
    /\ phase \in {"up", "closing", "requeueing"}
    /\ \E j \in Listed : j.user = user
    /\ purged' = purged \cup {j \in Listed : j.user = user}
    /\ pending' = [p \in Priorities |-> WithoutUser(pending[p], user)]
    /\ processing' = [p \in Priorities |-> WithoutUser(processing[p], user)]
    /\ UNCHANGED <<memoryVars, next_id, stops, phase, failures>>

------------------------------------------------------------------------------
\* What a worker does between two suspensions.

Stopping == phase = "closing"   \* stop_event.is_set()

\* Positions of the jobs set aside whose user has nothing running.
FreeDeferred(priority, busy) ==
    {i \in DOMAIN deferred : deferred[i].priority = priority /\ deferred[i].user \notin busy}

\* The jobs of one user and priority are taken in the order they were set aside.
OldestOfItsUser(i) ==
    \A k \in 1..(i - 1) :
        deferred[k].user = deferred[i].user => deferred[k].priority # deferred[i].priority

\* Slip: the variables of the last turn keep their values.
SuspendKeepsJob(w, state, busy) ==
    /\ pc' = [pc EXCEPT ![w] = state]
    /\ active_users' = busy
    /\ UNCHANGED <<job, begun>>

\* The worker suspends with nothing in hand.
Suspend(w, state, busy) ==
    /\ pc' = [pc EXCEPT ![w] = state]
    /\ job' = [job EXCEPT ![w] = NoJob]
    /\ active_users' = busy
    /\ UNCHANGED begun

\* The user is reserved and the handler called.
Handle(w, j, busy) ==
    /\ pc' = [pc EXCEPT ![w] = "handling"]
    /\ job' = [job EXCEPT ![w] = j]
    /\ active_users' = busy \cup {j.user}
    /\ begun' = begun \cup {j}

\* The stop event is set: the job goes back instead of being handled.
GiveBack(w, j, busy) ==
    /\ pc' = [pc EXCEPT ![w] = "requeueing"]
    /\ job' = [job EXCEPT ![w] = j]
    /\ active_users' = busy
    /\ UNCHANGED begun

\* _pop_ready_deferred_redis_audio_job reserves the user, then the stop event is
\* looked at.  Which ready user comes first (dict order) is left open.
TakeDeferred(w, priority, busy) ==
    \E i \in FreeDeferred(priority, busy) :
        /\ OldestOfItsUser(i)
        /\ deferred' = RemoveAt(deferred, i)
        /\ IF Stopping THEN GiveBack(w, deferred[i], busy \cup {deferred[i].user})
                       ELSE Handle(w, deferred[i], busy)

\* The head of the loop, up to the first call to Redis.
LoopTop(w, busy) ==
    \/ /\ Stopping
       /\ Suspend(w, "done", busy)
       /\ UNCHANGED deferred
    \/ /\ ~Stopping
       /\ TakeDeferred(w, "user_visible", busy)
    \/ /\ ~Stopping
       /\ FreeDeferred("user_visible", busy) = {}
       /\ Suspend(w, "popping_visible", busy)
       /\ UNCHANGED deferred

------------------------------------------------------------------------------
\* _redis_audio_generation_worker and _pop_next_redis_audio_job.

\* The task runs for the first time, or a sleep ends.
Resume(w) ==
    /\ pc[w] \in {"fresh", "asleep"}
    /\ LoopTop(w, active_users)
    /\ UNCHANGED <<redisVars, active, boundVars, phase, failures>>

PriorityAt(w) == IF pc[w] = "popping_visible" THEN "user_visible" ELSE "prefetch"

\* Redis executes BRPOPLPUSH, at once or when a job arrives.
ServePop(w) ==
    /\ pc[w] \in {"popping_visible", "popping_prefetch"}
    /\ LET p == PriorityAt(w) IN
        /\ pending[p] # <<>>
        /\ pending' = [pending EXCEPT ![p] = Tail(@)]
        /\ processing' = [processing EXCEPT ![p] = Append(@, Head(pending[p]))]
        /\ job' = [job EXCEPT ![w] = Head(pending[p])]
    /\ pc' = [pc EXCEPT ![w] = "got_job"]
    /\ UNCHANGED <<deferred, active, active_users, begun, boundVars, phase, failures>>

\* The list stayed empty for the second the call waits.
PopTimesOut(w) ==
    /\ pc[w] \in {"popping_visible", "popping_prefetch"}
    /\ pending[PriorityAt(w)] = <<>>
    /\ pc' = [pc EXCEPT ![w] = IF pc[w] = "popping_visible" THEN "no_visible"
                                                             ELSE "no_prefetch"]
    /\ UNCHANGED <<redisVars, deferred, active, active_users, job, begun, boundVars,
                   phase, failures>>

\* Slip: only the prefetch list is looked at, not the prefetch jobs set aside.
NothingPoppedSkipsDeferred(w) ==
    /\ \/ /\ pc[w] = "no_visible"
          /\ Suspend(w, "popping_prefetch", active_users)
          /\ UNCHANGED deferred
       \/ /\ pc[w] = "no_prefetch"
          /\ LoopTop(w, active_users)
    /\ UNCHANGED <<redisVars, active, boundVars, phase, failures>>

\* No user-visible job: deferred prefetch jobs are looked at, then the prefetch list.
\* No prefetch job either: the loop starts again.
NothingPopped(w) ==
    /\ \/ /\ pc[w] = "no_visible"
          /\ TakeDeferred(w, "prefetch", active_users)
       \/ /\ pc[w] = "no_visible"
          /\ FreeDeferred("prefetch", active_users) = {}
          /\ Suspend(w, "popping_prefetch", active_users)
          /\ UNCHANGED deferred
       \/ /\ pc[w] = "no_prefetch"
          /\ LoopTop(w, active_users)
    /\ UNCHANGED <<redisVars, active, boundVars, phase, failures>>

\* Slip: a job is registered as active only when it is handled.
JobPoppedUnregistered(w) ==
    /\ pc[w] = "got_job"
    /\ \/ /\ Stopping
          /\ GiveBack(w, job[w], active_users)
          /\ UNCHANGED <<deferred, active>>
       \/ /\ ~Stopping
          /\ job[w].user \notin active_users
          /\ Handle(w, job[w], active_users)
          /\ active' = Append(active, job[w])
          /\ UNCHANGED deferred
       \/ /\ ~Stopping
          /\ job[w].user \in active_users
          /\ deferred' = Append(deferred, job[w])
          /\ Suspend(w, "asleep", active_users)
          /\ UNCHANGED active
    /\ UNCHANGED <<redisVars, boundVars, phase, failures>>

\* The job arrives: it is given back, handled, or set aside for a short sleep.
JobPopped(w) ==
    /\ pc[w] = "got_job"
    /\ active' = Append(active, job[w])
    /\ \/ /\ Stopping
          /\ GiveBack(w, job[w], active_users)
          /\ UNCHANGED deferred
       \/ /\ ~Stopping
          /\ job[w].user \notin active_users
          /\ Handle(w, job[w], active_users)
          /\ UNCHANGED deferred
       \/ /\ ~Stopping
          /\ job[w].user \in active_users
          /\ deferred' = Append(deferred, job[w])
          /\ Suspend(w, "asleep", active_users)
    /\ UNCHANGED <<redisVars, boundVars, phase, failures>>

\* The pop fails, before Redis executed it or with a job on the way: nothing is known
\* of the job, and the worker pauses.
PopFails(w) ==
    /\ pc[w] \in {"popping_visible", "popping_prefetch", "got_job"}
    /\ Fails
    /\ Suspend(w, "asleep", active_users)
    /\ UNCHANGED <<redisVars, deferred, active, boundVars, phase>>

\* job_handler returns, or raises one exception or another.
HandlerEnds(w) ==
    /\ pc[w] = "handling"
    /\ \E state \in {"acking", "acking_error", "acking_exception"} :
          pc' = [pc EXCEPT ![w] = state]
    /\ UNCHANGED <<redisVars, deferred, active, active_users, job, begun, boundVars, phase,
                   failures>>

\* LREM takes the job out of its processing list.
RemoveAcked(w) ==
    processing' = [processing EXCEPT ![job[w].priority] = Without(@, job[w])]

\* _ack_redis_audio_job.
Ack(w) ==
    /\ pc[w] \in Acking
    /\ RemoveAcked(w)
    /\ pc' = [pc EXCEPT ![w] = IF pc[w] = "acking_error" THEN "acked_error" ELSE "acked"]
    /\ UNCHANGED <<pending, deferred, active, active_users, job, begun, boundVars, phase,
                   failures>>

\* It fails, executed or not: once more after the handler returned, and then never.
AckFails(w) ==
    /\ pc[w] \in Acking
    /\ Fails
    /\ RemoveAcked(w) \/ UNCHANGED processing
    /\ pc' = [pc EXCEPT ![w] = CASE pc[w] = "acking"       -> "acking_error"
                                 [] pc[w] = "acking_error" -> "acked_error"
                                 [] OTHER                  -> "acked"]
    /\ UNCHANGED <<pending, deferred, active, active_users, job, begun, boundVars, phase>>

\* Slip: the pause after an error comes before the release, which is lost.
AckedKeepsUser(w) ==
    /\ pc[w] \in {"acked", "acked_error"}
    /\ active' = Without(active, job[w])
    /\ \/ /\ pc[w] = "acked"
          /\ LoopTop(w, active_users \ {job[w].user})
       \/ /\ pc[w] = "acked_error"
          /\ Suspend(w, "asleep", active_users)
          /\ UNCHANGED deferred
    /\ UNCHANGED <<redisVars, boundVars, phase, failures>>

\* The job is forgotten, its user released; the loop or the pause follows.
Acked(w) ==
    /\ pc[w] \in {"acked", "acked_error"}
    /\ active' = Without(active, job[w])
    /\ LET busy == active_users \ {job[w].user} IN
        \/ /\ pc[w] = "acked"
           /\ LoopTop(w, busy)
        \/ /\ pc[w] = "acked_error"
           /\ Suspend(w, "asleep", busy)
           /\ UNCHANGED deferred
    /\ UNCHANGED <<redisVars, boundVars, phase, failures>>

\* Slip: LPUSH whether or not LREM removed something.
MoveBackAlways(j) ==
    /\ processing' = [processing EXCEPT ![j.priority] = Without(@, j)]
    /\ pending' = [pending EXCEPT ![j.priority] = Append(@, j)]

\* Slip: LPUSH without LREM.
MoveBackCopies(j) ==
    /\ pending' = [pending EXCEPT ![j.priority] =
                      IF j \in Range(processing[j.priority]) THEN Append(@, j) ELSE @]
    /\ UNCHANGED processing

\* _requeue_redis_audio_job: a job that is no longer in processing is not pushed.
MoveBack(j) ==
    /\ processing' = [processing EXCEPT ![j.priority] = Without(@, j)]
    /\ pending' = [pending EXCEPT ![j.priority] =
                      IF j \in Range(processing[j.priority]) THEN Append(@, j) ELSE @]

\* The worker gives its job back and leaves the loop.
Requeue(w) ==
    /\ pc[w] = "requeueing"
    /\ MoveBack(job[w])
    /\ active' = Without(active, job[w])
    /\ Suspend(w, "done", active_users)
    /\ UNCHANGED <<deferred, boundVars, phase, failures>>

RequeueFails(w) ==
    /\ pc[w] = "requeueing"
    /\ Fails
    /\ MoveBack(job[w]) \/ UNCHANGED redisVars
    /\ Suspend(w, "done", active_users)
    /\ UNCHANGED <<deferred, active, boundVars, phase>>

Turn(w) ==
    \/ Resume(w) \/ ServePop(w) \/ PopTimesOut(w) \/ NothingPopped(w) \/ JobPopped(w)
    \/ HandlerEnds(w) \/ Ack(w) \/ Acked(w) \/ Requeue(w)

Mishap(w) == PopFails(w) \/ AckFails(w) \/ RequeueFails(w)

------------------------------------------------------------------------------
\* The process.

\* main() awaits start_audio_workers before it takes updates; memory is empty.
Start ==
    /\ phase = "down"
    /\ phase' = "recovering"
    /\ begun' = {}
    /\ UNCHANGED <<redisVars, deferred, active, active_users, pc, job, boundVars, failures>>

\* requeue_interrupted_redis_audio_jobs: RPOPLPUSH, one job at a time.
Recover(p) ==
    /\ phase = "recovering"
    /\ processing[p] # <<>>
    /\ p = "prefetch" => processing["user_visible"] = <<>>
    /\ pending' = [pending EXCEPT ![p] = Append(@, Head(processing[p]))]
    /\ processing' = [processing EXCEPT ![p] = Tail(@)]
    /\ UNCHANGED <<memoryVars, boundVars, phase, failures>>

\* Nothing is left: _ensure_redis_audio_generation_worker creates the workers.
Recovered ==
    /\ phase = "recovering"
    /\ \A p \in Priorities : processing[p] = <<>>
    /\ phase' = "up"
    /\ pc' = [w \in Workers |-> "fresh"]
    /\ UNCHANGED <<redisVars, deferred, active, active_users, job, begun, boundVars, failures>>

\* close_audio_queue sets the stop event and waits for the workers.
BeginClose ==
    /\ phase = "up"
    /\ stops < MaxStops
    /\ phase' = "closing"
    /\ stops' = stops + 1
    /\ UNCHANGED <<redisVars, memoryVars, next_id, purged, failures>>

\* All have left their loop, or the wait times out and the others are cancelled,
\* wherever they are.
WorkersGone ==
    /\ phase = "closing"
    /\ phase' = "requeueing"
    /\ pc' = [w \in Workers |-> "done"]
    /\ job' = [w \in Workers |-> NoJob]
    /\ UNCHANGED <<redisVars, deferred, active, active_users, begun, boundVars, failures>>

\* _requeue_active_redis_audio_job, one job at a time, in the order of the dict.
ReturnActive ==
    /\ phase = "requeueing"
    /\ active # <<>>
    /\ MoveBack(Head(active))
    /\ active' = Tail(active)
    /\ UNCHANGED <<deferred, active_users, pc, job, begun, boundVars, phase, failures>>

\* The process ends and its memory with it.
MemoryLost ==
    /\ phase' = "down"
    /\ deferred' = <<>>
    /\ active' = <<>>
    /\ active_users' = {}
    /\ pc' = [w \in Workers |-> "absent"]
    /\ job' = [w \in Workers |-> NoJob]
    /\ UNCHANGED begun

EndClose ==
    /\ phase = "requeueing"
    /\ active = <<>>
    /\ MemoryLost
    /\ UNCHANGED <<redisVars, boundVars, failures>>

\* A failed script ends the requeueing; the jobs that remain are not returned.
ReturnFails ==
    /\ phase = "requeueing"
    /\ active # <<>>
    /\ Fails
    /\ MoveBack(Head(active)) \/ UNCHANGED redisVars
    /\ MemoryLost
    /\ UNCHANGED boundVars

Crash ==
    /\ phase # "down"
    /\ stops < MaxStops
    /\ stops' = stops + 1
    /\ MemoryLost
    /\ UNCHANGED <<redisVars, next_id, purged, failures>>

Process == Start \/ (\E p \in Priorities : Recover(p)) \/ Recovered
           \/ WorkersGone \/ ReturnActive \/ EndClose

Next ==
    \/ \E user \in Users, priority \in Priorities : Enqueue(user, priority)
    \/ \E user \in Users : Purge(user)
    \/ \E w \in Workers : Turn(w) \/ Mishap(w)
    \/ Process
    \/ BeginClose \/ ReturnFails \/ Crash

Spec == Init /\ [][Next]_vars

\* Ready tasks run, Redis answers or a call times out, handlers end, a shutdown makes
\* progress, and a process that ended is started again (restart: unless-stopped).
\* Nothing is assumed of users, crashes or failures.
FairSpec == Spec /\ WF_vars(Process) /\ \A w \in Workers : WF_vars(Turn(w))
------------------------------------------------------------------------------
\* Properties.

\* No job is in the lists twice: LREM takes one entry out, so a copy would be
\* executed again and hold a place for ever.
ListedOnce ==
    Cardinality(Listed) = Len(pending["user_visible"]) + Len(pending["prefetch"])
                            + Len(processing["user_visible"]) + Len(processing["prefetch"])

\* While a process is up, every job in a processing list is one a worker has registered
\* as active (which shutdown gives back) or one whose reply is on the way, but for at
\* most one job for each failed call: nothing else can block a place of the queue.
LeakBounded ==
    phase \in {"up", "closing"} =>
        Cardinality((UNION {Range(processing[p]) : p \in Priorities})
                      \ (Range(active) \cup {job[w] : w \in {v \in Workers : pc[v] = "got_job"}}))
            <= failures

Busy == {w \in Workers : pc[w] = "handling" \/ pc[w] \in Finishing}

\* A user is reserved exactly while a worker handles one of his jobs, and no two
\* workers do; a reservation that leaked would keep his jobs set aside for ever.
ReservationExact ==
    /\ phase = "up" => active_users = {job[w].user : w \in Busy}
    /\ \A v, w \in Busy : v # w => job[v].user # job[w].user

\* The queue implements DurableQueueSpec: the lists are the store.
DurableQueue == INSTANCE DurableQueueSpec WITH
    stored    <- Listed,
    running   <- {job[w] : w \in {v \in Workers : pc[v] = "handling"}},
    finishing <- {job[w] : w \in {v \in Workers : pc[v] \in Finishing}}
ImplementsDurableQueue == DurableQueue!Spec

\* Unless a call to Redis fails, every accepted job leaves the lists, through restarts
\* too: it is executed to its end or purged.
EveryJobLeaves ==
    \A n \in 1..MaxJobs :
        (\E j \in Listed : j.id = n) ~> (failures > 0 \/ \A j \in Listed : j.id # n)
=============================================================================
