--------------------------- MODULE AudioQueueSpec ---------------------------
(***************************************************************************)
(* What the in-process audio queue promises its callers, with no trace of  *)
(* how it keeps the promise: an accepted job waits, runs at most once, one *)
(* job of a user runs at a time, the user-visible jobs of a user run in    *)
(* the order they were accepted, and no more than MaxQueueSize jobs are in *)
(* the queue at once.  Only a shutdown drops a job.                        *)
(***************************************************************************)
EXTENDS Naturals, FiniteSets

CONSTANTS Users,          \* the Telegram users that own jobs
          MaxQueueSize,   \* READING_AUDIO_QUEUE_MAX_SIZE
          MaxJobs         \* bound: jobs accepted in one behaviour

VARIABLES waiting,   \* accepted jobs that have not started
          running,   \* jobs being executed
          next_id    \* the id of the next accepted job

vars == <<waiting, running, next_id>>

Job == [id : 1..MaxJobs, user : Users, priority : {"user_visible", "prefetch"}]

TypeOK ==
    /\ waiting \in SUBSET Job
    /\ running \in SUBSET Job
    /\ next_id \in 1..(MaxJobs + 1)

Init ==
    /\ waiting = {}
    /\ running = {}
    /\ next_id = 1

\* A new job enters while there is room for it.
Accept(user, priority) ==
    /\ next_id <= MaxJobs
    /\ Cardinality(waiting \cup running) < MaxQueueSize
    /\ waiting' = waiting \cup {[id |-> next_id, user |-> user, priority |-> priority]}
    /\ next_id' = next_id + 1
    /\ UNCHANGED running

\* A job may start beside the jobs in `others` when its user has none there and
\* no older user-visible job of the user still waits in front of it.
MayStart(j, others) ==
    /\ \A k \in others : k.user # j.user
    /\ j.priority = "user_visible" =>
         \A k \in waiting :
            (k.user = j.user /\ k.priority = "user_visible") => j.id <= k.id

Start(j) ==
    /\ MayStart(j, running)
    /\ waiting' = waiting \ {j}
    /\ running' = running \cup {j}
    /\ UNCHANGED next_id

Finish(j) ==
    /\ running' = running \ {j}
    /\ UNCHANGED <<waiting, next_id>>

\* A worker that ends one job and takes the next in the same step.
Handover(j, k) ==
    /\ MayStart(k, running \ {j})
    /\ waiting' = waiting \ {k}
    /\ running' = (running \ {j}) \cup {k}
    /\ UNCHANGED next_id

\* The process shuts down: whatever is left is dropped.
Shutdown ==
    /\ waiting' = {}
    /\ running' = {}
    /\ UNCHANGED next_id

Next ==
    \/ \E user \in Users, priority \in {"user_visible", "prefetch"} : Accept(user, priority)
    \/ \E j \in waiting : Start(j)
    \/ \E j \in running : Finish(j) \/ \E k \in waiting : Handover(j, k)
    \/ Shutdown

Spec == Init /\ [][Next]_vars
=============================================================================
