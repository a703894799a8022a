-------------------------- MODULE DurableQueueSpec --------------------------
(***************************************************************************)
(* What the Redis audio queue promises its callers.  An accepted job is    *)
(* stored until it has been executed or its user's jobs are purged, also   *)
(* when the process dies; one job of a user is executed at a time; and one *)
(* process executes a job at most once (a job a dead process left behind   *)
(* is executed again by the next one).                                     *)
(***************************************************************************)
EXTENDS Naturals, FiniteSets

CONSTANTS Users,          \* the Telegram users that own jobs
          MaxQueueSize,   \* READING_AUDIO_QUEUE_MAX_SIZE
          MaxJobs         \* bound: jobs accepted in one behaviour

VARIABLES stored,      \* jobs Redis holds
          running,     \* jobs whose handler is being executed
          finishing,   \* jobs whose handler has ended and whose user is not yet free
          begun,       \* jobs this process has started
          purged,      \* jobs removed because their user asked for it
          next_id      \* the id of the next accepted job

vars == <<stored, running, finishing, begun, purged, next_id>>

Job == [id : 1..MaxJobs, user : Users, priority : {"user_visible", "prefetch"}]

Init ==
    /\ stored = {}
    /\ running = {}
    /\ finishing = {}
    /\ begun = {}
    /\ purged = {}
    /\ next_id = 1

\* A new job enters while there is room for it.
Accept(user, priority) ==
    /\ next_id <= MaxJobs
    /\ Cardinality(stored) < MaxQueueSize
    /\ stored' = stored \cup {[id |-> next_id, user |-> user, priority |-> priority]}
    /\ next_id' = next_id + 1
    /\ UNCHANGED <<running, finishing, begun, purged>>

\* The jobs a process may start: accepted, not done with, not started by it before.
Startable == (stored \cup purged) \ begun

\* The user of j has nothing running beside it.
UserFree(j, others) == \A k \in others : k.user # j.user

Start(j) ==
    /\ UserFree(j, running \cup finishing)
    /\ running' = running \cup {j}
    /\ begun' = begun \cup {j}
    /\ UNCHANGED <<stored, finishing, purged, next_id>>

\* The handler ends, in whatever way.
End(j) ==
    /\ running' = running \ {j}
    /\ finishing' = finishing \cup {j}
    /\ UNCHANGED <<stored, begun, purged, next_id>>

\* Only now may the job leave the store.
Forget(j) ==
    /\ stored' = stored \ {j}
    /\ UNCHANGED <<running, finishing, begun, purged, next_id>>

\* The user is free again.
Release(j) ==
    /\ finishing' = finishing \ {j}
    /\ UNCHANGED <<stored, running, begun, purged, next_id>>

\* A worker that releases one user and starts the next job in the same step.
Handover(j, k) ==
    /\ finishing' = finishing \ {j}
    /\ UserFree(k, running \cup (finishing \ {j}))
    /\ running' = running \cup {k}
    /\ begun' = begun \cup {k}
    /\ UNCHANGED <<stored, purged, next_id>>

\* /delete_my_data: the jobs of one user leave the store.
Purge(user) ==
    LET gone == {j \in stored : j.user = user} IN
        /\ stored' = stored \ gone
        /\ purged' = purged \cup gone
        /\ UNCHANGED <<running, finishing, begun, next_id>>

\* The process dies or is shut down: nothing is executed any more ...
Interrupt ==
    /\ running' = {}
    /\ finishing' = {}
    /\ UNCHANGED <<stored, begun, purged, next_id>>

\* ... and another process starts with a clean memory.
Restart ==
    /\ running \cup finishing = {}
    /\ begun' = {}
    /\ UNCHANGED <<stored, running, finishing, purged, next_id>>

Next ==
    \/ \E user \in Users, priority \in {"user_visible", "prefetch"} : Accept(user, priority)
    \/ \E j \in Startable : Start(j)
    \/ \E j \in running : End(j)
    \/ \E j \in finishing : Forget(j) \/ Release(j) \/ \E k \in Startable : Handover(j, k)
    \/ \E user \in Users : Purge(user)
    \/ Interrupt
    \/ Restart

Spec == Init /\ [][Next]_vars
=============================================================================
