------------------------------ MODULE Telemetry -----------------------------
(***************************************************************************)
(* The telemetry service (services/telemetry_service.py) and the end of    *)
(* the process (bot.py, main): a bounded queue of metrics, the worker that *)
(* stores and then publishes them, and the shutdown that flushes the queue *)
(* and cancels the worker while handlers may still record metrics.         *)
(*                                                                         *)
(* close_telemetry_service makes the service forget its queue and worker,  *)
(* so a metric recorded after that starts a second queue: a queue is known *)
(* by the number of those made before it.                                  *)
(***************************************************************************)
EXTENDS Naturals, Sequences

CONSTANTS QueueSize,    \* TELEMETRY_QUEUE_MAX_SIZE
          MaxMetrics,   \* bound: metrics recorded
          MaxFaults     \* bound: writes and shutdown hooks that raise, flushes that time out

ASSUME TelemetryAssumption == {QueueSize, MaxMetrics, MaxFaults} \subseteq Nat

VARIABLES
    queue,       \* _telemetry_queue, with its worker; 0: None
    made,        \* queues made so far
    pending,     \* the metrics in each queue
    unfinished,  \* its count of unfinished tasks
    worker,      \* its worker: where it is, and the metric it holds
    phase,       \* how far main's shutdown is
    recorded, faults,
    outcome,     \* history: the metrics stored, failed to be stored, dropped
    early,       \* history: metrics recorded before the telemetry service was closed
    late         \* history: whether the flush timed out

telemetryVars ==
    <<queue, made, pending, unfinished, worker, phase, recorded, faults, outcome, early, late>>

Metrics == 1..MaxMetrics
Queues == 1..2
TelemetryInit ==
    /\ queue = 0
    /\ made = 0
    /\ pending = [q \in Queues |-> <<>>]
    /\ unfinished = [q \in Queues |-> 0]
    /\ worker = [q \in Queues |-> [at |-> "none", metric |-> 0]]
    /\ phase = "running"
    /\ recorded = 0
    /\ faults = 0
    /\ outcome = [stored |-> {}, failed |-> {}, dropped |-> {}]
    /\ early = {}
    /\ late = FALSE

Fault ==
    /\ faults < MaxFaults
    /\ faults' = faults + 1

------------------------------------------------------------------------------
\* record_service_metric: without a queue it makes one, and its worker.

Record ==
    LET q == IF queue = 0 THEN made + 1 ELSE queue
        metric == recorded + 1 IN
    /\ recorded < MaxMetrics
    /\ phase \notin {"ended", "broken"}
    /\ q \in Queues
    /\ recorded' = metric
    /\ queue' = q
    /\ made' = IF queue = 0 THEN q ELSE made
    /\ worker' = IF queue = 0 THEN [worker EXCEPT ![q].at = "getting"] ELSE worker
    /\ IF Len(pending[q]) < QueueSize
       THEN /\ pending' = [pending EXCEPT ![q] = Append(@, metric)]
            /\ unfinished' = [unfinished EXCEPT ![q] = @ + 1]
            /\ UNCHANGED outcome
       ELSE /\ outcome' = [outcome EXCEPT !.dropped = @ \cup {metric}]
            /\ UNCHANGED <<pending, unfinished>>
    /\ early' = IF phase = "running" THEN early \cup {metric} ELSE early
    /\ UNCHANGED <<phase, faults, late>>

\* The worker of a queue.

\* Slip: task_done() as soon as the metric is taken.
GetDone(q) ==
    /\ worker[q].at = "getting"
    /\ pending[q] # <<>>
    /\ worker' = [worker EXCEPT ![q] = [at |-> "writing", metric |-> Head(pending[q])]]
    /\ pending' = [pending EXCEPT ![q] = Tail(@)]
    /\ unfinished' = [unfinished EXCEPT ![q] = @ - 1]
    /\ UNCHANGED <<queue, made, phase, recorded, faults, outcome, early, late>>

Get(q) ==
    /\ worker[q].at = "getting"
    /\ pending[q] # <<>>
    /\ worker' = [worker EXCEPT ![q] = [at |-> "writing", metric |-> Head(pending[q])]]
    /\ pending' = [pending EXCEPT ![q] = Tail(@)]
    /\ UNCHANGED <<queue, made, unfinished, phase, recorded, faults, outcome, early, late>>

Write(q) ==
    /\ worker[q].at = "writing"
    /\ worker' = [worker EXCEPT ![q].at = "publishing"]
    /\ \/ /\ outcome' = [outcome EXCEPT !.stored = @ \cup {worker[q].metric}]
          /\ UNCHANGED faults
       \/ /\ outcome' = [outcome EXCEPT !.failed = @ \cup {worker[q].metric}]
          /\ Fault
    /\ UNCHANGED <<queue, made, pending, unfinished, phase, recorded, early, late>>

\* Published, or the error is logged; task_done either way.
Publish(q) ==
    /\ worker[q].at = "publishing"
    /\ worker' = [worker EXCEPT ![q] = [at |-> "getting", metric |-> 0]]
    /\ unfinished' = [unfinished EXCEPT ![q] = @ - 1]
    /\ UNCHANGED <<queue, made, pending, phase, recorded, faults, outcome, early, late>>

------------------------------------------------------------------------------
\* main's finally: the hooks before this one, then close_telemetry_service.

\* A hook that raises leaves main: the ones after it never run.
HookRaises ==
    /\ phase = "running"
    /\ Fault
    /\ phase' = "broken"
    /\ UNCHANGED <<queue, made, pending, unfinished, worker, recorded, outcome, early, late>>

Flush ==
    /\ phase = "running"
    /\ phase' = IF queue = 0 THEN "ended" ELSE "flushing"
    /\ UNCHANGED <<queue, made, pending, unfinished, worker, recorded, faults, outcome, early, late>>

\* join() is done, or its timeout has passed; close_telemetry_service is yet to be resumed.
Flushed ==
    /\ phase = "flushing"
    /\ \/ /\ unfinished[queue] = 0
          /\ UNCHANGED <<faults, late>>
       \/ /\ unfinished[queue] > 0
          /\ Fault
          /\ late' = TRUE
    /\ phase' = "flushed"
    /\ UNCHANGED <<queue, made, pending, unfinished, worker, recorded, outcome, early>>

CancelWorker ==
    /\ phase = "flushed"
    /\ phase' = "cancelling"
    /\ queue' = 0
    /\ worker' = [worker EXCEPT ![queue].at =
                      CASE @ = "getting" -> "cancelled" [] @ = "writing" -> "stopping"
                        [] OTHER -> "leaving"]
    /\ UNCHANGED <<made, pending, unfinished, recorded, faults, outcome, early, late>>

\* CancelledError reaches the worker: in a write, which may have been committed, it
\* leaves without task_done.
WorkerCancelled(q) ==
    /\ worker[q].at \in {"cancelled", "stopping", "leaving"}
    /\ worker' = [worker EXCEPT ![q] = [at |-> "none", metric |-> 0]]
    /\ unfinished' = IF worker[q].at = "leaving" THEN [unfinished EXCEPT ![q] = @ - 1] ELSE unfinished
    /\ \/ UNCHANGED outcome
       \/ /\ worker[q].at = "stopping"
          /\ outcome' = [outcome EXCEPT !.stored = @ \cup {worker[q].metric}]
    /\ phase' = "ended"
    /\ UNCHANGED <<queue, made, pending, recorded, faults, early, late>>

TelemetryNext ==
    \/ Record
    \/ \E q \in Queues : Get(q) \/ Write(q) \/ Publish(q) \/ WorkerCancelled(q)
    \/ HookRaises \/ Flush \/ Flushed \/ CancelWorker

TelemetrySpec == TelemetryInit /\ [][TelemetryNext]_telemetryVars

------------------------------------------------------------------------------
(* Closing the service loses no metric recorded before: when it ends, each *)
(* was stored, or its failure or its dropping logged - unless the flush    *)
(* timed out or an earlier hook raised.  And at any time the count join()  *)
(* waits for is the metrics queued plus the one the worker holds.          *)
MetricsOutliveClose ==
    /\ phase = "ended" /\ ~late => early \subseteq outcome.stored \cup outcome.failed \cup outcome.dropped
    /\ \A q \in Queues :
           worker[q].at # "none" =>
               unfinished[q] = Len(pending[q]) + IF worker[q].metric = 0 THEN 0 ELSE 1
=============================================================================
