# Verification of the reading pipeline of Audio-Assistant

Audio-Assistant is a Telegram bot that reads documents aloud: it extracts text,
splits it into parts, voices the parts through a queue of TTS jobs and sends them
one by one as the reader presses "next". This directory holds TLA+ models of its
core logic, the TLC configurations that check them on small instances, and TLAPS
proofs about them for all instances. Paths below are relative to the repository.

## 1. The system

One asyncio process runs everything; Redis (optional) and SQLite hold what must
survive. Concurrency is cooperative: a coroutine runs up to its next suspending
`await`. Everything hard comes from what may run between two of those.

| Component | Code | State | Operations | What makes it correct |
|---|---|---|---|---|
| Memory audio queue | `services/reading/audio_queue.py` | two `asyncio.Queue`s, deferred jobs, reserved users, counters, worker tasks, one event | enqueue, scan, defer, finish, position, close | one job of a user at a time, order kept, capacity, exact counters, no lost wake-up, nobody starved |
| Redis audio queue | same, `audio_job_executor.py` | pending and processing lists, active raw jobs, deferred jobs | enqueue, BRPOPLPUSH, ack, requeue, recover, purge | no job lost or doubled over a crash, one job of a user at a time, a purge is final |
| Queue orchestrator | `application/queue_orchestrator.py` | none | back pressure, queued message, enqueue | a refused job releases what was taken for it |
| Reading sessions | `services/reading_service.py`, `infrastructure/*` | session per user: index, generation lock, prefetch | create, get, update, try_start, finish, recover, cleanup, expire | updates not lost, a deleted session stays deleted, the lock is released once |
| Chunk delivery | `application/chunk_audio_service.py` | none of its own | send_audio_chunk, send_audio_chunk_now | parts in order, none by two jobs, audio belongs to the part |
| Prefetch | `application/prefetch_service.py` | future (memory) or prefetch_state and files (Redis) | start, run, resolve | consumed once, for its part and session, never awaited for ever |
| Reading callbacks | `application/callback_flow_service.py` | none | next, stop, summary, export | lock and usage reservation balanced on every exit |
| Export | `application/export_audio_service.py` | none | export | only a complete, current reading; lock released |
| Message intake, catalog | `handlers/messages.py`, `handlers/catalog.py` | per-user locks with reference counts | process a message, open a document | one document of a user at a time, a busy session is not replaced |
| Privacy deletion | `application/privacy_service.py`, `handlers/privacy.py` | deletion markers | mark, clean, purge, skip | no job created before the deletion has effects after it |
| Usage limits, premium | `services/usage_limits_service.py`, `database/db.py` | daily counters, limits, plans | reserve, refund, adjust | never above the limit, refund matches reservation |
| Rate limits, activity, ban | `middlewares/*` | event windows, caches | allow, warn, invalidate | window bound, no stale cache after deletion |
| TTS, Gemini | `services/tts.py`, `gemini_tts.py`, `gemini_client.py` | semaphore | generate with retry and fallback | bounded attempts, files of failed attempts removed |
| Audio cache | `services/audio_cache.py` | files, owner index, lock files | get, save, evict, delete by owner | an entry lives while it has an owner |
| Telemetry | `services/telemetry_service.py` | bounded queue, worker | record, flush, close | never blocks, flush drains |
| Splitting, extraction | `utils/splitter.py`, `services/content_extractor.py`, `services/parser.py` | none | split, extract | parts bounded, text preserved |
| Lifecycle, API, settings, admin, texts | `bot.py`, `services/api_app.py`, `handlers/*`, `keyboards/*`, `texts/*` | none of interest | start, stop, menus | start and stop order |

How they interact: a handler checks the session's generation lock, creates a
session or takes the lock, and calls `send_audio_chunk`, which goes through the
orchestrator to the queue. A worker of the queue runs `send_audio_chunk_now`: it
resolves audio (from the prefetch or by TTS), advances the index, sends the voice,
enqueues the prefetch of the next part and releases the lock. So one lock is taken
by a handler, carried by a queue entry and released by a job; and a job may wait for
another job of the same user, whom the queue serialises.

Hard behaviours, each at its line in `PROJECT.json` ("hazards"): jobs set aside
while their user is busy; one event shared by all workers; a session replaced or
stopped while its job awaits TTS or Telegram; stale locks recovered while their
holder is alive; a prefetch that outlives its session; a queue that fills up between
check and enqueue; crash and restart with Redis lists; a Redis session whose every
reader stores back what it read; a late prefetch; refunds across midnight; a lock
dropped by a count of its users; files and cache entries over a dozen failing exits.

## 2. Plan

| Modules | Status |
|---|---|
| `AudioQueueSpec`, `MemoryAudioQueue`, `MemoryAudioQueueProofs`, `SequenceLemmas` | done |
| `ReadingPipeline` on top of `MemoryAudioQueue`, with `ReadingPipelineProofs` | done |
| `DurableQueueSpec`, `RedisAudioQueue`, `RedisAudioQueueProofs` | done |
| `RedisReading`: session store, prefetch protocol, jobs, export and deletion with Redis, with `RedisReadingProofs` | done |
| `UsageLimits`, `DocumentCatalog`, `UserRequests`, with `UserRequestsProofs` | done |
| `AudioCache`, `VoiceGeneration`, with `VoiceGenerationProofs`; `UserActivity`, `RateLimit`, `Telemetry`, `TextSplitter`, with `ServiceProofs`; `MCServices` | done |
| Proofs of `PositionExact`, `JoinMeansDrained`, `NoLostWakeup` and the refinement of `AudioQueueSpec` | done |
| Proofs of `LockHasHolder`, `LeakBounded`, `ChargeMatchesDelivery`, `CatalogSummaryOwn`, `OwnersExact`, `VoiceFilesAccounted`, `WindowRespected` | done |
| An abstract reader that `ReadingPipeline` implements: each part of a session requested, heard once, in order | next |
| Expiry of sessions, and the copy of a Redis session that each process keeps | open |

What composes what: `ReadingPipeline` extends `MemoryAudioQueue`; `UserRequests` extends
`UsageLimits` and instantiates `DocumentCatalog`; `VoiceGeneration` extends `AudioCache`;
`MCServices` puts the services that share no state side by side. A proof module extends
the module it is about. Each run stays under two minutes on two cores.

## 3. MemoryAudioQueue

| Model | Code (`services/reading/audio_queue.py`) |
|---|---|
| `queue` | `_audio_generation_queue`, `_prefetch_audio_generation_queue` |
| `deferred` | `_memory_audio_generation_deferred_jobs`, kept as one sequence; a user's own deque is its subsequence |
| `unfinished` | the counters of `asyncio.Queue` behind `join()` and `task_done()` |
| `enqueue_event` | `_memory_audio_generation_enqueue_event` |
| `pc`, `job` | where each `_audio_generation_worker` task is suspended, and the job it runs |
| `active_users`, `pending_user_visible`, `processing`, `processing_user_visible` | the module globals of those names |
| `phase`, `closes` | progress of `close_audio_queue` |
| `Enqueue` | `enqueue_memory_audio_job` with `ensure_memory_audio_generation_queue` |
| `Begin`, `Wake`, `Resume`, `Finish` | one stretch of a worker: first run, return from `event.wait()`, return from the sleep after a deferral, end of a job with its `finally` block; each with the scan `_pop_next_memory_audio_job` that follows |
| `BeginClose`, `JoinedVisible`, `Shutdown` | `close_audio_queue`: before the first join, between the joins, cancellation and reset |

Atomicity. `_active_audio_user_lock` is held only over code that does not await, so
acquiring it never suspends, and neither does anything in the scan but the sleep.
Hence a worker's stretch from the end of a job to the start of the next is one step.
`asyncio.Event.set()` resolves the pending waits at once (`pc = "woken"`), and a task
woken that way clears the event when it runs.

Abstractions. A job is its id, user and priority. Jobs without a user id are not
modelled (the callers set one). Which ready user's deferred job is found first
depends on dict order and is left open. The event loop's order of ready tasks is
left open. At shutdown, cancelled jobs end without suspending again.

`AudioQueueSpec` is what callers rely on: a set of waiting and a set of running
jobs; a job starts when its user runs none and no older user-visible job of the user
waits. `ImplementsAudioQueue` maps `waiting` to queued and deferred jobs and
`running` to the workers' jobs.

Properties (run `memory_queue`: two users, two workers, room for three of four jobs,
one shutdown; every hazard needs at most two users, two workers and three jobs: one
running, one set aside, one overtaking):

- `CapacityRespected`, `OneJobPerUser`, `PositionExact`, `JoinMeansDrained`,
  `NoLostWakeup`, `DeferredOnlyWhileBusy`, `UserOrder` (invariants);
- `ImplementsAudioQueue` (the refinement) and `EveryJobServed` (liveness).

`EveryJobServed` assumes weak fairness of each worker's turn: the event loop runs
every ready task, and here a running job ends (TTS, SQLite and Telegram calls have
timeouts). Jobs that wait for other jobs are the subject of the next module. Joining
and shutdown need no fairness.

Run `memory_queue_priority` checks `UserVisibleFirst`, README.md:190 taken literally,
and TLC refutes it: after the sleep that follows deferring a *prefetch* job, the
worker goes on in the prefetch loop and may start a prefetch although a user-visible
job arrived during the sleep (`audio_queue.py:468-477`).

## 4. ReadingPipeline

Both backends "memory" (`READING_SESSION_BACKEND`, `READING_AUDIO_QUEUE_BACKEND`):
only then does a session hold a live `prefetch_task`.

| Model | Code |
|---|---|
| `session` | `_reading_sessions`: session id, index, `is_generating`, `prefetch_task` (as the id of the prefetch job, 0 for None) |
| `handler` | a message, catalog or "next" handler and the await it is suspended in |
| `body` | the await the job of each queue worker is suspended in, with its locals |
| `payload`, `future` | what a job was built with; the future a prefetch job resolves |
| `heard` | the sends of each session, whose audio they are, and how often each was heard |
| `crashed` | sessions of which a handler or job raised where nothing catches it |
| `Open`, `AbandonOpen`, `Create` | `_process_message` and `open_catalog_document` up to `start_reading_session` |
| `PressNext`, `ReleaseLock`, `Stop` | `process_read_next`, `process_read_stop` |
| `SendChunk`, `EnqueueChunk`, `GiveUp`, `HandlerRaises` | `send_audio_chunk` and `enqueue_send_chunk_audio` |
| `WorkerTurn` | the queue's own actions, with the first stretch of the job picked |
| `ReadSettings` ... `EndJob` | `send_audio_chunk_now`, `get_audio_from_prefetch_or_generate`, `start_prefetch_next_chunk` |
| `Prefetch` | the prefetch job |
| `RecoverStale` | `is_generation_stale` and `recover_stale_generation` on any read: time is not modelled, so any held lock may be found stale |

The queue inside is `MemoryAudioQueue`, unchanged: a job's body decides when `Finish`
may happen. A body that is about to return has not suspended, so nothing else runs
(`Quiet`). The memory repository's per-user lock is never contended, so each
repository call is part of the stretch it is called in.

Abstractions. TTS returns audio, nothing or an error; sending a voice is heard, not
heard, or raises with or without being heard (several files). After a network or server
error `_send_with_retry` (`telegram_sender.py:85-97`) sends it again although it may have
arrived: one send is heard up to `SendAttempts` times. The deletion marker and
export are in `RedisReading`, the summary in `UserRequests`; session expiry and shutdown
are not modelled together with reading. The bound on
accepted jobs counts as a full queue. Every session has the same number of parts.

Runs:

- `reading_pipeline` (pass): one user, one worker, two handlers, two sessions of two
  parts, three jobs, one stale lock. Two jobs of one session, a session replaced while
  its job runs, a full queue and errors at every await all occur. One worker is enough
  for one user: `OneJobPerUser` is proved for any number. `PartsInOrder`: parts are
  sent in order and none by two jobs, although several jobs of a session may be queued;
  only the tries of one send repeat a part (`SendAttempts` is 2 here, 3 in the code, any
  number in the theorem).
  `PrefetchFitsPart`: a prefetch used in its own session is of the part sent.
  `LockHasHolder`: a locked session has a handler or a job that will release it, or
  an exception took the exits the code leaves to the stale timeout.
- `reading_pipeline_solo` (pass, liveness): one reader, one session of three parts,
  two workers, no stale lock. `ChunkJobsEnd`, `ChunkJobsServed`, and
  `PrefetchUsedOnce`: files of a prefetch are given to one send.
- `wrong_audio` (violation of `OwnAudio`): `start_prefetch_next_chunk` writes the
  future into whichever session the user has when the voice was sent. A reader who
  stops and opens another document while a voice is being sent gets, as the first part
  of the new document, the second part of the old one.
- `starvation` (violation of `ChunkJobsServed`): two readers, one worker. A's first
  part is sent and its prefetch queued behind B's job; A presses "next"; A's new job
  goes first, reserves A and awaits the prefetch, which cannot start while A is
  reserved. There is no timeout: the worker is lost, and B's next job waits for ever.
  With several workers each such reader takes one. The run with one reader passes only
  because the worker that ends a job takes its prefetch in the same step; a stale lock
  that lets a second job in front of the prefetch stops one reader as well, which is
  why the liveness run has none.

Fairness of `PipelineFairSpec`: each worker and each handler that can take a step
does (the event loop runs ready tasks; external calls return, raise or time out).
Nothing is assumed of users, of `Stop` or of stale locks. Awaiting a future is enabled
only once it is done, so fairness does not hide the deadlock.

## 5. RedisAudioQueue

Backend "redis" (`READING_AUDIO_QUEUE_BACKEND`): the jobs live in four Redis lists,
which survive the process; its memory does not.

| Model | Code (`services/reading/audio_queue.py`) |
|---|---|
| `pending`, `processing` | the lists of each priority, right end first: `BRPOPLPUSH` and `RPOPLPUSH` take the head, `LPUSH` appends |
| `deferred` | `_redis_audio_generation_deferred_jobs` as one sequence |
| `active` | `_redis_audio_generation_active_raw_jobs`, in the order of the dict |
| `active_users` | `_active_audio_user_ids` |
| `pc`, `job` | where each `_redis_audio_generation_worker` task is suspended, and its `raw_job` |
| `phase` | down, recovering, up, closing (stop event set), requeueing |
| `begun`, `purged` | history: started by this process; removed by a purge |
| `Enqueue`, `Purge` | `enqueue_redis_audio_job`, `purge_queued_audio_jobs_for_user`: one script each |
| `Resume`, `ServePop`, `PopTimesOut`, `NothingPopped`, `JobPopped` | the loop and `_pop_next_redis_audio_job` |
| `HandlerEnds`, `Ack`, `Acked` | the return or exception of `job_handler`, the acknowledgement, what follows |
| `Requeue`, `MoveBack` | the stop signal found with a job in hand; `_requeue_redis_audio_job` |
| `PopFails`, `AckFails`, `RequeueFails`, `ReturnFails` | `RedisError`, before or after Redis executed the call |
| `Start`, `Recover`, `Recovered` | `start_audio_workers`, one `RPOPLPUSH` of the recovery per step |
| `BeginClose`, `WorkersGone`, `ReturnActive`, `EndClose` | `close_audio_queue`: stop event, end or cancellation of the workers, `_requeue_active_redis_audio_job`, exit |
| `Crash` | the process dies in any state but "down" |

Atomicity. A command or script is atomic in Redis, but the worker learns of it later:
the execution of `BRPOPLPUSH` and the arrival of its reply are two steps, and so are
the end of a handler, its `LREM` and the release. Between them anything may happen:
a purge, the stop signal, a cancellation, a crash. From a reply to the next call the
worker does not suspend.

Abstractions. A list entry is the job itself: `job_id` makes the JSON of two jobs
different. Entries that are no valid job do not occur (enqueue validates). One process
at a time uses the lists, as in `docker-compose.yml`. `main()` awaits the recovery
before it takes updates. A worker that an enqueue re-creates while the queue is closing
finds the stop event and exits; that and enqueues between the end of
`close_audio_queue` and the exit of the process are left out. The order in which
several deferred users are looked at is left open.

`DurableQueueSpec` is what callers rely on: an accepted job is stored until its handler
has ended or its user's jobs are purged, whatever happens to the process; a process
starts no job twice, runs one job of a user at a time, and a job a purge removed never
returns. It does not promise order over a restart (requeued and recovered jobs go to
the young end of the list), nor that a purge stops a job a worker already has
(`should_skip_deleted_user_job` does, see `RedisReading`). `ImplementsDurableQueue` maps
`stored` to the lists' content, `running` and `finishing` to the workers' jobs.

Runs:

- `redis_queue` (pass): two users, two workers, room for two of three jobs, one crash or
  shutdown. `ListedOnce`, `ReservationExact`, `ImplementsDurableQueue`. Two workers let
  a job be set aside while its user's job runs; the third job finds the queue full
  until an acknowledgement; one restart puts every job through recovery, and a second
  one would start from the same lists. The theorems lift the bounds.
- `redis_queue_failures` (pass): two jobs, one failed call, one crash or shutdown.
  `LeakBounded`: a job nobody knows in a processing list is the price of one failed
  call each, and it is gone after the next start. `EveryJobLeaves`: unless a call
  fails, every accepted job leaves the lists, also over a restart. With a failure it
  need not: the job waits in processing for the next start.

Fairness of `FairSpec`: each worker's turn (the event loop runs ready tasks, Redis
answers or times out, handlers end) and `Process` (recovery and shutdown go on, and
`restart: unless-stopped` starts a process that ended). The call that pops the
user-visible list may win against the prefetch jobs only while there are user-visible
jobs, of which a behaviour has finitely many (`MaxJobs`): that a steady stream of
user-visible jobs can hold prefetch back is what the code intends. Nothing is assumed
of users, crashes and failures.

## 6. RedisReading

Backends "redis" for sessions and queue: one user's session in Redis, the prefetch
protocol that runs over its fields, the three kinds of jobs, and the deletion of the
user's data. Every command to Redis is a step, and handlers of the bot and workers of
any process interleave between two.

| Model | Code |
|---|---|
| `store` | `reading:session:<user>`: index, `is_generating` (with "stale" for an old lock), `prefetch_state`, its index and files |
| `actor` | where a handler or a worker is suspended, with the session it read last |
| `pending` | the queue, a bag: a lost worker's job is handed out again |
| `marked`, `marker` | deletions asked for; the deletion marker in Redis |
| `ReadSession`, `WritesBack` | `RedisReadingSessionRepository.get`: it reads, releases a stale lock, and stores the whole session again |
| `Updates`, `TryStart`, `DeleteSession`, `Create` | the Lua scripts of update and try_start_generation, cleanup, create |
| `Context`, `Current`, `Flag`, `Enqueue`, `Busy` | the handlers of "next", "export", "stop" and of a message, up to the enqueue |
| `Check` ... `Release` | `send_audio_chunk_now`, `prefetch_audio_chunk` and the export job with its looks at session and marker between the parts |
| `HandlerRaises`, `TurnsBack`, `Sorry`, `Unlock` | calls to Telegram that fail once the lock is taken: outside any try block, inside one, in an apology, and the release that follows (`callback_flow_service.py:516-558`, `808-843`) |
| `Settings`, `PremiumFails` | SQLite fails before the try block of a job (`chunk_audio_service.py:126`), or between its update of the index and the sending (178) |
| `Send`, `SendFails` | the voice arrives, arrives more than once, or does not |
| `Waited`, `Claim`, `Reset`, `Queue`, `Unqueued`, `Ready`, `Failed` | the prefetch protocol: queued, running, ready or failed; the chunk job waits three seconds at most, and the late result comes all the same |
| `Erase`, `SetMarker`, `Erasing`, `Purge` | `/delete_my_data`: marker, session, queue |
| `Elapse`, `Lose` | the lock counts as stale; a process dies: a worker's job is delivered again, a handler is gone |

History variables say which races and failures happened (`causes`), how a voice differed
from the part that was due (`misheard`), which sessions were deleted (`ended`) and which
files a step left without an owner (`lost`). The properties do not say that nothing goes
wrong, since things do: each names the causes its faults may go back to, and admits no
other. The causes:

| Cause | What happened |
|---|---|
| overlap | a get stored back a session that had been changed or deleted since its read |
| replaced | a session was replaced between a check and the command that followed |
| stale | a lock was taken for abandoned while its owner was at work |
| crash | a worker died, and its job was delivered again |
| abandoned | a handler died after it took the lock, or a handler or job failed where nothing catches the error: `callback.answer()` (`callback_flow_service.py:523`, `826`), the apology before the release (553), the announcements of a new text, the settings read before the try block, a refused export's message |
| released | an apology inside `send_audio_chunk` failed when the lock was already released, and the handler released it again, maybe another's |
| unanswered | the queue took a chunk or export job and the answer was lost: the handler released the lock of a job that runs |
| resent | a voice arrived, its answer did not, and it was sent again |
| unsent | a voice was refused, or its job failed or met the deletion marker after the index had moved |

- `PartsOnceInOrder`: parts come in order, once, with their own audio. A part of an
  earlier turn: only after overlap, stale, crash, replaced, released or unanswered.
  Twice in a row: only resent. Skipped: what brings one again, or unsent. Of the wrong
  text: only after overlap or replaced. After a deletion: never, but for a voice that was
  being sent when the marker was set.
- `StoppedStaysStopped`: only an overlapping get brings a deleted session back.
- `FilesAccounted`: a file on disk is in a job's hand, in the session, or lost at one of
  the places where the code loses it; among them the error between the update of the
  index and the sending, whose except clause removes no files.
- `GenerationReleased`: a lock that is set has a job or a handler that releases it, also
  when a worker dies, a provider or a send fails, or the queue refuses. What leaves it
  without one is named: abandoned; replaced, overlap, released and unanswered, a release
  or mark of the wrong session or job; a deletion, which purges the job that would
  release it; and stale, a lock recovered while its job still runs, which then takes back
  the end of the text that an export has already seen. (The attempt to prove the property
  found this last case; TLC confirmed it with a behaviour of 80 steps.)

Run `redis_reading`: three actors, two parts, two sessions, two events (what the user
does, refusals, failed calls, lost processes, lapses of time), at most one kind of trouble in a
behaviour (`MaxCauses`: no step follows a second kind, so that one cannot be excused by
another). Three
actors let a get overlap with two commands of others. A run by hand with two actors
and three events (5.6 million states) agrees.

Abstractions. The marker checks of the executor and at the head of a job are one step;
cleanups that follow one another are merged; order and failures inside the queue are
`RedisAudioQueue`'s. Not modelled: the copy of a session that each process keeps
for its prefetch task, expiry by TTL, and failing session commands; the summary, whose
handler takes the same lock (`UserRequests` has it with sessions in memory); and a worker
that dies after the last step of its job and before its acknowledgement, which runs a
finished job again (`RedisAudioQueue` has that redelivery).

## 7. UserRequests, UsageLimits, DocumentCatalog

What a user pays and gets: messages, the catalog and the "short summary" button over the
daily limits and `document_history`. Sessions are in memory; reading itself is left to
the modules above (a session is "voicing" until its job ends).

| Model | Code |
|---|---|
| `counter`, `limit`, `premium` | `usage_daily`, the limits in `app_settings`, the plans in `users` |
| `ticket` | where a reservation or refund of a handler is suspended: date fixed, plan read, limit read, counted in one transaction; a refund fixes a date of its own |
| `adjusting` | `adjust_editable_limit` between its read and its write |
| `Midnight`, `SetLimit`, `ChangePlan`, `ResetUser` | the clock and the administrator |
| `docs` | `document_history`, with the content a row, its summary and its stored voice are of |
| `Twins` | `get_cached_summary_for_text`: rows of the same text that have a summary |
| `DeleteRow`, `ClearCatalog`, `DeleteOlder` | the deletions of the user and of the retention sweep |
| `handler` | where a handler is suspended, and the session dictionary it holds |
| `lockOf`, `lockUses` | the tables of locks per user and their counts, of messages and of the catalog |
| `Arrive` ... `Announce` | `handle_message`, `_process_message` |
| `StartOpen`, `Fetch`, `StartFromCatalog` | `open_catalog_document`, `_open_catalog_document_locked` |
| `PressSummary` ... `Repeat` | `process_read_summary`, `_send_cached_summary` |

A `None` in the model is 0. A lock is a number; a lock no handler refers to stands for
the one that `asyncio.Lock()` creates (`FreshLock`; that there is one is a lemma). The
four kinds of input count alike and are the kind "input". Extraction returns a text, an
error text, or raises. Paging, titles, and the recovery of stale locks (in
`ReadingPipeline`) are left out.

- `LimitRespected`: nobody without the plan is counted beyond the highest limit there
  was. `CounterExact`: a counter is what was granted and not given back, except for the
  counters that a reset or a refund across midnight touched (the code refunds the day of
  the refund, `usage_limits_service.py:351`).
- `LocksExact`: one handler of a user inside a lock, and the tables hold exactly the
  locks in use.
- `ChargeMatchesDelivery`: a request is charged exactly when its material was opened or
  its summary sent, over every exit; only a call to Telegram outside the try blocks
  (`messages.py:186`) or a failed refund sets the two apart. Sent is what the program
  knows to be sent: a voice that arrived although every reply of Telegram was lost is
  refunded by the code, and not sent in the model.
- `CatalogSummaryOwn`: a stored summary is of its row's text. The handler saves it with
  the document of the session it *started* with, so this holds where the next fails.

Run `requests` (pass): one user, two handlers, three requests, two texts, rows and
sessions, two days, one administrator's action or deletion, one failing call. The
counters of two users are apart, and the locks keyed by user; two handlers are what it
takes to race for a lock, three requests to let one wait while another leaves. The
theorems lift these bounds.

One action of an administrator is too few for the lost update of two of them
(`usage_limits_service.py:240`), and two exceed the time of a run: that case is in the
theorem `LimitRespectedHolds` only.

Run `requests_summary` (violation of `SummaryIsOwn`): `process_read_summary` marks the
summary as delivered in whichever session the user has when the voice has been sent
(`callback_flow_service.py:314`, and 723 stores its text). A reader who opens another
document meanwhile finds the summary of the new one marked: its keyboard has no summary
button, and after the last part the bot says "Короткий зміст файлу вже створено"
(`texts/messages.py:110`), although no summary of that file was made.

## 8. Services

These share no state with one another. `MCServices` lets `focus` choose one of them
at the start, so that one run (`services`) checks all five: their state spaces add up.
Bounds are in `MCServices.cfg`: two callers, updates or events of each service, enough
time for a window or an interval to pass, and room for one retry, one fallback and one
restart. Three calls with two troubles, run by hand (920 000 states), agree.

`AudioCache` and `VoiceGeneration`. A clip (text, voice, rate, provider) has a file, owners and
a lock *file*; nothing in the cache suspends, so only a crash tears an operation, and
`TornSave`, `TornErasure` list what it leaves. A call of `generate_voice` speaks the
pieces of a text under a permit of the semaphore, by the first provider of the chain
that succeeds; Gemini has models and attempts, Edge attempts with a conversion in
between. `OwnersExact`: owners are those who were served a clip and not erased since,
and a clip without owners is gone, except clips that a crash touched or that a
generation stored after its user was erased (`tts.py:509`). `VoiceFilesAccounted`: after
every failure, retry, cancellation and fallback the files on disk are exactly those of
calls under way; a cancelled conversion leaves its file (`utils/audio.py:413`). Left
out: previews and broadcasts (no user), disk errors, the order in which the semaphore
wakes tasks; `clear_audio_cache` has no caller.

`UserActivity`. `ActivityTrue`: a cached snapshot that spares the registration stands
for a row with the user's name: after a deletion the next update registers again,
unless the deletion fell between a registration and its snapshot.

`RateLimit`. `WindowRespected`: over errors of Redis, expiry of the key and late time
stamps, neither window lets more than its maximum through in a period; the Redis
window only as long as no event reached it after a later one. Warnings, the exemption of
administrators and a restart of the memory window are left out. A window is a set of
pairs, a score and a member, as in the sorted set: Redis counts members (`ZCARD`).

`Telemetry`. `MetricsOutliveClose`: a metric recorded before a close whose flush did not
time out is stored, or its failure or dropping logged, although metrics are still
recorded while the service closes, and a late one makes a second queue and worker. The
Redis client's own life is left out.

`TextSplitter`. `split_text` as a machine that takes one paragraph or word at a time. A
chunk is the letters it holds, numbered through the text without its blanks, and its
length. `TextKept`: no chunk is empty or too long, the first begins with the first
letter, each goes on where the one before ended (the slices of a word longer than a chunk
included), and at the end the chunks hold every letter. Characters are counted, not
spelled: the only white space inside a paragraph is the blank, so that words hold none
(`strip()` would remove a tab or a line separator at the edge of a chunk), and that a double line break
after a paragraph taken word by word becomes one blank is below what the model tells
apart.

## 9. Proofs

`MemoryAudioQueueProofs`, checked by tlapm for every value of the constants that
satisfies `QueueAssumption` (a positive capacity, a nonempty finite set of workers,
`NoJob` not a job; `config.py:226-228` rejects other sizes):

| Theorem | States |
|---|---|
| `TypeCorrect` | `Spec => []TypeOK` |
| `OneJobPerUserHolds` | `Spec => []OneJobPerUser` |
| `CapacityHolds` | `Spec => []CapacityRespected` |
| `DeferredOnlyWhileBusyHolds` | `Spec => []DeferredOnlyWhileBusy` |
| `UserOrderHolds` | `Spec => []UserOrder` |
| `JoinMeansDrainedHolds` | `Spec => []JoinMeansDrained` |
| `PositionExactHolds` | `Spec => []PositionExact` |
| `ImplementsAudioQueueHolds` | `Spec => ImplementsAudioQueue` |
| `NoLostWakeupHolds` | `Spec => []NoLostWakeup` |

The argument. The scan is first reduced to three outcomes (`ServeCases`, `ScanCases`,
`TurnCases`): a worker runs a deferred job, pops the head of a queue and runs or defers
it, or waits. Each invariant is then shown preserved by the outcomes.
`OneJobPerUser` is inductive with the types. `CapacityRespected` is not: the code
compares a counter, so `CapacityInv` adds that `processing` is the number of running
workers. `UserOrder` is far from inductive: `OrderInv` adds that the user-visible queue
is sorted by id (`QueueSorted`), that deferred user-visible jobs are sorted and older
than everything queued (`DeferredSorted`), and that a running one is older than its
user's waiting ones (`RunningOlder`). A queued job overtakes a deferred one of its user
only if the user is free, and `DeferredOnlyWhileBusy` with the scan's order (deferred
first) excludes that.

The counts and the refinement speak of sets of jobs where the code has sequences,
counters and workers, so they need that every job is in one place (`Apart`): no queue
holds a job twice, and queued, deferred and running jobs are disjoint. With it a turn of
a worker has two effects only: it takes the job it ends out (`Others`), and moves one
waiting job or none to the running ones (`StartsJob`, `StartsNone`). `JoinMeansDrained`
is then inductive; `PositionExact` follows from `CountersExact`, which says of two of the
three counters what they count. A turn implements `Start`, `Finish` or `Handover` of
`AudioQueueSpec`, or is not seen; that the job it starts may start follows from
`OneJobPerUser` and `UserOrder` in the state after it, and that an accepted job had room
from `ProcessingExact`.

`NoLostWakeup` is not inductive: a worker that wakes in the prefetch loop finds its
queue empty, sees no event and waits without having looked at the user-visible queue.
`WakeInv` names who has: while the event is set no worker waits; once it is cleared, a
user-visible or deferred job has a worker that is new, woken, running or in the
user-visible loop. A worker that goes to wait after a whole scan leaves only deferred
jobs of busy users, and those have a running worker by `OneJobPerUser`.

`ReadingPipelineProofs`, under `QueueAssumption` and `PipelineAssumption` (every session has
a part; the bounds are natural numbers), for any users, workers and handlers:

| Theorem | States |
|---|---|
| `PipelineTypesCorrect` | `PipelineSpec => []PipelineTypeOK` |
| `PipelineRunsQueue` | `PipelineSpec => Spec`: the pipeline implements the memory queue |
| `PartsInOrderHolds` | `PipelineSpec => []PartsInOrder` |
| `PrefetchUsedOnceHolds` | `PipelineSpec => []PrefetchUsedOnce` |
| `PrefetchFitsPartHolds` | `PipelineSpec => []PrefetchFitsPart` |
| `LockHasHolderHolds` | `PipelineSpec => []LockHasHolder` |

`PipelineInv` ties the records to the queue: a worker has a body exactly while it has a
job, every id below the next has a payload, no session or body names an id that was not
given out. A step of the pipeline is a step of the queue or leaves it alone, so
`OneJobPerUser` and `Apart` are taken from `MemoryAudioQueueProofs`.

`PartsInOrder` needs to know who may send next. `ReadingInv`: a session has one user, who
has been sent only parts before its index; at most one running job sends parts of a session,
its part comes after all that was heard, and from `Advance` on the index stays beyond it;
a session that is being opened is known to nobody. Two jobs of one session may well be
queued: the second reads the index when it starts, and by `OneJobPerUser` only after the
first has returned.

The other two follow the prefetch task through its life. `PrefetchInv`: the task of a
session was made for the part at the index, if it was made for this session at all, and
nobody has used it; a job that waits for a task shares it with its own session only; a job
that has the audio has taken the task out of the session, and no other job has it. The
job that starts while a session keeps a task is the one step where session and job hold it
together, and there the user has no other running job.

`LockHasHolder` is not inductive: the lock changes hands between a handler, an entry of
the queue and a running body, and a body speaks of the session by the number it copied.
`HolderInv` says who holds the lock at each place (`LocksHeld`), and that a body that
will release it works for the session its job was enqueued for (`BodiesTied`); a session
that is being opened has a number by `ReadingInv`, so no handler holds a lock of nobody.

`RedisAudioQueueProofs`, under `RedisQueueAssumption` (a positive capacity; `NoJob` is
not a job), for any users and workers and any number of crashes and failed calls:

| Theorem | States |
|---|---|
| `TypeCorrect` | `Spec => []TypeOK` |
| `ReservationCorrect` | `Spec => []ReservationExact` |
| `ListedOnceCorrect` | `Spec => []ListedOnce` |
| `InvCorrect` | `Spec => []Inv`, the inductive invariant |
| `ImplementsDurableQueueCorrect` | `Spec => ImplementsDurableQueue` |
| `LeakBoundedCorrect` | `Spec => []LeakBounded` |

None of them but `InvCorrect`'s is inductive. `PhaseInv` ties the workers' states to
the life of the process (no worker, no reservation and nothing set aside while it is
down or recovering); `ReservationExact` needs it when the workers start. `Apart` says
that every job is once in the four lists and in a list of its priority: without it an
`LREM` with count 1 would leave a copy, and the refinement needs it twice, since
`Forget` removes a job from a set and `Accept` compares a cardinality where the script
adds lengths (`ListedOnce` follows from it). `KnownInv`: every job listed, purged or
started has an id below `next_id`, so a new job is new, and a purged job is not listed.
`HeldInv`: a started job does not wait, and a job set aside or in a worker's hand but
not started is claimed (in processing or purged, and not begun by this process) in one
place only; this is what makes `Start` of the abstract specification legal.
Every command is first reduced to its
effect on the sets `Waiting` and `Taken` (`PurgeLists`, `ServePopLists`, ...); the
sequences appear nowhere after that. The refinement has one lemma for each abstract
action and one step for each concrete one.

`LeakBounded` counts, and the two things it counts change at different steps: a worker
acknowledges a job in Redis before it forgets it, and forgets it before it asks for the
next. `LeakInv` therefore leaves the jobs out that a worker has acknowledged and not yet
forgotten (`Forgotten`): a taken job without an owner appears only in a step that raises
`failures`, one at most in each.

`UserRequestsProofs`, under `UsageAssumption` (a default limit
between 1 and the highest, finitely many handlers) and `RequestsAssumption` (both kinds
of use exist, the catalog holds a row), for any users, handlers, texts, days, edits and
failures:

| Theorem | States |
|---|---|
| `RequestsInvariant` | `RequestsSpec => []RequestsInv`, the inductive invariant |
| `RequestsTypesCorrect` | `RequestsSpec => []RequestsTypeOK` |
| `LimitRespectedHolds` | `RequestsSpec => []LimitRespected` |
| `CounterExactHolds` | `RequestsSpec => []CounterExact` |
| `LocksExactHold` | `RequestsSpec => []LocksExact` |
| `ChargeMatchesDeliveryHolds` | `RequestsSpec => []ChargeMatchesDelivery` |
| `CatalogSummaryOwnHolds` | `RequestsSpec => []CatalogSummaryOwn` |

The argument. `UsageInv` adds two facts to the properties. `LimitsKnown`: a limit that a
handler has read and not yet compared with is no higher than the highest there was.
`HeldCounted`: at least as many uses are granted and not given back as there are handlers
that still hold one. Without it a refund could meet a counter that is zero, where the
code's floor at zero would set counter and uses apart. `LockInv` has one
clause per entry of the tables; a new handler gets a lock that no other refers to by the
pigeonhole principle (`FreshLockFound`). `WorldFits` gives the records their types: a
handler inside a message or the catalog has a user and a lock, one at work on a summary
has no lock. The steps of the limits are proved once, before the composition, and cited
for every handler's action that contains one (`UsageKept`); the other actions are
reduced to entering, moving and leaving (`HandlerStep`) before the locks are looked at.

`ChargeInv` gives every place of a handler the state of its ticket (`Paid`): nothing paid
before the reservation, granted while the request is worked on, refunded or untouched on
the way out. It is what the try blocks of three handlers have to agree on.
`CatalogInv` follows a text through rows, sessions and handlers: a row that is kept in a
session or in a handler's hand is of their text, or gone (`DocMatches`); ids are never
given twice, so a late save meets the row it was meant for or none. A handler about to
store a summary has one of the text it started with (`SeatTied`) and stores it with the
document of that text; nothing of the kind holds of the session it writes to, which is
why `SummaryIsOwn` is violated.

`RedisReadingProofs`, under `RedisReadingAssumption` (a text has a part, a session can be
opened; the bounds are natural numbers), for any processes, parts, events and sessions:

| Theorem | States |
|---|---|
| `RedisReadingTypeCorrect` | `RedisReadingSpec => []RedisReadingTypeOK` |
| `PartsOnceInOrderHolds` | `RedisReadingSpec => []PartsOnceInOrder` |
| `StoppedStaysStoppedHolds` | `RedisReadingSpec => []StoppedStaysStopped` |
| `FilesAccountedHolds` | `RedisReadingSpec => []FilesAccounted` |
| `GenerationReleasedHolds` | `RedisReadingSpec => []GenerationReleased` |

They rest on one inductive invariant, `ReadingInv`, since what is heard depends on who
holds the lock, that on which session is stored, and that on what a place of an actor
allows:

- `ShapeInv`: the kind of job, the files and the session read that each place admits, and
  which places only the job of a worker reaches (`WorkPlaces`).
- `SessionsInv`: unless a get overlapped, every session opened is the stored one or
  ended, and who has read another session than its own works for an ended one.
- `LockInv`: unless a get overlapped, a session was replaced, a lock went stale or was
  released twice, or a push was not answered (`Clean` says so), at most one handler or
  job, waiting or under way, owns a chunk or an export of a session, the stored session
  is then marked, and the stored index is where the actor's place says. If nobody dropped
  the lock (`Held`: no deletion, nothing abandoned), a marked session also has an owner:
  an actor at a place from which the release is reached, or a job in the queue.
- `HeardInv`: with the same excuses and that of a lost worker, the user has heard what
  lies before the index, or less while a chunk is past its index update and not yet
  sent, or once a voice was left unsent (`unsent`). A voice sent twice leaves it as it is.
- `AudioInv`: files in hand are of the job's session and part, and a "ready" session
  holds those of the part it names; or the session was ended in the meantime.
- `SendingInv`: a voice that goes out after the marker was being sent when it was set.

Each part says which races excuse it and no other. Every step is one of an actor: the
operators `Keeps...` say what each part asks of that actor alone, lemmas say what the
patterns of the actions give it (a get that goes on, an update, a check, the end of a
job), and there is one lemma for each action.

`VoiceGenerationProofs`, for any users, clips, callers, retries and models:

| Theorem | States |
|---|---|
| `OwnersExactHolds` | `VoiceSpec => []OwnersExact` |
| `VoiceFilesHold` | `VoiceSpec => []VoiceFilesAccounted` |

`OwnersExact` speaks of the clips in no doubt, but a clip leaves doubt when its last
owner is erased: `CacheInv` adds that an index in doubt, if it can be read, still names
everybody the clip was served to (`Covered`). `CallsInv`: calls under way have numbers of
their own and every file bears the number of its call, so that a step of one call
touches no file of another.

| Module | Theorem | States | Invariant |
|---|---|---|---|
| `ServiceProofs` | `TextKeptHolds` | `SplitterSpec => []TextKept` | `SplitterInv`: what is being collected is empty, or fits without its trailing blanks, and begins with the letter after the last chunk |
| `ServiceProofs` | `ActivityTrueHolds` | `ActivitySpec => []ActivityTrue` | `ActivityInv`: an update that has registered the user and was not overtaken by a deletion knows a row with the name |
| `ServiceProofs` | `MetricsOutliveCloseHolds` | `TelemetrySpec => []MetricsOutliveClose` | `TelemetryInv`: early metrics are known, queued or in the worker's hand; only the first queue is ever flushed |
| `ServiceProofs` | `WindowRespectedHolds` | `LimitSpec => []WindowRespected` | `LimitInv`: a window holds all that its limiter let through and may still count (`MemoryWindow`, `RedisWindow`); Redis drops the key when nothing in it does |

Their assumptions are that sizes, bounds and lengths are natural numbers (positive where
`config.py` demands it).

Every invariant and both refinements that the passing runs check are theorems.
Only model-checked: liveness under fairness (`EveryJobServed`, `EveryJobLeaves`,
`ChunkJobsServed`, `ChunkJobsEnd`) is out of the prover's reach and stays with TLC.

## 10. Not modelled

Listed in `PROJECT.json` with the reason: parsing, OCR and download (I/O that returns or
raises), wording, keyboards, admin menus, the HTTP API and single-row settings. Of
modelled parts: session expiry by TTL and cleanup at shutdown, the per-process copy of a
Redis session, failing session commands, export with the memory backends (the same
code over calls that do not suspend), a second bot process on the same lists, the
confirmation dialog of a deletion and the SQL of tables nothing else reads.

No order is promised or checked for jobs that are pushed back
(`audio_queue.py:749`): they go to the young end, and `DurableQueueSpec` is a set.

## 11. Running

    tlc -workers 2 -config MCMemoryAudioQueue.cfg MCMemoryAudioQueue.tla
    tlc -workers 2 -config MCReadingPipeline.cfg MCReadingPipeline.tla
    tlc -workers 2 -config MCReadingPipelineSolo.cfg MCReadingPipeline.tla
    tlc -workers 2 -config MCRedisAudioQueue.cfg MCRedisAudioQueue.tla
    tlc -workers 2 -config MCRedisAudioQueueFailures.cfg MCRedisAudioQueue.tla
    tlc -workers 2 -config MCRedisReading.cfg MCRedisReading.tla
    tlc -workers 2 -config MCUserRequests.cfg MCUserRequests.tla
    tlc -workers 2 -config MCServices.cfg MCServices.tla

and for the violations `MCMemoryAudioQueuePriority.cfg`, `MCReadingPipelineAudio.cfg`,
`MCReadingPipelineStarvation.cfg` and `MCUserRequestsSummary.cfg`. The proofs:

    for m in SequenceLemmas MemoryAudioQueueProofs RedisAudioQueueProofs UserRequestsProofs \
             ReadingPipelineProofs RedisReadingProofs VoiceGenerationProofs ServiceProofs
    do tlapm $m.tla; done

All configurations say `CHECK_DEADLOCK FALSE`: a bounded behaviour ends when its events,
jobs or requests are used up. What must not get stuck is stated as a property.

Definitions under a comment "Slip:" are small mistakes (a dropped guard, a lost
`finally`); replacing the definition that follows by its slip makes TLC refute the
property named for it in `PROJECT.json` ("mutants"). No specification uses them.
