--------------------------- MODULE ReadingPipeline ---------------------------
(***************************************************************************)
(* Reading sessions on top of the memory audio queue (the session backend  *)
(* is "memory" too: only then does a session keep a live prefetch_task).   *)
(*                                                                         *)
(* Handlers open a session, press "next" and stop it; send_chunk jobs voice*)
(* the part at the session's index and start the prefetch of the next one; *)
(* a prefetch job resolves the future that the next send_chunk job awaits. *)
(*                                                                         *)
(* One action is one stretch of a handler or of a job between two awaits   *)
(* that really suspend.  A job that is about to return has not suspended:  *)
(* while one is "returning" nothing else runs (Quiet).                     *)
(***************************************************************************)
EXTENDS MemoryAudioQueue

CONSTANTS Handlers,         \* concurrent message and callback handlers
          Parts,            \* chunks of every session
          SendAttempts,     \* DEFAULT_RETRY_ATTEMPTS of telegram_sender
          MaxSessions,      \* bound: sessions opened in one behaviour
          MaxRecoveries     \* bound: locks found stale in one behaviour

ASSUME PipelineAssumption ==
    /\ Parts \in Nat \ {0}
    /\ SendAttempts \in Nat \ {0}
    /\ MaxSessions \in Nat
    /\ MaxRecoveries \in Nat

VARIABLES
    session,      \* _reading_sessions: the session of each user
    handler,      \* where each handler is suspended
    body,         \* where the job of each worker is suspended
    payload,      \* what each accepted job was built with, by job id
    future,       \* the prefetch futures, by job id
    opened,       \* sessions opened so far
    recoveries,   \* stale locks recovered so far
    crashed,      \* sessions one of whose handlers or jobs raised
    heard         \* what the user was sent of each session, send by send

pipelineVars == <<session, handler, body, payload, future, opened, recoveries, crashed, heard>>
allVars == <<vars, pipelineVars>>

\* Session ids and job ids start at 1; 0 stands for None.
NoSession == [sid |-> 0, index |-> 0, is_generating |-> FALSE, prefetch_task |-> 0]
IdleHandler == [at |-> "idle", user |-> 0, sid |-> 0, origin |-> "none"]
NoAudio == [sid |-> 0, part |-> 0, prefetch |-> 0]
NoBody == [at |-> "none", sid |-> 0, part |-> 0, task |-> 0, audio |-> NoAudio]

Sids == 0..MaxSessions
Audio == [sid : Sids, part : 0..Parts, prefetch : 0..MaxJobs]

PipelineTypeOK ==
    /\ TypeOK
    /\ session \in [Users -> [sid : Sids, index : 0..Parts, is_generating : BOOLEAN,
                              prefetch_task : 0..MaxJobs]]
    /\ handler \in [Handlers -> [at : {"idle", "opening", "announcing", "answering", "enqueuing",
                                       "giving_up", "apologising"},
                                 user : Users \cup {0}, sid : Sids,
                                 origin : {"none", "message", "catalog", "next"}]]
    /\ body \in [Workers ->
          [at : {"none", "leaving", "settings", "generating", "awaiting", "resolved",
                 "sending", "closing", "prefetching", "returning"},
           sid : Sids, part : 0..Parts, task : 0..MaxJobs, audio : Audio]]
    /\ payload \in Seq([sid : Sids, part : 0..Parts])
    /\ future \in [1..MaxJobs -> {"pending", "ready", "empty", "failed"}]
    /\ opened \in Sids
    /\ recoveries \in 0..MaxRecoveries
    /\ crashed \subseteq Sids
    /\ heard \in [1..MaxSessions -> Seq([part : 0..Parts, audio : Audio, times : 1..SendAttempts])]

PipelineInit ==
    /\ Init
    /\ session = [u \in Users |-> NoSession]
    /\ handler = [h \in Handlers |-> IdleHandler]
    /\ body = [w \in Workers |-> NoBody]
    /\ payload = <<>>
    /\ future = [n \in 1..MaxJobs |-> "pending"]
    /\ opened = 0
    /\ recoveries = 0
    /\ crashed = {}
    /\ heard = [s \in 1..MaxSessions |-> <<>>]

Quiet == \A w \in Workers : body[w].at # "returning"

------------------------------------------------------------------------------
\* The memory session repository.

Exists(u) == session[u].sid # 0
IsSame(u, sid) == Exists(u) /\ session[u].sid = sid

\* update() does nothing when the user has no session.
Updated(u, s) == IF Exists(u) THEN [session EXCEPT ![u] = s] ELSE session

\* cleanup(): the prefetch task is a bare future here, which
\* cleanup_prefetch_task leaves alone.
CleanedUp(u) == [session EXCEPT ![u] = NoSession]

\* finish_generation: whichever session the user has now.
GenerationFinished(u) == Updated(u, [session[u] EXCEPT !.is_generating = FALSE])

\* finish_generation_if_session.
FinishedIfSession(u, sid) == IF IsSame(u, sid) THEN GenerationFinished(u) ELSE session

\* A read finds the lock stale and releases it: time is not modelled, so any lock
\* may have become stale.
RecoverStale(u) ==
    /\ Quiet
    /\ recoveries < MaxRecoveries
    /\ session[u].is_generating
    /\ session' = GenerationFinished(u)
    /\ recoveries' = recoveries + 1
    /\ UNCHANGED <<vars, handler, body, payload, future, opened, crashed, heard>>

------------------------------------------------------------------------------
\* Handlers.

\* The intake locks: one message, and one catalog button, of a user at a time.
IsFree(u, origin) == \A k \in Handlers : ~(handler[k].user = u /\ handler[k].origin = origin)

\* A document arrives, or one of the catalog is opened: refused while the user's
\* session is generating.  The message handler drops the old session at once.
Open(h, u) ==
    /\ Quiet
    /\ handler[h].at = "idle"
    /\ opened < MaxSessions
    /\ ~session[u].is_generating
    /\ opened' = opened + 1
    /\ \E origin \in {"message", "catalog"} :
          /\ IsFree(u, origin)
          /\ handler' = [handler EXCEPT ![h] =
                [at |-> "opening", user |-> u, sid |-> opened + 1, origin |-> origin]]
          /\ session' = IF origin = "message" THEN CleanedUp(u) ELSE session
    /\ UNCHANGED <<vars, body, payload, future, recoveries, crashed, heard>>

\* No text, a limit, an error: the handler ends before there is a session.
AbandonOpen(h) ==
    /\ Quiet
    /\ handler[h].at = "opening"
    /\ handler' = [handler EXCEPT ![h] = IdleHandler]
    /\ UNCHANGED <<vars, session, body, payload, future, opened, recoveries, crashed, heard>>

\* start_reading_session: the text is ready; the new session holds its lock.
Create(h) ==
    /\ Quiet
    /\ handler[h].at = "opening"
    /\ session' = [session EXCEPT ![handler[h].user] =
                      [NoSession EXCEPT !.sid = handler[h].sid, !.is_generating = TRUE]]
    /\ handler' = [handler EXCEPT ![h].at = "announcing"]
    /\ UNCHANGED <<vars, body, payload, future, opened, recoveries, crashed, heard>>

\* Slip: the "next" button does not take the generation lock.
PressNextUnlocked(h, u) ==
    /\ Quiet
    /\ handler[h].at = "idle"
    /\ Exists(u)
    /\ session' = [session EXCEPT ![u].is_generating = TRUE]
    /\ handler' = [handler EXCEPT ![h] =
                      [at |-> "answering", user |-> u, sid |-> session[u].sid, origin |-> "next"]]
    /\ UNCHANGED <<vars, body, payload, future, opened, recoveries, crashed, heard>>

\* process_read_next up to callback.answer(): try_start_generation takes the lock.
PressNext(h, u) ==
    /\ Quiet
    /\ handler[h].at = "idle"
    /\ Exists(u)
    /\ ~session[u].is_generating
    /\ session' = [session EXCEPT ![u].is_generating = TRUE]
    /\ handler' = [handler EXCEPT ![h] =
                      [at |-> "answering", user |-> u, sid |-> session[u].sid, origin |-> "next"]]
    /\ UNCHANGED <<vars, body, payload, future, opened, recoveries, crashed, heard>>

\* process_read_stop.
Stop(u) ==
    /\ Quiet
    /\ Exists(u)
    /\ session' = CleanedUp(u)
    /\ UNCHANGED <<vars, handler, body, payload, future, opened, recoveries, crashed, heard>>

\* The bound on accepted jobs counts as a full queue.
CanEnqueue == ActiveJobs < MaxQueueSize /\ next_id <= MaxJobs

Accept(u, priority, load) ==
    /\ Enqueue(u, priority)
    /\ payload' = Append(payload, load)

\* send_audio_chunk ends with an apology.  If sending that raises, process_read_next
\* catches it; the other handlers end.
Excuse(h) ==
    {[handler EXCEPT ![h] = IdleHandler]} \cup
    (IF handler[h].origin = "next" THEN {[handler EXCEPT ![h].at = "apologising"]} ELSE {})

\* send_audio_chunk up to message.answer() in the orchestrator: it works on the
\* session the user has now.
SendChunk(h) ==
    LET u == handler[h].user
        s == session[u] IN
    /\ Quiet
    /\ handler[h].at \in {"announcing", "answering"}
    /\ \/ /\ ~Exists(u)
          /\ handler' \in Excuse(h)
          /\ UNCHANGED session
       \/ /\ Exists(u) /\ s.index >= Parts
          /\ handler' \in Excuse(h)
          /\ session' = CleanedUp(u)
       \/ /\ Exists(u) /\ s.index < Parts
          /\ ~CanEnqueue
          /\ handler' \in Excuse(h)
          /\ session' = FinishedIfSession(u, s.sid)
       \/ /\ Exists(u) /\ s.index < Parts
          /\ CanEnqueue
          /\ handler' = [handler EXCEPT ![h].at = "enqueuing", ![h].sid = s.sid]
          /\ session' = [session EXCEPT ![u].is_generating = TRUE]
    /\ UNCHANGED <<vars, body, payload, future, opened, recoveries, crashed, heard>>

\* The queued message is sent: the job is accepted, or the queue has filled up.
EnqueueChunk(h) ==
    /\ Quiet
    /\ handler[h].at = "enqueuing"
    /\ \/ /\ CanEnqueue
          /\ Accept(handler[h].user, "user_visible", [sid |-> handler[h].sid, part |-> 0])
          /\ handler' = [handler EXCEPT ![h] = IdleHandler]
       \/ /\ ~CanEnqueue
          /\ handler' = [handler EXCEPT ![h].at = "giving_up"]
          /\ UNCHANGED <<vars, payload>>
    /\ UNCHANGED <<session, body, future, opened, recoveries, crashed, heard>>

\* The queued message is deleted; the lock taken for the refused job is released.
GiveUp(h) ==
    /\ Quiet
    /\ handler[h].at = "giving_up"
    /\ handler' \in Excuse(h)
    /\ session' = FinishedIfSession(handler[h].user, handler[h].sid)
    /\ UNCHANGED <<vars, body, payload, future, opened, recoveries, crashed, heard>>

\* A call to Telegram raises.  Only process_read_next catches it, and only around
\* send_audio_chunk; everywhere else the lock stays taken.
HandlerRaises(h) ==
    /\ Quiet
    /\ handler[h].at \in {"announcing", "answering", "enqueuing", "apologising"}
    /\ IF handler[h].origin = "next" /\ handler[h].at = "enqueuing"
       THEN /\ handler' = [handler EXCEPT ![h].at = "apologising"]
            /\ UNCHANGED crashed
       ELSE /\ handler' = [handler EXCEPT ![h] = IdleHandler]
            /\ crashed' = crashed \cup {handler[h].sid}
    /\ UNCHANGED <<vars, session, body, payload, future, opened, recoveries, heard>>

\* process_read_next releases the lock itself: after the apology for a caught error,
\* or because the callback has no message.
ReleaseLock(h) ==
    /\ Quiet
    /\ handler[h].at \in {"answering", "apologising"} /\ handler[h].origin = "next"
    /\ handler' = [handler EXCEPT ![h] = IdleHandler]
    /\ session' = GenerationFinished(handler[h].user)
    /\ UNCHANGED <<vars, body, payload, future, opened, recoveries, crashed, heard>>

------------------------------------------------------------------------------
\* Jobs.

\* Slip: the last index is not past the end.
IsExhaustedOffByOne(j) ==
    /\ j # NoJob /\ j.priority = "user_visible"
    /\ IsSame(j.user, payload[j.id].sid)
    /\ session[j.user].index > Parts

\* send_audio_chunk_now begins with a read of the session: nothing is left to send.
IsExhausted(j) ==
    /\ j # NoJob /\ j.priority = "user_visible"
    /\ IsSame(j.user, payload[j.id].sid)
    /\ session[j.user].index >= Parts

\* What the job of a worker does first.
StartOf(j) ==
    CASE j = NoJob -> NoBody
      [] j # NoJob /\ j.priority = "prefetch" ->
            [NoBody EXCEPT !.at = "prefetching", !.sid = payload[j.id].sid,
                           !.part = payload[j.id].part]
      [] j # NoJob /\ j.priority = "user_visible" ->
            IF ~IsSame(j.user, payload[j.id].sid) \/ IsExhausted(j)
            THEN [NoBody EXCEPT !.at = "leaving"]
            ELSE [NoBody EXCEPT !.at = "settings", !.sid = session[j.user].sid,
                                !.part = session[j.user].index,
                                !.task = session[j.user].prefetch_task]

\* A turn of a worker of the queue: the job it picks runs to its first await.
WorkerTurn(w) ==
    /\ \/ Quiet /\ (Begin(w) \/ Wake(w) \/ Resume(w))
       \/ body[w].at = "returning" /\ Finish(w)
    /\ body' = [body EXCEPT ![w] = StartOf(job'[w])]
    /\ session' = IF IsExhausted(job'[w]) THEN CleanedUp(job'[w].user) ELSE session
    /\ UNCHANGED <<handler, payload, future, opened, recoveries, crashed, heard>>

User(w) == job[w].user
GoTo(w, at) == body' = [body EXCEPT ![w].at = at]

\* The job's last await ends outside the try block: nothing is released.
Leave(w) ==
    /\ Quiet
    /\ body[w].at = "leaving"
    /\ GoTo(w, "returning")
    /\ UNCHANGED <<vars, session, handler, payload, future, opened, recoveries, crashed, heard>>

\* The user's settings are read from SQLite, before the try block.
ReadSettings(w) ==
    /\ Quiet
    /\ body[w].at = "settings"
    /\ \/ /\ GoTo(w, IF body[w].task = 0 THEN "generating" ELSE "awaiting")
          /\ UNCHANGED crashed
       \/ /\ GoTo(w, "returning")
          /\ crashed' = crashed \cup {body[w].sid}
    /\ UNCHANGED <<vars, session, handler, payload, future, opened, recoveries, heard>>

\* Slip: the session keeps the prefetch task that was used.
TaskForgottenNever(w) == session

\* update_reading_session(user_id, prefetch_task=None), after a job used the task.
TaskForgotten(w) ==
    IF body[w].task = 0 THEN session
    ELSE Updated(User(w), [session[User(w)] EXCEPT !.prefetch_task = 0])

\* generate_voice returns audio, returns none, or raises.
Generate(w) ==
    /\ Quiet
    /\ body[w].at = "generating"
    /\ \/ /\ \E audio \in {NoAudio, [sid |-> body[w].sid, part |-> body[w].part, prefetch |-> 0]} :
                body' = [body EXCEPT ![w].at = "resolved", ![w].audio = audio]
          /\ session' = TaskForgotten(w)
       \/ GoTo(w, "closing") /\ UNCHANGED session
    /\ UNCHANGED <<vars, handler, payload, future, opened, recoveries, crashed, heard>>

\* The future of the prefetch job is done; there is no timeout on this wait.
AwaitPrefetch(w) ==
    LET n == body[w].task IN
    /\ Quiet
    /\ body[w].at = "awaiting"
    /\ \/ /\ future[n] = "failed"
          /\ GoTo(w, "generating")
          /\ UNCHANGED session
       \/ /\ future[n] \in {"ready", "empty"}
          /\ body' = [body EXCEPT ![w].at = "resolved",
                                  ![w].audio = IF future[n] = "empty" THEN NoAudio
                                               ELSE [sid |-> payload[n].sid,
                                                     part |-> payload[n].part,
                                                     prefetch |-> n]]
          /\ session' = TaskForgotten(w)
    /\ UNCHANGED <<vars, handler, payload, future, opened, recoveries, crashed, heard>>

\* Slip: the index of the session stays.
AdvanceKeepsIndex(w) ==
    /\ Quiet
    /\ body[w].at = "resolved"
    /\ GoTo(w, IF body[w].audio = NoAudio THEN "closing"
               ELSE IF IsSame(User(w), body[w].sid) THEN "sending" ELSE "returning")
    /\ UNCHANGED <<vars, session, handler, payload, future, opened, recoveries, crashed, heard>>

\* The index moves on before the voice is sent; a stopped or replaced session ends
\* the job.
Advance(w) ==
    /\ Quiet
    /\ body[w].at = "resolved"
    /\ \/ /\ body[w].audio = NoAudio
          /\ GoTo(w, "closing")
          /\ UNCHANGED session
       \/ /\ body[w].audio # NoAudio /\ ~IsSame(User(w), body[w].sid)
          /\ GoTo(w, "returning")
          /\ UNCHANGED session
       \/ /\ body[w].audio # NoAudio /\ IsSame(User(w), body[w].sid)
          /\ GoTo(w, "sending")
          /\ session' = [session EXCEPT ![User(w)].index = body[w].part + 1]
    /\ UNCHANGED <<vars, handler, payload, future, opened, recoveries, crashed, heard>>

\* send_audio_files: the voice is sent, or given up on without an error.  A network or
\* server error may follow a voice that did arrive: it is tried again, and heard again.
MaybeHeard(w) ==
    \/ \E n \in 1..SendAttempts :
          heard' = [heard EXCEPT ![body[w].sid] =
                      Append(@, [part |-> body[w].part, audio |-> body[w].audio, times |-> n])]
    \/ UNCHANGED heard

\* Slip: the part just sent is prefetched again.
NextPrefetchSamePart(w) == [sid |-> body[w].sid, part |-> body[w].part]

\* What start_prefetch_next_chunk builds the prefetch job with.
NextPrefetch(w) == [sid |-> body[w].sid, part |-> body[w].part + 1]

\* The voice is sent and the prefetch of the next part starts; the finally block follows
\* without an await.  The future goes to whichever session the user has now.
SendVoice(w) ==
    LET u == User(w)
        next_index == body[w].part + 1 IN
    /\ Quiet
    /\ body[w].at = "sending"
    /\ MaybeHeard(w)
    /\ \/ /\ next_index = Parts
          /\ GoTo(w, "closing")
          /\ UNCHANGED <<vars, payload, session>>
       \/ /\ next_index < Parts /\ CanEnqueue
          /\ GoTo(w, "returning")
          /\ Accept(u, "prefetch", NextPrefetch(w))
          /\ session' = Updated(u, [session[u] EXCEPT
                            !.prefetch_task = next_id,
                            !.is_generating = @ /\ ~IsSame(u, body[w].sid)])
       \/ /\ next_index < Parts /\ ~CanEnqueue
          /\ GoTo(w, "returning")
          /\ session' = FinishedIfSession(u, body[w].sid)
          /\ UNCHANGED <<vars, payload>>
    /\ UNCHANGED <<handler, future, opened, recoveries, crashed>>

\* The call raises; with several audio files the user may have heard some.
SendRaises(w) ==
    /\ Quiet
    /\ body[w].at = "sending"
    /\ MaybeHeard(w)
    /\ GoTo(w, "closing")
    /\ UNCHANGED <<vars, session, handler, payload, future, opened, recoveries, crashed>>

\* Slip: the finally block is lost.
EndJobKeepsLock(w) ==
    /\ Quiet
    /\ body[w].at = "closing"
    /\ GoTo(w, "returning")
    /\ UNCHANGED <<vars, session, handler, payload, future, opened, recoveries, crashed, heard>>

\* The last message of the job is sent (or fails): the finally block.
EndJob(w) ==
    /\ Quiet
    /\ body[w].at = "closing"
    /\ GoTo(w, "returning")
    /\ session' = FinishedIfSession(User(w), body[w].sid)
    /\ UNCHANGED <<vars, handler, payload, future, opened, recoveries, crashed, heard>>

\* Slip: an error of the prefetch job does not reach its future.
PrefetchSwallowsError(w) ==
    /\ Quiet
    /\ body[w].at = "prefetching"
    /\ GoTo(w, "returning")
    /\ \E result \in {"ready", "empty", "pending"} : future' = [future EXCEPT ![job[w].id] = result]
    /\ UNCHANGED <<vars, session, handler, payload, opened, recoveries, crashed, heard>>

\* The prefetch job resolves its future and returns.
Prefetch(w) ==
    /\ Quiet
    /\ body[w].at = "prefetching"
    /\ GoTo(w, "returning")
    /\ \E result \in {"ready", "empty", "failed"} : future' = [future EXCEPT ![job[w].id] = result]
    /\ UNCHANGED <<vars, session, handler, payload, opened, recoveries, crashed, heard>>

JobStep(w) ==
    \/ Leave(w) \/ ReadSettings(w) \/ Generate(w) \/ AwaitPrefetch(w)
    \/ Advance(w) \/ SendVoice(w) \/ SendRaises(w) \/ EndJob(w) \/ Prefetch(w)

HandlerStep(h) ==
    \/ AbandonOpen(h) \/ Create(h) \/ SendChunk(h) \/ EnqueueChunk(h) \/ GiveUp(h)
    \/ HandlerRaises(h) \/ ReleaseLock(h)

PipelineNext ==
    \/ \E u \in Users : RecoverStale(u) \/ Stop(u)
    \/ \E h \in Handlers, u \in Users : Open(h, u) \/ PressNext(h, u)
    \/ \E h \in Handlers : HandlerStep(h)
    \/ \E w \in Workers : WorkerTurn(w) \/ JobStep(w)

PipelineSpec == PipelineInit /\ [][PipelineNext]_allVars

\* The event loop runs every task that can run.  TTS, SQLite and Telegram calls
\* return or raise (they have timeouts); users need not press anything.
PipelineFairSpec ==
    /\ PipelineSpec
    /\ \A w \in Workers : WF_allVars(WorkerTurn(w) \/ JobStep(w))
    /\ \A h \in Handlers : WF_allVars(HandlerStep(h))
------------------------------------------------------------------------------
\* Properties.

\* A user hears the parts of a session in order, and no part from two jobs, although two
\* "next" requests, stale locks and the background prefetch can have several jobs of one
\* session queued at once.  A part comes again only from the tries of one send, in a row.
PartsInOrder ==
    \A s \in DOMAIN heard : \A i, k \in DOMAIN heard[s] :
        i < k => heard[s][i].part < heard[s][k].part

\* The files a prefetch job made are given to one send: sending removes them, so a second
\* send_chunk job given the same future would have nothing to send.
PrefetchUsedOnce ==
    \A s, t \in DOMAIN heard : \A i \in DOMAIN heard[s], k \in DOMAIN heard[t] :
        (/\ heard[s][i].audio.prefetch # 0
         /\ heard[s][i].audio.prefetch = heard[t][k].audio.prefetch) => s = t /\ i = k

\* Audio prefetched for the session it is sent in belongs to the part it is sent as:
\* send_audio_chunk_now does not compare them, the life of prefetch_task has to.
PrefetchFitsPart ==
    \A s \in DOMAIN heard : \A i \in DOMAIN heard[s] :
        heard[s][i].audio.sid = s => heard[s][i].audio.part = heard[s][i].part

IsBusyHandler(h, u) ==
    /\ handler[h].user = u
    /\ handler[h].at \in {"announcing", "answering", "enqueuing", "giving_up", "apologising"}

IsChunkJobOf(j, u) ==
    /\ j.user = u /\ j.priority = "user_visible"
    /\ payload[j.id].sid = session[u].sid

\* No generation lock is left behind: while a session is locked some handler of its
\* user or some job of the session is still to release it, unless one of them raised
\* outside the code that catches errors (the stale-lock recovery is for those).
LockHasHolder ==
    \A u \in Users : session[u].is_generating =>
        \/ \E h \in Handlers : IsBusyHandler(h, u)
        \/ \E j \in WaitingJobs \cup RunningJobs : IsChunkJobOf(j, u)
        \/ session[u].sid \in crashed

\* Each part is the audio of that part of that session (README.md:189, the prefetch is
\* "of the next part").
OwnAudio ==
    \A s \in DOMAIN heard : \A i \in DOMAIN heard[s] :
        heard[s][i].audio.sid = s /\ heard[s][i].audio.part = heard[s][i].part

\* A user-visible job that waits in the queue runs at last
\* (test_memory_audio_queue_serializes_same_user_without_starving_others).
ChunkJobsServed ==
    \A n \in 1..MaxJobs :
        (\E j \in WaitingJobs : j.id = n /\ j.priority = "user_visible")
        ~> (\A j \in WaitingJobs : j.id # n)

\* Every send_chunk job ends, also the one that waits for the prefetch of its part.
ChunkJobsEnd ==
    \A w \in Workers : body[w].at = "awaiting" ~> body[w].at # "awaiting"
=============================================================================
