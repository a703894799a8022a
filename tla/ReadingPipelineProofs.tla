------------------------ MODULE ReadingPipelineProofs ------------------------
(***************************************************************************)
(* Theorems about the reading pipeline for any users, workers, handlers,   *)
(* parts, sessions and capacity.                                           *)
(*                                                                         *)
(* Four invariants build on one another: PipelineInv ties the records of   *)
(* sessions, handlers and jobs to the queue; ReadingInv says who alone may *)
(* send the parts of a session; PrefetchInv says who alone holds what a    *)
(* prefetch job makes; HolderInv says who still has to release a           *)
(* generation lock.                                                        *)
(***************************************************************************)
EXTENDS ReadingPipeline, MemoryAudioQueueProofs
------------------------------------------------------------------------------
\* Types, and what the records of the pipeline owe to the queue.

\* What MemoryAudioQueueProofs shows of the queue, as one invariant.
QueueInv == TypeOK /\ OneJobPerUser /\ Apart

Sessions == [sid : Sids, index : 0..Parts, is_generating : BOOLEAN, prefetch_task : 0..MaxJobs]
Places == {"idle", "opening", "announcing", "answering", "enqueuing", "giving_up", "apologising"}
HandlerRecords == [at : Places, user : Users \cup {0}, sid : Sids,
                   origin : {"none", "message", "catalog", "next"}]
Stages == {"none", "leaving", "settings", "generating", "awaiting", "resolved",
           "sending", "closing", "prefetching", "returning"}
Bodies == [at : Stages, sid : Sids, part : 0..Parts, task : 0..MaxJobs, audio : Audio]
Loads == [sid : Sids, part : 0..Parts]

\* A send_chunk job that may still send the part it was started for.
Sends(w) == body[w].at \in {"settings", "generating", "awaiting", "resolved", "sending"}

SessionsFit == session \in [Users -> Sessions] /\ \A u \in Users : session[u].prefetch_task < next_id

HandlersFit ==
    /\ handler \in [Handlers -> HandlerRecords]
    /\ \A h \in Handlers : handler[h].at # "idle" => handler[h].user \in Users

BodiesFit ==
    /\ body \in [Workers -> Bodies]
    /\ \A w \in Workers :
          /\ body[w].at = "none" <=> job[w] = NoJob
          /\ body[w].task < next_id
          /\ Sends(w) => body[w].part < Parts
          /\ body[w].at = "awaiting" => body[w].task # 0

LoadsFit == payload \in Seq(Loads) /\ Len(payload) + 1 = next_id

Voices == [part : 0..Parts, audio : Audio, times : 1..SendAttempts]
Voice(w, k) == [part |-> body[w].part, audio |-> body[w].audio, times |-> k]

RestFits ==
    /\ future \in [1..MaxJobs -> {"pending", "ready", "empty", "failed"}]
    /\ opened \in Sids
    /\ recoveries \in 0..MaxRecoveries
    /\ crashed \subseteq Sids
    /\ heard \in [1..MaxSessions -> Seq(Voices)]

Fits == SessionsFit /\ HandlersFit /\ BodiesFit /\ LoadsFit /\ RestFits

PipelineInv == QueueInv /\ Fits

\* The types are part of it.
LEMMA FitsTyped == TypeOK /\ Fits => PipelineTypeOK
BY DEF Fits, SessionsFit, HandlersFit, BodiesFit, LoadsFit, RestFits, PipelineTypeOK, Sessions,
       HandlerRecords, Places, Bodies, Stages, Loads, Voices

\* A step of the queue keeps its invariants.
LEMMA QueueInvStep == QueueInv /\ [Next]_vars => QueueInv'
BY TypeStep, OneJobPerUserStep, ApartStep DEF QueueInv

\* The ids and the constants are numbers.
LEMMA Numbers ==
    ASSUME QueueInv
    PROVE  /\ MaxJobs \in Nat /\ Parts \in Nat \ {0} /\ MaxSessions \in Nat /\ MaxRecoveries \in Nat
           /\ next_id \in 1..(MaxJobs + 1) /\ 0 \in Sids /\ Sids \subseteq Nat
BY QueueAssumption, PipelineAssumption DEF QueueInv, TypeOK, Sids

\* The records that stand for nothing are records.
LEMMA NothingTyped ==
    ASSUME QueueInv
    PROVE  /\ NoSession \in Sessions /\ IdleHandler \in HandlerRecords
           /\ NoAudio \in Audio /\ NoBody \in Bodies
<1>1. 0 \in Sids /\ 0 \in 0..Parts /\ 0 \in 0..MaxJobs
  BY Numbers
<1>2. NoAudio \in Audio
  BY <1>1 DEF NoAudio, Audio
<1>3. NoSession \in Sessions
  BY <1>1 DEF NoSession, Sessions
<1>4. IdleHandler \in HandlerRecords
  BY <1>1 DEF IdleHandler, HandlerRecords, Places
<1>5. NoBody \in Bodies
  BY <1>1, <1>2 DEF NoBody, Bodies, Stages
<1> QED
  BY <1>2, <1>3, <1>4, <1>5

\* The jobs of the workers are jobs of the model, with a payload.
LEMMA RunningJobFits ==
    ASSUME QueueInv, NEW w \in Workers, job[w] # NoJob
    PROVE  job[w] \in Job /\ job[w].user \in Users /\ job[w].id \in 1..MaxJobs
           /\ job[w].id < next_id /\ w \in Running
<1>1. job[w] \in Job /\ w \in Running
  BY DEF QueueInv, TypeOK, Running
<1>2. job[w].id < next_id
  BY <1>1 DEF QueueInv, Apart, RunningJobs
<1> QED
  BY <1>1, <1>2 DEF Job

\* Writing a session of the right type keeps the sessions' types.
LEMMA WrittenFits ==
    ASSUME SessionsFit, NEW u \in Users, NEW s \in Sessions, s.prefetch_task < next_id
    PROVE  LET written == [session EXCEPT ![u] = s]
           IN  /\ written \in [Users -> Sessions]
               /\ \A v \in Users : written[v].prefetch_task < next_id
BY DEF SessionsFit

\* So do the operations of the memory session repository.
LEMMA RepositoryFits ==
    ASSUME QueueInv, SessionsFit, NEW u \in Users,
           \/ session' = session
           \/ session' = CleanedUp(u)
           \/ session' = GenerationFinished(u)
           \/ \E sid : session' = FinishedIfSession(u, sid)
           \/ session' = [session EXCEPT ![u].is_generating = TRUE],
           next_id' = next_id
    PROVE  SessionsFit'
<1>1. NoSession \in Sessions /\ NoSession.prefetch_task < next_id
  BY NothingTyped, Numbers DEF NoSession
<1>2. session[u] \in Sessions /\ session[u].prefetch_task < next_id
  BY DEF SessionsFit
<1>3. \A b \in BOOLEAN : LET s == [session[u] EXCEPT !.is_generating = b]
                         IN  s \in Sessions /\ s.prefetch_task < next_id
  BY <1>2 DEF Sessions
<1>4. \/ session' = session
      \/ session' = [session EXCEPT ![u] = NoSession]
      \/ session' = [session EXCEPT ![u] = [session[u] EXCEPT !.is_generating = FALSE]]
      \/ session' = [session EXCEPT ![u] = [session[u] EXCEPT !.is_generating = TRUE]]
  BY DEF CleanedUp, GenerationFinished, FinishedIfSession, Updated
<1> QED
  BY <1>1, <1>2, <1>3, <1>4, WrittenFits DEF SessionsFit

\* Steps that change only the handlers and the sessions, or only a body, are no step of
\* the queue.
LEMMA QuietKeepsQueue ==
    ASSUME QueueInv, UNCHANGED vars
    PROVE  QueueInv' /\ next_id' = next_id /\ job' = job /\ [Next]_vars
<1>1. [Next]_vars
  OBVIOUS
<1>2. QueueInv'
  BY <1>1, QueueInvStep
<1> QED
  BY <1>1, <1>2 DEF vars, workerVars

\* Accepting a job gives it the next id and a payload.
LEMMA AcceptFits ==
    ASSUME QueueInv, LoadsFit, NEW u \in Users, NEW p \in Priorities, NEW load \in Loads,
           Accept(u, p, load)
    PROVE  /\ QueueInv' /\ [Next]_vars
           /\ next_id' = next_id + 1 /\ next_id \in 1..MaxJobs /\ job' = job /\ Running' = Running
           /\ LoadsFit'
           /\ \A n \in 1..(next_id - 1) : payload'[n] = payload[n]
<1>1. Enqueue(u, p) /\ payload' = Append(payload, load)
  BY DEF Accept
<1>2. [Next]_vars
  BY <1>1 DEF Next
<1>3. QueueInv'
  BY <1>2, QueueInvStep
<1>4. next_id' = next_id + 1 /\ next_id \in 1..MaxJobs /\ job' = job
  BY <1>1, Numbers DEF Enqueue
<1>5. Running' = Running
  <2>1. \A w \in Workers : WokenWorker(w) = "running" <=> pc[w] = "running"
    BY DEF QueueInv, TypeOK, WokenWorker, WorkerStates
  <2> QED
    BY <1>1, <2>1 DEF Enqueue, Running
<1>6. payload \in Seq(Loads) /\ Len(payload) = next_id - 1 /\ Len(payload) \in Nat
  BY LenProperties, Numbers DEF LoadsFit
<1>7. /\ payload' \in Seq(Loads) /\ Len(payload') = Len(payload) + 1
      /\ \A n \in 1..Len(payload) : payload'[n] = payload[n]
  BY <1>1, <1>6, AppendProperties
<1>8. LoadsFit'
  BY <1>4, <1>6, <1>7 DEF LoadsFit
<1> QED
  BY <1>2, <1>3, <1>4, <1>5, <1>6, <1>7, <1>8

\* Later ids do not disturb the records.
LEMMA SessionsStillFit ==
    ASSUME QueueInv, SessionsFit, session' = session, next_id' \in {next_id, next_id + 1}
    PROVE  SessionsFit'
<1>1. \A u \in Users : session[u].prefetch_task \in Nat
  BY Numbers DEF SessionsFit, Sessions
<1> QED
  BY <1>1, Numbers DEF SessionsFit

\* Nor the bodies.
LEMMA BodiesStillFit ==
    ASSUME QueueInv, BodiesFit, body' = body, job' = job, next_id' \in {next_id, next_id + 1}
    PROVE  BodiesFit'
<1>1. \A w \in Workers : body[w].task \in Nat
  BY Numbers DEF BodiesFit, Bodies
<1> QED
  BY <1>1, Numbers DEF BodiesFit, Sends

\* Nor what neither sessions nor jobs use.
LEMMA RestStillFits ==
    ASSUME RestFits, UNCHANGED <<future, opened, recoveries, crashed, heard>>
    PROVE  RestFits'
BY DEF RestFits

\* Every change of a handler's record.
LEMMA HandlerFits ==
    ASSUME QueueInv, HandlersFit, NEW h \in Handlers,
           \/ handler' = handler
           \/ handler' = [handler EXCEPT ![h] = IdleHandler]
           \/ \E a \in Places \ {"idle"} :
                 /\ handler' = [handler EXCEPT ![h].at = a]
                 /\ handler[h].at # "idle"
           \/ \E r \in HandlerRecords :
                 /\ handler' = [handler EXCEPT ![h] = r]
                 /\ r.user \in Users
    PROVE  HandlersFit'
<1>1. CASE handler' = handler
  BY <1>1 DEF HandlersFit
<1>2. CASE handler' = [handler EXCEPT ![h] = IdleHandler]
  BY <1>2, NothingTyped DEF HandlersFit, IdleHandler
<1>3. ASSUME NEW a \in Places \ {"idle"}, handler' = [handler EXCEPT ![h].at = a],
             handler[h].at # "idle"
      PROVE  HandlersFit'
  <2>1. [handler[h] EXCEPT !.at = a] \in HandlerRecords
    BY DEF HandlersFit, HandlerRecords
  <2>2. [handler[h] EXCEPT !.at = a].user \in Users
    BY <1>3 DEF HandlersFit, HandlerRecords
  <2> QED
    BY <1>3, <2>1, <2>2 DEF HandlersFit
<1>4. ASSUME NEW r \in HandlerRecords, handler' = [handler EXCEPT ![h] = r], r.user \in Users
      PROVE  HandlersFit'
  BY <1>4 DEF HandlersFit
<1> QED
  BY <1>1, <1>2, <1>3, <1>4

\* Steps of a handler inside the memory of the process.
HandlerOnly(h) ==
    /\ UNCHANGED <<vars, body, payload, future, heard>>
    /\ HandlersFit'
    /\ SessionsFit'
    /\ opened' \in Sids /\ recoveries' \in 0..MaxRecoveries /\ crashed' \subseteq Sids

\* Steps of a handler, or of the user, that leave queue, jobs and payloads alone.
LEMMA HandlerOnlyFits ==
    ASSUME PipelineInv, NEW h, HandlerOnly(h)
    PROVE  PipelineInv' /\ [Next]_vars
<1>1. QueueInv' /\ next_id' = next_id /\ job' = job /\ [Next]_vars
  BY QuietKeepsQueue DEF PipelineInv, HandlerOnly
<1>2. BodiesFit'
  BY <1>1, BodiesStillFit DEF HandlerOnly, PipelineInv, Fits
<1>3. LoadsFit' /\ RestFits'
  BY <1>1 DEF HandlerOnly, PipelineInv, Fits, LoadsFit, RestFits
<1> QED
  BY <1>1, <1>2, <1>3 DEF HandlerOnly, PipelineInv, Fits

\* The steps of the users and of the handlers that stay inside the process.
LEMMA UserFits ==
    ASSUME PipelineInv, NEW u \in Users, RecoverStale(u) \/ Stop(u)
    PROVE  PipelineInv' /\ [Next]_vars
<1>1. next_id' = next_id /\ QueueInv /\ SessionsFit /\ HandlersFit /\ RestFits
  BY DEF PipelineInv, Fits, RecoverStale, Stop, vars
<1>2. SessionsFit'
  BY <1>1, RepositoryFits DEF RecoverStale, Stop
<1>3. HandlersFit'
  BY <1>1 DEF RecoverStale, Stop, HandlersFit
<1>4. opened' \in Sids /\ recoveries' \in 0..MaxRecoveries /\ crashed' \subseteq Sids
  BY <1>1, Numbers DEF RecoverStale, Stop, RestFits
<1>5. HandlerOnly(0)
  BY <1>2, <1>3, <1>4 DEF HandlerOnly, RecoverStale, Stop
<1> QED
  BY <1>5, HandlerOnlyFits

\* A handler that opens a document or presses "next" starts with a record.
LEMMA BeginsFits ==
    ASSUME PipelineInv, NEW h \in Handlers, NEW u \in Users, Open(h, u) \/ PressNext(h, u)
    PROVE  PipelineInv' /\ [Next]_vars
<1>1. next_id' = next_id /\ QueueInv /\ SessionsFit /\ HandlersFit /\ RestFits
  BY DEF PipelineInv, Fits, Open, PressNext, vars
<1>2. SessionsFit'
  BY <1>1, RepositoryFits DEF Open, PressNext
<1>3. CASE Open(h, u)
  <2>1. opened + 1 \in Sids
    BY <1>1, <1>3, Numbers DEF Open, Sids, RestFits
  <2>2. PICK origin \in {"message", "catalog"} :
           handler' = [handler EXCEPT ![h] =
                [at |-> "opening", user |-> u, sid |-> opened + 1, origin |-> origin]]
    BY <1>3 DEF Open
  <2>3. [at |-> "opening", user |-> u, sid |-> opened + 1, origin |-> origin] \in HandlerRecords
    BY <2>1 DEF HandlerRecords, Places
  <2>4. HandlersFit'
    BY <1>1, <2>2, <2>3, HandlerFits
  <2>5. opened' \in Sids /\ recoveries' \in 0..MaxRecoveries /\ crashed' \subseteq Sids
    BY <1>1, <1>3, <2>1 DEF Open, RestFits
  <2>6. HandlerOnly(h)
    BY <1>2, <1>3, <2>4, <2>5 DEF HandlerOnly, Open
  <2> QED
    BY <2>6, HandlerOnlyFits
<1>4. CASE PressNext(h, u)
  <2> DEFINE r == [at |-> "answering", user |-> u, sid |-> session[u].sid, origin |-> "next"]
  <2>1. r \in HandlerRecords /\ r.user \in Users
    BY <1>1 DEF HandlerRecords, Places, SessionsFit, Sessions
  <2>2. handler' = [handler EXCEPT ![h] = r]
    BY <1>4 DEF PressNext
  <2> HIDE DEF r
  <2>3. HandlersFit'
    BY <1>1, <2>1, <2>2, HandlerFits
  <2>4. HandlerOnly(h)
    BY <1>1, <1>2, <1>4, <2>3 DEF HandlerOnly, PressNext, RestFits
  <2> QED
    BY <2>4, HandlerOnlyFits
<1> QED
  BY <1>3, <1>4

\* A handler at work has a user and a session id.
LEMMA HandlerUser ==
    ASSUME PipelineInv, NEW h \in Handlers, handler[h].at # "idle"
    PROVE  handler[h].user \in Users /\ handler[h].sid \in Sids /\ handler[h] \in HandlerRecords
BY DEF PipelineInv, Fits, HandlersFit, HandlerRecords

\* The handler ends, or goes on to apologise.
LEMMA ExcuseFits ==
    ASSUME PipelineInv, NEW h \in Handlers, handler[h].at # "idle", handler' \in Excuse(h)
    PROVE  HandlersFit'
<1>1. \/ handler' = [handler EXCEPT ![h] = IdleHandler]
      \/ handler' = [handler EXCEPT ![h].at = "apologising"]
  BY DEF Excuse
<1> QED
  BY <1>1, HandlerFits DEF PipelineInv, Fits, Places

\* A new session is a session.
LEMMA CreateFits ==
    ASSUME PipelineInv, NEW h \in Handlers, Create(h)
    PROVE  PipelineInv' /\ [Next]_vars
<1> DEFINE u == handler[h].user
           s == [NoSession EXCEPT !.sid = handler[h].sid, !.is_generating = TRUE]
<1>1. QueueInv /\ SessionsFit /\ HandlersFit /\ RestFits
  BY DEF PipelineInv, Fits
<1>2. u \in Users /\ handler[h].sid \in Sids
  BY HandlerUser DEF Create
<1>3. s \in Sessions /\ s.prefetch_task < next_id
  <2>1. \A t \in Sessions, x \in Sids, b \in BOOLEAN :
           LET r == [t EXCEPT !.sid = x, !.is_generating = b]
           IN  r \in Sessions /\ r.prefetch_task = t.prefetch_task
    BY DEF Sessions
  <2>2. NoSession \in Sessions /\ NoSession.prefetch_task < next_id
    BY <1>1, NothingTyped, Numbers DEF NoSession
  <2> QED
    BY <1>2, <2>1, <2>2
<1>4. session' = [session EXCEPT ![u] = s] /\ UNCHANGED <<opened, recoveries, crashed, next_id>>
  BY DEF Create, vars
<1>5. SessionsFit'
  <2> HIDE DEF s, u
  <2> QED
    BY <1>1, <1>2, <1>3, <1>4, WrittenFits DEF SessionsFit
<1>6. HandlersFit'
  <2>1. handler' = [handler EXCEPT ![h].at = "announcing"] /\ handler[h].at # "idle"
    BY DEF Create
  <2>2. "announcing" \in Places \ {"idle"}
    BY DEF Places
  <2> HIDE DEF s, u
  <2> QED
    BY <1>1, <2>1, <2>2, HandlerFits
<1>7. HandlerOnly(h)
  BY <1>1, <1>4, <1>5, <1>6 DEF HandlerOnly, Create, RestFits
<1> QED
  BY <1>7, HandlerOnlyFits

\* Asking for the next part takes the lock, or ends with an apology.
LEMMA SendChunkFits ==
    ASSUME PipelineInv, NEW h \in Handlers, SendChunk(h)
    PROVE  PipelineInv' /\ [Next]_vars
<1> DEFINE u == handler[h].user
<1>1. QueueInv /\ SessionsFit /\ HandlersFit /\ RestFits /\ handler[h].at # "idle"
  BY DEF PipelineInv, Fits, SendChunk
<1>2. u \in Users /\ handler[h] \in HandlerRecords
  BY <1>1, HandlerUser
<1>3. next_id' = next_id
  BY DEF SendChunk, vars
<1>4. SessionsFit'
  BY <1>1, <1>2, <1>3, RepositoryFits DEF SendChunk
<1>5. HandlersFit'
  <2>1. CASE handler' \in Excuse(h)
    BY <1>1, <2>1, ExcuseFits
  <2>2. CASE handler' = [handler EXCEPT ![h].at = "enqueuing", ![h].sid = session[u].sid]
    <3> DEFINE r == [handler[h] EXCEPT !.at = "enqueuing", !.sid = session[u].sid]
    <3>1. r \in HandlerRecords /\ r.user \in Users
      BY <1>1, <1>2 DEF HandlerRecords, Places, SessionsFit, Sessions
    <3>2. handler' = [handler EXCEPT ![h] = r]
      BY <1>1, <2>2 DEF HandlersFit
    <3> HIDE DEF r
    <3> QED
      BY <1>1, <3>1, <3>2, HandlerFits
  <2> QED
    BY <2>1, <2>2 DEF SendChunk
<1>6. HandlerOnly(h)
  BY <1>1, <1>4, <1>5 DEF HandlerOnly, SendChunk, RestFits
<1> QED
  BY <1>6, HandlerOnlyFits

\* The ways a handler ends.
LEMMA HandlerEndsFits ==
    ASSUME PipelineInv, NEW h \in Handlers,
           AbandonOpen(h) \/ GiveUp(h) \/ HandlerRaises(h) \/ ReleaseLock(h)
    PROVE  PipelineInv' /\ [Next]_vars
<1>1. /\ QueueInv /\ SessionsFit /\ HandlersFit /\ RestFits /\ handler[h].at # "idle"
      /\ next_id' = next_id
  BY DEF PipelineInv, Fits, AbandonOpen, GiveUp, HandlerRaises, ReleaseLock, vars
<1>2. handler[h].user \in Users /\ handler[h].sid \in Sids
  BY <1>1, HandlerUser
<1>3. SessionsFit'
  BY <1>1, <1>2, RepositoryFits DEF AbandonOpen, GiveUp, HandlerRaises, ReleaseLock
<1>4. HandlersFit'
  <2>1. CASE handler' = [handler EXCEPT ![h] = IdleHandler]
    BY <1>1, <2>1, HandlerFits
  <2>2. CASE handler' = [handler EXCEPT ![h].at = "apologising"]
    BY <1>1, <2>2, HandlerFits DEF Places
  <2>3. CASE GiveUp(h)
    BY <1>1, <2>3, ExcuseFits DEF GiveUp
  <2> QED
    BY <2>1, <2>2, <2>3 DEF AbandonOpen, HandlerRaises, ReleaseLock
<1>5. opened' \in Sids /\ recoveries' \in 0..MaxRecoveries /\ crashed' \subseteq Sids
  BY <1>1, <1>2 DEF AbandonOpen, GiveUp, HandlerRaises, ReleaseLock, RestFits
<1>6. HandlerOnly(h)
  BY <1>3, <1>4, <1>5 DEF HandlerOnly, AbandonOpen, GiveUp, HandlerRaises, ReleaseLock
<1> QED
  BY <1>6, HandlerOnlyFits

\* The send_chunk job is accepted with its payload, or refused.
LEMMA EnqueueChunkFits ==
    ASSUME PipelineInv, NEW h \in Handlers, EnqueueChunk(h)
    PROVE  PipelineInv' /\ [Next]_vars
<1>1. QueueInv /\ SessionsFit /\ HandlersFit /\ BodiesFit /\ LoadsFit /\ RestFits
  BY DEF PipelineInv, Fits
<1>2. handler[h].at # "idle" /\ handler[h].user \in Users /\ handler[h].sid \in Sids
  BY HandlerUser DEF EnqueueChunk
<1>3. CASE Accept(handler[h].user, "user_visible", [sid |-> handler[h].sid, part |-> 0])
           /\ handler' = [handler EXCEPT ![h] = IdleHandler]
  <2>1. [sid |-> handler[h].sid, part |-> 0] \in Loads
    BY <1>1, <1>2, Numbers DEF Loads
  <2>2. "user_visible" \in Priorities
    BY DEF Priorities
  <2>3. QueueInv' /\ [Next]_vars /\ next_id' = next_id + 1 /\ job' = job /\ LoadsFit'
    BY <1>1, <1>2, <1>3, <2>1, <2>2, AcceptFits
  <2>4. UNCHANGED <<session, body, future, opened, recoveries, crashed, heard>>
    BY DEF EnqueueChunk
  <2>5. SessionsFit' /\ BodiesFit' /\ RestFits'
    BY <1>1, <2>3, <2>4, SessionsStillFit, BodiesStillFit, RestStillFits
  <2>6. HandlersFit'
    BY <1>1, <1>3, HandlerFits
  <2> QED
    BY <2>3, <2>5, <2>6 DEF PipelineInv, Fits
<1>4. CASE handler' = [handler EXCEPT ![h].at = "giving_up"] /\ UNCHANGED <<vars, payload>>
  <2>1. HandlersFit'
    BY <1>1, <1>2, <1>4, HandlerFits DEF Places
  <2>2. SessionsFit'
    BY <1>1, <1>4, SessionsStillFit DEF EnqueueChunk, vars
  <2>3. HandlerOnly(h)
    BY <1>1, <1>4, <2>1, <2>2 DEF HandlerOnly, EnqueueChunk, RestFits
  <2> QED
    BY <2>3, HandlerOnlyFits
<1> QED
  BY <1>3, <1>4 DEF EnqueueChunk

\* Every change of the body of a running job.
LEMMA BodyFits ==
    ASSUME QueueInv, BodiesFit, NEW w \in Workers, body[w].at # "none",
           job' = job, next_id' \in {next_id, next_id + 1},
           NEW b \in Bodies, body' = [body EXCEPT ![w] = b],
           b.at # "none", b.task < next_id,
           b.at \in {"settings", "generating", "awaiting", "resolved", "sending"} => b.part < Parts,
           b.at = "awaiting" => b.task # 0
    PROVE  BodiesFit'
<1>1. \A v \in Workers : body[v].task \in Nat /\ b.task \in Nat
  BY Numbers DEF BodiesFit, Bodies
<1>2. \A v \in Workers : body'[v] = IF v = w THEN b ELSE body[v]
  BY DEF BodiesFit
<1>3. body' \in [Workers -> Bodies]
  BY DEF BodiesFit
<1> QED
  BY <1>1, <1>2, <1>3, Numbers DEF BodiesFit, Sends

\* A job moves on within its stages.
LEMMA GoToFits ==
    ASSUME QueueInv, BodiesFit, NEW w \in Workers, body[w].at # "none",
           job' = job, next_id' \in {next_id, next_id + 1},
           NEW a \in Stages \ {"none"}, GoTo(w, a),
           a \in {"settings", "generating", "awaiting", "resolved", "sending"} => Sends(w),
           a = "awaiting" => body[w].task # 0
    PROVE  BodiesFit'
<1> DEFINE b == [body[w] EXCEPT !.at = a]
<1>1. body[w] \in Bodies /\ body[w].task < next_id
  BY DEF BodiesFit
<1>2. b \in Bodies /\ b.at = a /\ b.part = body[w].part /\ b.task = body[w].task
  BY <1>1 DEF Bodies
<1>3. body' = [body EXCEPT ![w] = b]
  BY DEF GoTo
<1>4. Sends(w) => b.part < Parts
  BY <1>2 DEF BodiesFit
<1> HIDE DEF b
<1> QED
  BY <1>1, <1>2, <1>3, <1>4, BodyFits

\* Steps of a job inside the process.
JobOnly(w) ==
    /\ UNCHANGED <<vars, handler, payload, opened, recoveries>>
    /\ body[w].at # "none"
    /\ BodiesFit' /\ SessionsFit' /\ RestFits'

\* Steps of a job that leave queue, handlers and payloads alone.
LEMMA JobOnlyFits ==
    ASSUME PipelineInv, NEW w, JobOnly(w)
    PROVE  PipelineInv' /\ [Next]_vars
<1>1. QueueInv' /\ next_id' = next_id /\ [Next]_vars
  BY QuietKeepsQueue DEF PipelineInv, JobOnly
<1>2. HandlersFit' /\ LoadsFit'
  BY <1>1 DEF HandlersFit, LoadsFit, JobOnly, PipelineInv, Fits
<1> QED
  BY <1>1, <1>2 DEF JobOnly, PipelineInv, Fits

\* What every step of a job may rely on.
LEMMA JobFacts ==
    ASSUME PipelineInv, NEW w \in Workers, body[w].at # "none"
    PROVE  /\ QueueInv /\ SessionsFit /\ BodiesFit /\ RestFits /\ LoadsFit
           /\ job[w] \in Job /\ User(w) \in Users /\ job[w].id \in 1..MaxJobs
           /\ body[w] \in Bodies /\ body[w].sid \in Sids /\ body[w].part \in 0..Parts
           /\ body[w].task \in 0..MaxJobs /\ body[w].audio \in Audio /\ body[w].task < next_id
           /\ w \in Running
           /\ Sends(w) => body[w].part < Parts
<1>1. QueueInv /\ SessionsFit /\ BodiesFit /\ RestFits /\ LoadsFit /\ job[w] # NoJob
  BY DEF PipelineInv, Fits, BodiesFit
<1>2. job[w] \in Job /\ User(w) \in Users /\ job[w].id \in 1..MaxJobs /\ w \in Running
  BY <1>1, RunningJobFits DEF User
<1>3. body[w] \in Bodies /\ body[w].task < next_id /\ (Sends(w) => body[w].part < Parts)
  BY <1>1 DEF BodiesFit
<1> QED
  BY <1>1, <1>2, <1>3 DEF Bodies, BodiesFit

\* Using the prefetch task forgets it.
LEMMA ForgottenFits ==
    ASSUME QueueInv, SessionsFit, NEW w \in Workers, User(w) \in Users,
           session' = TaskForgotten(w), next_id' = next_id
    PROVE  SessionsFit'
<1> DEFINE u == User(w)
           s == [session[u] EXCEPT !.prefetch_task = 0]
<1>1. \A t \in Sessions : [t EXCEPT !.prefetch_task = 0] \in Sessions
                          /\ [t EXCEPT !.prefetch_task = 0].prefetch_task = 0
  BY Numbers DEF Sessions
<1>2. s \in Sessions /\ s.prefetch_task < next_id
  BY <1>1, Numbers DEF SessionsFit
<1>3. session' = session \/ session' = [session EXCEPT ![u] = s]
  BY DEF TaskForgotten, Updated
<1> HIDE DEF s, u
<1> QED
  BY <1>2, <1>3, WrittenFits DEF SessionsFit, u

\* A job leaves, or reads the settings.
LEMMA LeaveFits ==
    ASSUME PipelineInv, NEW w \in Workers, Leave(w) \/ ReadSettings(w)
    PROVE  PipelineInv' /\ [Next]_vars
<1>1. body[w].at # "none" /\ next_id' = next_id /\ job' = job
  BY DEF Leave, ReadSettings, vars, workerVars
<1>2. BodiesFit'
  <2>1. CASE GoTo(w, "returning")
    BY <1>1, <2>1, JobFacts, GoToFits DEF Stages
  <2>2. CASE GoTo(w, "generating") /\ ReadSettings(w)
    BY <1>1, <2>2, JobFacts, GoToFits DEF Stages, ReadSettings, Sends
  <2>3. CASE GoTo(w, "awaiting") /\ ReadSettings(w) /\ body[w].task # 0
    BY <1>1, <2>3, JobFacts, GoToFits DEF Stages, ReadSettings, Sends
  <2> QED
    BY <2>1, <2>2, <2>3 DEF Leave, ReadSettings
<1>3. SessionsFit' /\ RestFits'
  BY <1>1, JobFacts, SessionsStillFit DEF Leave, ReadSettings, RestFits
<1>4. JobOnly(w)
  BY <1>1, <1>2, <1>3 DEF JobOnly, Leave, ReadSettings
<1> QED
  BY <1>4, JobOnlyFits

\* A job gets its audio and forgets the prefetch task.
LEMMA ResolvedFits ==
    ASSUME QueueInv, BodiesFit, NEW w \in Workers, Sends(w),
           job' = job, next_id' = next_id, NEW audio \in Audio,
           body' = [body EXCEPT ![w].at = "resolved", ![w].audio = audio]
    PROVE  BodiesFit'
<1> DEFINE b == [body[w] EXCEPT !.at = "resolved", !.audio = audio]
<1>1. body[w] \in Bodies /\ body[w].task < next_id /\ body[w].part < Parts /\ body[w].at # "none"
  BY DEF BodiesFit, Sends
<1>2. b \in Bodies /\ b.at = "resolved" /\ b.part = body[w].part /\ b.task = body[w].task
  BY <1>1 DEF Bodies, Stages
<1>3. body' = [body EXCEPT ![w] = b]
  BY DEF BodiesFit
<1> HIDE DEF b
<1> QED
  BY <1>1, <1>2, <1>3, BodyFits

\* The audio is generated, or comes from the prefetch.
LEMMA GenerateFits ==
    ASSUME PipelineInv, NEW w \in Workers, Generate(w) \/ AwaitPrefetch(w)
    PROVE  PipelineInv' /\ [Next]_vars
<1>1. body[w].at # "none" /\ Sends(w) /\ next_id' = next_id /\ job' = job
  BY DEF Generate, AwaitPrefetch, vars, workerVars, Sends
<1>2. /\ QueueInv /\ SessionsFit /\ BodiesFit /\ RestFits /\ LoadsFit /\ User(w) \in Users
      /\ body[w].sid \in Sids /\ body[w].part \in 0..Parts /\ body[w].task < next_id
      /\ body[w].task \in 0..MaxJobs
  BY <1>1, JobFacts
<1>3. NoAudio \in Audio /\ [sid |-> body[w].sid, part |-> body[w].part, prefetch |-> 0] \in Audio
  BY <1>2, NothingTyped, Numbers DEF Audio
<1>4. AwaitPrefetch(w) => [sid |-> payload[body[w].task].sid, part |-> payload[body[w].task].part,
                           prefetch |-> body[w].task] \in Audio
  <2> SUFFICES ASSUME AwaitPrefetch(w)
               PROVE  payload[body[w].task] \in Loads
    BY <1>2 DEF Audio, Loads
  <2>1. body[w].task # 0
    BY <1>2 DEF AwaitPrefetch, BodiesFit
  <2>2. payload \in Seq(Loads) /\ body[w].task \in 1..Len(payload)
    BY <1>2, <2>1, Numbers, LenProperties DEF LoadsFit
  <2> QED
    BY <2>2, ElementOfSeq
<1>5. BodiesFit'
  <2>1. CASE GoTo(w, "closing")
    BY <1>1, <1>2, <2>1, GoToFits DEF Stages
  <2>2. CASE GoTo(w, "generating")
    BY <1>1, <1>2, <2>2, GoToFits DEF Stages
  <2>3. CASE \E audio \in Audio : body' = [body EXCEPT ![w].at = "resolved", ![w].audio = audio]
    BY <1>1, <1>2, <2>3, ResolvedFits
  <2> QED
    BY <1>3, <1>4, <2>1, <2>2, <2>3 DEF Generate, AwaitPrefetch
<1>6. SessionsFit'
  BY <1>1, <1>2, SessionsStillFit, ForgottenFits DEF Generate, AwaitPrefetch
<1>7. RestFits'
  BY <1>2, RestStillFits DEF Generate, AwaitPrefetch
<1>8. JobOnly(w)
  BY <1>1, <1>5, <1>6, <1>7 DEF JobOnly, Generate, AwaitPrefetch
<1> QED
  BY <1>8, JobOnlyFits

\* The index moves on within the parts.
LEMMA AdvanceFits ==
    ASSUME PipelineInv, NEW w \in Workers, Advance(w)
    PROVE  PipelineInv' /\ [Next]_vars
<1> DEFINE u == User(w)
           s == [session[u] EXCEPT !.index = body[w].part + 1]
<1>1. body[w].at # "none" /\ Sends(w) /\ next_id' = next_id /\ job' = job
  BY DEF Advance, vars, workerVars, Sends
<1>2. /\ QueueInv /\ SessionsFit /\ BodiesFit /\ RestFits /\ LoadsFit /\ u \in Users
      /\ body[w].part \in 0..Parts /\ body[w].part < Parts
  BY <1>1, JobFacts
<1>3. BodiesFit'
  BY <1>1, <1>2, GoToFits DEF Stages, Advance
<1>4. body[w].part + 1 \in 0..Parts
  BY <1>2, Numbers
<1>5. s \in Sessions /\ s.prefetch_task < next_id
  BY <1>2, <1>4 DEF SessionsFit, Sessions
<1>6. session' = session \/ session' = [session EXCEPT ![u] = s]
  BY DEF Advance
<1>7. SessionsFit'
  <2> HIDE DEF s, u
  <2> QED
    BY <1>1, <1>2, <1>5, <1>6, WrittenFits DEF SessionsFit
<1>8. RestFits'
  BY <1>2, RestStillFits DEF Advance
<1>9. JobOnly(w)
  BY <1>1, <1>3, <1>7, <1>8 DEF JobOnly, Advance
<1> QED
  BY <1>9, JobOnlyFits

\* The lock is released at the end of a job; a prefetch resolves its future.
LEMMA PrefetchFits ==
    ASSUME PipelineInv, NEW w \in Workers, Prefetch(w) \/ EndJob(w)
    PROVE  PipelineInv' /\ [Next]_vars
<1>1. body[w].at # "none" /\ next_id' = next_id /\ job' = job
  BY DEF Prefetch, EndJob, vars, workerVars
<1>2. /\ QueueInv /\ SessionsFit /\ BodiesFit /\ RestFits /\ LoadsFit /\ User(w) \in Users
      /\ job[w].id \in 1..MaxJobs
  BY <1>1, JobFacts
<1>3. BodiesFit'
  BY <1>1, <1>2, GoToFits DEF Stages, Prefetch, EndJob
<1>4. RestFits'
  BY <1>2 DEF RestFits, Prefetch, EndJob
<1>5. SessionsFit'
  BY <1>1, <1>2, RepositoryFits DEF Prefetch, EndJob
<1>6. JobOnly(w)
  BY <1>1, <1>3, <1>4, <1>5 DEF JobOnly, Prefetch, EndJob
<1> QED
  BY <1>6, JobOnlyFits

\* What the user hears is a part with its audio.
LEMMA HeardFits ==
    ASSUME QueueInv, RestFits, NEW w \in Workers, body[w].part \in 0..Parts, body[w].audio \in Audio,
           MaybeHeard(w), UNCHANGED <<future, opened, recoveries, crashed>>
    PROVE  RestFits'
<1> DEFINE s == body[w].sid
<1>1. \A k \in 1..SendAttempts : Voice(w, k) \in Voices
  BY DEF Voice, Voices
<1>2. heard \in [1..MaxSessions -> Seq(Voices)]
  BY DEF RestFits
<1>3. \/ heard' = heard
      \/ \E k \in 1..SendAttempts : heard' = [heard EXCEPT ![s] = Append(heard[s], Voice(w, k))]
  BY DEF MaybeHeard, Voice
<1> HIDE DEF s
<1>4. heard' \in [1..MaxSessions -> Seq(Voices)]
  <2>1. \A k \in 1..SendAttempts :
           s \in 1..MaxSessions => Append(heard[s], Voice(w, k)) \in Seq(Voices)
    BY <1>1, <1>2, AppendProperties
  <2> QED
    BY <1>2, <1>3, <2>1
<1> QED
  BY <1>4 DEF RestFits

\* Sending the voice may accept the prefetch of the next part.
LEMMA SendFits ==
    ASSUME PipelineInv, NEW w \in Workers, SendVoice(w) \/ SendRaises(w)
    PROVE  PipelineInv' /\ [Next]_vars
<1> DEFINE u == User(w)
           n == body[w].part + 1
           s == [session[u] EXCEPT !.prefetch_task = next_id,
                                   !.is_generating = @ /\ ~IsSame(u, body[w].sid)]
<1>1. body[w].at # "none" /\ Sends(w)
  BY DEF SendVoice, SendRaises, Sends
<1>2. /\ QueueInv /\ SessionsFit /\ BodiesFit /\ RestFits /\ LoadsFit /\ u \in Users
      /\ body[w].part \in 0..Parts /\ body[w].part < Parts /\ body[w].audio \in Audio
      /\ body[w].sid \in Sids
  BY <1>1, JobFacts
<1>3. RestFits'
  BY <1>2, HeardFits DEF SendVoice, SendRaises
<1>4. CASE UNCHANGED <<vars, payload>>
  <2>1. next_id' = next_id /\ job' = job
    BY <1>4 DEF vars, workerVars
  <2>2. CASE GoTo(w, "closing") /\ UNCHANGED session
    <3>1. BodiesFit'
      BY <1>1, <1>2, <2>1, <2>2, GoToFits DEF Stages
    <3>2. SessionsFit'
      BY <1>2, <2>1, <2>2, SessionsStillFit
    <3> QED
      BY <1>1, <1>3, <1>4, <3>1, <3>2, JobOnlyFits DEF JobOnly, SendVoice, SendRaises
  <2>3. CASE GoTo(w, "returning") /\ session' = FinishedIfSession(u, body[w].sid)
    <3>1. BodiesFit'
      BY <1>1, <1>2, <2>1, <2>3, GoToFits DEF Stages
    <3>2. SessionsFit'
      BY <1>2, <2>1, <2>3, RepositoryFits
    <3> QED
      BY <1>1, <1>3, <1>4, <3>1, <3>2, JobOnlyFits DEF JobOnly, SendVoice, SendRaises
  <2>4. ~Accept(u, "prefetch", NextPrefetch(w))
    <3>1. Accept(u, "prefetch", NextPrefetch(w)) => next_id' = next_id + 1
      BY DEF Accept, Enqueue
    <3> QED
      BY <1>2, <2>1, <3>1, Numbers
  <2> QED
    BY <2>2, <2>3, <2>4 DEF SendVoice, SendRaises
<1>5. CASE /\ GoTo(w, "returning") /\ n < Parts
           /\ Accept(u, "prefetch", NextPrefetch(w))
           /\ session' = Updated(u, s)
           /\ UNCHANGED handler
  <2>1. NextPrefetch(w) \in Loads
    <3>1. n \in 0..Parts
      BY <1>2, Numbers
    <3> QED
      BY <1>2, <3>1 DEF NextPrefetch, Loads
  <2>2. "prefetch" \in Priorities
    BY DEF Priorities
  <2>3. /\ QueueInv' /\ [Next]_vars /\ next_id' = next_id + 1 /\ next_id \in 1..MaxJobs
        /\ job' = job /\ LoadsFit'
    BY <1>2, <1>5, <2>1, <2>2, AcceptFits
  <2>4. BodiesFit'
    BY <1>1, <1>2, <1>5, <2>3, GoToFits DEF Stages
  <2>5. s \in Sessions /\ s.prefetch_task = next_id
    <3> DEFINE b == session[u].is_generating /\ ~IsSame(u, body[w].sid)
    <3>1. b \in BOOLEAN /\ session[u] \in Sessions /\ next_id \in 0..MaxJobs
      BY <1>2, <2>3 DEF SessionsFit, Sessions
    <3>2. s = [session[u] EXCEPT !.prefetch_task = next_id, !.is_generating = b]
      OBVIOUS
    <3> HIDE DEF b, s
    <3> QED
      BY <3>1, <3>2 DEF Sessions
  <2>6. SessionsFit'
    <3>1. \A v \in Users : session[v].prefetch_task < next_id /\ session[v].prefetch_task \in Nat
      BY <1>2, Numbers DEF SessionsFit, Sessions
    <3>2. session' = session \/ session' = [session EXCEPT ![u] = s]
      BY <1>5 DEF Updated
    <3>3. session' \in [Users -> Sessions]
      BY <1>2, <2>5, <3>2 DEF SessionsFit
    <3>4. \A v \in Users : session'[v] = session[v] \/ session'[v] = s
      BY <1>2, <3>2 DEF SessionsFit
    <3> HIDE DEF s
    <3> QED
      BY <2>3, <2>5, <3>1, <3>3, <3>4 DEF SessionsFit
  <2>7. HandlersFit'
    BY <1>5 DEF HandlersFit, PipelineInv, Fits
  <2> QED
    BY <1>3, <2>3, <2>4, <2>6, <2>7 DEF PipelineInv, Fits
<1> QED
  BY <1>4, <1>5 DEF SendVoice, SendRaises

\* A turn of a worker changes its own job and no other.
LEMMA TurnJob ==
    ASSUME QueueInv, NEW w \in Workers, Turn(w)
    PROVE  /\ QueueInv' /\ [Next]_vars /\ next_id' = next_id
           /\ job' \in [Workers -> Job \cup {NoJob}]
           /\ \A v \in Workers \ {w} : job'[v] = job[v]
<1>1. [Next]_vars
  BY DEF Next
<1>2. QueueInv'
  BY <1>1, QueueInvStep
<1>3. Picks(w) /\ next_id' = next_id
  BY TurnCases DEF QueueInv
<1>4. \/ \E j : Run(w, j, LeftBy(w))
      \/ \E s \in {"waiting", "asleep_visible", "asleep_prefetch"} : Suspend(w, s, LeftBy(w))
  BY <1>3 DEF Picks, RunsDeferred, RunsQueued, Defers, Waits
<1>5. \E j : job' = [job EXCEPT ![w] = j]
  BY <1>4 DEF Run, Suspend
<1> QED
  BY <1>1, <1>2, <1>3, <1>5 DEF QueueInv, TypeOK

\* The job that a worker has after its turn.
LEMMA NextJobFits ==
    ASSUME QueueInv', LoadsFit, next_id' = next_id, NEW w \in Workers, job'[w] # NoJob
    PROVE  /\ job'[w] \in Job /\ job'[w].user \in Users /\ job'[w].id \in DOMAIN payload
           /\ payload[job'[w].id] \in Loads
<1>1. job'[w] \in Job /\ w \in Running'
  BY DEF QueueInv, TypeOK, Running
<1>2. job'[w].id < next_id /\ job'[w].id \in 1..MaxJobs /\ job'[w].user \in Users
  BY <1>1 DEF QueueInv, Apart, RunningJobs, Job
<1>3. payload \in Seq(Loads) /\ Len(payload) + 1 = next_id /\ Len(payload) \in Nat
      /\ DOMAIN payload = 1..Len(payload)
  BY LenProperties DEF LoadsFit
<1>4. MaxJobs \in Nat
  BY QueueAssumption
<1>5. job'[w].id \in DOMAIN payload
  BY <1>2, <1>3, <1>4
<1>6. payload[job'[w].id] \in Loads
  BY <1>3, <1>5, ElementOfSeq
<1> QED
  BY <1>1, <1>2, <1>5, <1>6

\* What a job begins with.
LEMMA StartFits ==
    ASSUME QueueInv, SessionsFit, NEW j \in Job, payload[j.id] \in Loads
    PROVE  /\ StartOf(j) \in Bodies /\ StartOf(j).at # "none" /\ StartOf(j).task < next_id
           /\ StartOf(j).at # "awaiting"
           /\ StartOf(j).at \in {"settings", "generating", "resolved", "sending"}
                => /\ StartOf(j).at = "settings"
                   /\ IsSame(j.user, payload[j.id].sid)
                   /\ StartOf(j).sid = session[j.user].sid
                   /\ StartOf(j).part = session[j.user].index
                   /\ StartOf(j).part < Parts
                   /\ StartOf(j).task = session[j.user].prefetch_task
<1>0. j # NoJob /\ j.user \in Users /\ j.priority \in Priorities
  BY QueueAssumption DEF Job
<1> DEFINE q == [NoBody EXCEPT !.at = "prefetching", !.sid = payload[j.id].sid,
                               !.part = payload[j.id].part]
           l == [NoBody EXCEPT !.at = "leaving"]
           s == [NoBody EXCEPT !.at = "settings", !.sid = session[j.user].sid,
                               !.part = session[j.user].index,
                               !.task = session[j.user].prefetch_task]
<1>1. NoBody \in Bodies /\ NoBody.task = 0 /\ 0 < next_id
  BY NothingTyped, Numbers DEF NoBody
<1> DEFINE At(b, a, x, p) == [b EXCEPT !.at = a, !.sid = x, !.part = p]
           With(b, n) == [b EXCEPT !.task = n]
<1>2. \A b \in Bodies, a \in Stages, x \in Sids, p \in 0..Parts :
         /\ At(b, a, x, p) \in Bodies /\ At(b, a, x, p).at = a
         /\ At(b, a, x, p).sid = x /\ At(b, a, x, p).part = p
         /\ At(b, a, x, p).task = b.task
  BY DEF Bodies
<1>3. \A b \in Bodies, a \in Stages :
         LET r == [b EXCEPT !.at = a] IN r \in Bodies /\ r.at = a /\ r.task = b.task
  BY DEF Bodies
<1>4. \A b \in Bodies, n \in 0..MaxJobs :
         /\ With(b, n) \in Bodies /\ With(b, n).at = b.at /\ With(b, n).sid = b.sid
         /\ With(b, n).part = b.part /\ With(b, n).task = n
  BY DEF Bodies
<1>5. /\ q = At(NoBody, "prefetching", payload[j.id].sid, payload[j.id].part)
      /\ s = With(At(NoBody, "settings", session[j.user].sid, session[j.user].index),
                  session[j.user].prefetch_task)
  OBVIOUS
<1>6. l \in Bodies /\ l.at = "leaving" /\ l.task < next_id
  BY <1>1, <1>3 DEF Stages
<1> HIDE DEF At, With, q, l, s
<1>7. session[j.user] \in Sessions /\ session[j.user].prefetch_task < next_id
  BY <1>0 DEF SessionsFit
<1>8. q \in Bodies /\ q.at = "prefetching" /\ q.task < next_id
  <2>1. "prefetching" \in Stages
    BY DEF Stages
  <2>2. payload[j.id].sid \in Sids /\ payload[j.id].part \in 0..Parts
    BY DEF Loads
  <2> QED
    BY <1>1, <1>2, <1>5, <2>1, <2>2
<1>11. /\ s \in Bodies /\ s.at = "settings" /\ s.task < next_id
       /\ s.task = session[j.user].prefetch_task
       /\ s.sid = session[j.user].sid /\ s.part = session[j.user].index
  <2>1. "settings" \in Stages
    BY DEF Stages
  <2>2. /\ session[j.user].sid \in Sids /\ session[j.user].index \in 0..Parts
        /\ session[j.user].prefetch_task \in 0..MaxJobs
    BY <1>7 DEF Sessions
  <2>3. /\ At(NoBody, "settings", session[j.user].sid, session[j.user].index) \in Bodies
        /\ At(NoBody, "settings", session[j.user].sid, session[j.user].index).at = "settings"
        /\ At(NoBody, "settings", session[j.user].sid, session[j.user].index).sid
             = session[j.user].sid
        /\ At(NoBody, "settings", session[j.user].sid, session[j.user].index).part
             = session[j.user].index
    BY <1>1, <1>2, <2>1, <2>2
  <2> QED
    BY <1>4, <1>5, <1>7, <2>2, <2>3
<1>9. CASE j.priority = "prefetch"
  BY <1>0, <1>8, <1>9 DEF StartOf, q
<1>10. CASE j.priority = "user_visible"
  <2>1. CASE ~IsSame(j.user, payload[j.id].sid) \/ IsExhausted(j)
    BY <1>0, <1>6, <1>10, <2>1 DEF StartOf, l
  <2>2. CASE IsSame(j.user, payload[j.id].sid) /\ ~IsExhausted(j)
    <3>1. StartOf(j) = s
      BY <1>0, <1>10, <2>2 DEF StartOf, s
    <3>2. session[j.user].index < Parts
      <4>1. ~(session[j.user].index >= Parts)
        BY <1>0, <1>10, <2>2 DEF IsExhausted
      <4>2. session[j.user].index \in Nat
        BY <1>7, Numbers DEF Sessions
      <4> QED
        BY <4>1, <4>2, Numbers
    <3> QED
      BY <1>11, <2>2, <3>1, <3>2
  <2> QED
    BY <2>1, <2>2
<1> QED
  BY <1>0, <1>9, <1>10 DEF Priorities

\* A turn of a worker starts the job it picked, or ends the one that returned.
LEMMA WorkerTurnFits ==
    ASSUME PipelineInv, NEW w \in Workers, WorkerTurn(w)
    PROVE  PipelineInv' /\ [Next]_vars
<1> DEFINE b == StartOf(job'[w])
<1>1. QueueInv /\ SessionsFit /\ BodiesFit /\ LoadsFit /\ RestFits /\ HandlersFit
  BY DEF PipelineInv, Fits
<1>2. Turn(w)
  BY DEF WorkerTurn, Turn
<1>3. /\ QueueInv' /\ [Next]_vars /\ next_id' = next_id
      /\ \A v \in Workers \ {w} : job'[v] = job[v]
  BY <1>1, <1>2, TurnJob
<1>4. /\ b \in Bodies /\ (b.at = "none" <=> job'[w] = NoJob) /\ b.task < next_id
      /\ b.at # "awaiting"
      /\ b.at \in {"settings", "generating", "resolved", "sending"} => b.part < Parts
  <2>1. CASE job'[w] = NoJob
    BY <1>1, <2>1, NothingTyped, Numbers DEF StartOf, NoBody
  <2>2. CASE job'[w] # NoJob
    <3>1. job'[w] \in Job /\ payload[job'[w].id] \in Loads
      BY <1>1, <1>3, <2>2, NextJobFits
    <3> QED
      BY <1>1, <2>2, <3>1, StartFits
  <2> QED
    BY <2>1, <2>2
<1>5. BodiesFit'
  <2>1. body' = [body EXCEPT ![w] = b]
    BY DEF WorkerTurn
  <2>2. \A v \in Workers : body'[v] = IF v = w THEN b ELSE body[v]
    BY <1>1, <2>1 DEF BodiesFit
  <2>3. body' \in [Workers -> Bodies]
    BY <1>1, <1>4, <2>1 DEF BodiesFit
  <2> HIDE DEF b
  <2> QED
    BY <1>1, <1>3, <1>4, <2>2, <2>3 DEF BodiesFit, Sends
<1>6. SessionsFit'
  <2>1. CASE IsExhausted(job'[w])
    <3>1. job'[w].user \in Users
      BY <1>1, <1>3, <2>1, NextJobFits DEF IsExhausted
    <3>2. session' = CleanedUp(job'[w].user)
      BY <2>1 DEF WorkerTurn
    <3> QED
      BY <1>1, <1>3, <3>1, <3>2, RepositoryFits
  <2>2. CASE ~IsExhausted(job'[w])
    BY <1>1, <1>3, <2>2, SessionsStillFit DEF WorkerTurn
  <2> QED
    BY <2>1, <2>2
<1>7. HandlersFit' /\ LoadsFit' /\ RestFits'
  BY <1>1, <1>3 DEF WorkerTurn, HandlersFit, LoadsFit, RestFits
<1> QED
  BY <1>3, <1>5, <1>6, <1>7 DEF PipelineInv, Fits

\* Every step of the pipeline keeps its records, and is a step of the queue or none.
LEMMA PipelineStep ==
    ASSUME PipelineInv, [PipelineNext]_allVars
    PROVE  PipelineInv' /\ [Next]_vars
<1>1. CASE \E u \in Users : RecoverStale(u) \/ Stop(u)
  BY <1>1, UserFits
<1>2. CASE \E h \in Handlers, u \in Users : Open(h, u) \/ PressNext(h, u)
  BY <1>2, BeginsFits
<1>3. ASSUME NEW h \in Handlers, HandlerStep(h)
      PROVE  PipelineInv' /\ [Next]_vars
  BY <1>3, CreateFits, SendChunkFits, HandlerEndsFits, EnqueueChunkFits DEF HandlerStep
<1>4. ASSUME NEW w \in Workers, WorkerTurn(w) \/ JobStep(w)
      PROVE  PipelineInv' /\ [Next]_vars
  BY <1>4, WorkerTurnFits, LeaveFits, GenerateFits, AdvanceFits, SendFits, PrefetchFits DEF JobStep
<1>5. CASE UNCHANGED allVars
  <2>1. UNCHANGED vars /\ UNCHANGED pipelineVars
    BY <1>5 DEF allVars
  <2>2. QueueInv' /\ [Next]_vars /\ next_id' = next_id /\ job' = job
    BY <2>1, QuietKeepsQueue DEF PipelineInv
  <2> QED
    BY <2>1, <2>2 DEF pipelineVars, PipelineInv, Fits, SessionsFit, HandlersFit, BodiesFit,
                      LoadsFit, RestFits, Sends
<1> QED
  BY <1>1, <1>2, <1>3, <1>4, <1>5 DEF PipelineNext

\* Nothing is queued, opened or heard in the beginning.
LEMMA PipelineInitially == PipelineInit => PipelineInv
<1> SUFFICES ASSUME PipelineInit PROVE PipelineInv
  OBVIOUS
<1>1. Init
  BY DEF PipelineInit
<1>2. QueueInv
  <2>1. TypeOK
    BY <1>1, TypeInitially
  <2>2. OneJobPerUser
    BY <1>1 DEF Init, OneJobPerUser, Running
  <2> QED
    BY <1>1, <2>1, <2>2, ApartInitially DEF QueueInv
<1>3. next_id = 1 /\ \A w \in Workers : job[w] = NoJob
  BY <1>1 DEF Init
<1>4. SessionsFit
  BY <1>2, <1>3, NothingTyped DEF PipelineInit, SessionsFit, NoSession
<1>5. HandlersFit
  BY <1>2, NothingTyped DEF PipelineInit, HandlersFit, IdleHandler
<1>6. BodiesFit
  <2>1. NoBody \in Bodies /\ NoBody.at = "none" /\ NoBody.task = 0
    BY <1>2, NothingTyped DEF NoBody
  <2> QED
    BY <1>3, <2>1 DEF PipelineInit, BodiesFit, Sends
<1>7. LoadsFit
  BY <1>3, EmptySeq DEF PipelineInit, LoadsFit
<1>8. RestFits
  <2>1. \A s \in 1..MaxSessions : <<>> \in Seq([part : 0..Parts, audio : Audio])
    BY EmptySeq
  <2> QED
    BY <1>2, <2>1, Numbers DEF PipelineInit, RestFits
<1> QED
  BY <1>2, <1>4, <1>5, <1>6, <1>7, <1>8 DEF PipelineInv, Fits

\* The records fit the queue in every state.
LEMMA PipelineInvariant == PipelineSpec => []PipelineInv
<1>1. PipelineInv /\ [PipelineNext]_allVars => PipelineInv'
  BY PipelineStep
<1> QED
  BY <1>1, PipelineInitially, PTL DEF PipelineSpec

\* Type correctness of sessions, handlers, jobs, payloads and futures, and of their queue.
THEOREM PipelineTypesCorrect == PipelineSpec => []PipelineTypeOK
<1>1. PipelineInv => PipelineTypeOK
  BY FitsTyped DEF PipelineInv, QueueInv
<1> QED
  BY <1>1, PipelineInvariant, PTL

\* The reading pipeline runs the memory queue as it is: every behaviour of the pipeline, seen
\* through the variables of the queue, is one of the queue, and what is proved of the queue
\* holds in the pipeline.
THEOREM PipelineRunsQueue == PipelineSpec => Spec
<1>1. PipelineInit => Init
  BY DEF PipelineInit
<1>2. PipelineInv /\ [PipelineNext]_allVars => [Next]_vars
  BY PipelineStep
<1> QED
  BY <1>1, <1>2, PipelineInvariant, PTL DEF PipelineSpec, Spec
------------------------------------------------------------------------------
\* The order of the parts.

\* The user has heard only parts before p of session s.
Below(s, p) == \A i \in DOMAIN heard[s] : heard[s][i].part < p

\* A session has one user, who has heard only parts before its index.
SessionsOwned ==
    \A u \in Users : session[u].sid # 0 =>
        /\ session[u].sid \in 1..opened
        /\ Below(session[u].sid, session[u].index)
        /\ \A v \in Users : session[v].sid = session[u].sid => v = u

\* The part a job is about to send comes after all that was heard; no other job sends parts
\* of that session, and once the job has moved the index on, it stays there.
JobsOwn ==
    \A w \in Workers : Sends(w) =>
        /\ body[w].sid \in 1..opened
        /\ Below(body[w].sid, body[w].part)
        /\ \A v \in Workers : Sends(v) /\ body[v].sid = body[w].sid => v = w
        /\ \A u \in Users : session[u].sid = body[w].sid =>
              /\ u = User(w)
              /\ body[w].at = "sending" => body[w].part < session[u].index

\* A session that is being opened is known to nobody else.
OpeningsFresh ==
    \A h \in Handlers : handler[h].at = "opening" =>
        /\ handler[h].sid \in 1..opened
        /\ heard[handler[h].sid] = <<>>
        /\ \A u \in Users : session[u].sid # handler[h].sid
        /\ \A w \in Workers : Sends(w) => body[w].sid # handler[h].sid
        /\ \A k \in Handlers :
              handler[k].at = "opening" /\ handler[k].sid = handler[h].sid => k = h

UnopenedSilent == \A s \in 1..MaxSessions : s > opened => heard[s] = <<>>

ReadingInv == SessionsOwned /\ JobsOwn /\ OpeningsFresh /\ UnopenedSilent /\ PartsInOrder

\* Sessions, jobs and handlers go on or are forgotten; none moves an index or begins.
SessionsGoOn ==
    \A u \in Users :
        \/ session'[u].sid = 0
        \/ session'[u].sid = session[u].sid /\ session'[u].index = session[u].index
JobsGoOn ==
    \A w \in Workers : Sends(w)' =>
        /\ Sends(w)
        /\ body'[w].sid = body[w].sid /\ body'[w].part = body[w].part
        /\ job'[w].user = job[w].user
        /\ body'[w].at = "sending" => body[w].at = "sending"
HandlersGoOn == \A h \in Handlers : handler'[h].at = "opening" => handler'[h] = handler[h]

\* What the invariant needs of the types.
LEMMA ReadingTypes ==
    ASSUME PipelineInv
    PROVE  /\ MaxSessions \in Nat /\ opened \in 0..MaxSessions
           /\ heard \in [1..MaxSessions -> Seq(Voices)]
           /\ \A s \in 1..MaxSessions :
                 /\ Len(heard[s]) \in Nat /\ DOMAIN heard[s] = 1..Len(heard[s])
                 /\ \A i \in DOMAIN heard[s] : heard[s][i].part \in Nat
           /\ \A u \in Users : session[u].sid \in Nat /\ session[u].index \in Nat
           /\ \A w \in Workers : body[w].sid \in Nat /\ body[w].part \in Nat
           /\ \A h \in Handlers : handler[h].sid \in Nat
<1>1. QueueInv /\ SessionsFit /\ HandlersFit /\ BodiesFit /\ RestFits
  BY DEF PipelineInv, Fits
<1>2. heard \in [1..MaxSessions -> Seq(Voices)] /\ opened \in Sids
  BY <1>1 DEF RestFits
<1>3. \A s \in 1..MaxSessions :
         /\ Len(heard[s]) \in Nat /\ DOMAIN heard[s] = 1..Len(heard[s])
         /\ \A i \in DOMAIN heard[s] : heard[s][i] \in Voices
  BY <1>2, LenProperties, ElementOfSeq
<1>4. \A e \in Voices : e.part \in Nat
  BY <1>1, Numbers DEF Voices
<1>5. \A u \in Users : session[u].sid \in Nat /\ session[u].index \in Nat
  BY <1>1, Numbers DEF SessionsFit, Sessions
<1>6. \A w \in Workers : body[w].sid \in Nat /\ body[w].part \in Nat
  BY <1>1, Numbers DEF BodiesFit, Bodies
<1>7. \A h \in Handlers : handler[h].sid \in Nat
  BY <1>1, Numbers DEF HandlersFit, HandlerRecords
<1>8. MaxSessions \in Nat /\ opened \in 0..MaxSessions
  BY <1>1, <1>2, Numbers DEF Sids
<1> QED
  BY <1>2, <1>3, <1>4, <1>5, <1>6, <1>7, <1>8

\* A step after which everything goes on, and nothing was heard.
LEMMA GoOnKeepsOrder ==
    ASSUME PipelineInv, ReadingInv, SessionsGoOn, JobsGoOn, HandlersGoOn,
           UNCHANGED <<opened, heard>>
    PROVE  ReadingInv'
<1>1. SessionsOwned'
  BY DEF ReadingInv, SessionsOwned, SessionsGoOn, Below
<1>2. JobsOwn'
  <2> SUFFICES ASSUME NEW w \in Workers, Sends(w)'
               PROVE  /\ body'[w].sid \in 1..opened'
                      /\ Below(body[w].sid, body[w].part)'
                      /\ \A v \in Workers : Sends(v)' /\ body'[v].sid = body'[w].sid => v = w
                      /\ \A u \in Users : session'[u].sid = body'[w].sid =>
                            /\ u = User(w)'
                            /\ body'[w].at = "sending" => body'[w].part < session'[u].index
    BY DEF JobsOwn
  <2>1. /\ Sends(w) /\ body'[w].sid = body[w].sid /\ body'[w].part = body[w].part
        /\ job'[w].user = job[w].user
        /\ body'[w].at = "sending" => body[w].at = "sending"
    BY DEF JobsGoOn
  <2>2. body[w].sid \in 1..opened /\ Below(body[w].sid, body[w].part)
    BY <2>1 DEF ReadingInv, JobsOwn
  <2>3. Below(body[w].sid, body[w].part)'
    BY <2>1, <2>2 DEF Below
  <2>4. ASSUME NEW v \in Workers, Sends(v)', body'[v].sid = body'[w].sid
        PROVE  v = w
    BY <2>1, <2>4 DEF JobsGoOn, ReadingInv, JobsOwn
  <2>5. ASSUME NEW u \in Users, session'[u].sid = body'[w].sid
        PROVE  /\ u = User(w)'
               /\ body'[w].at = "sending" => body'[w].part < session'[u].index
    <3>1. session[u].sid = body[w].sid /\ session'[u].index = session[u].index
      BY <2>1, <2>2, <2>5, ReadingTypes DEF SessionsGoOn
    <3> QED
      BY <2>1, <3>1 DEF ReadingInv, JobsOwn, User
  <2> QED
    BY <2>1, <2>2, <2>3, <2>4, <2>5
<1>3. OpeningsFresh'
  <2> SUFFICES ASSUME NEW h \in Handlers, handler'[h].at = "opening"
               PROVE  /\ handler'[h].sid \in 1..opened'
                      /\ heard'[handler'[h].sid] = <<>>
                      /\ \A u \in Users : session'[u].sid # handler'[h].sid
                      /\ \A w \in Workers : Sends(w)' => body'[w].sid # handler'[h].sid
                      /\ \A k \in Handlers :
                            handler'[k].at = "opening" /\ handler'[k].sid = handler'[h].sid
                              => k = h
    BY DEF OpeningsFresh
  <2>1. handler'[h] = handler[h]
    BY DEF HandlersGoOn
  <2>2. handler[h].sid \in 1..opened
    BY <2>1 DEF ReadingInv, OpeningsFresh
  <2>3. handler[h].sid # 0
    BY <2>2, ReadingTypes
  <2> QED
    BY <2>1, <2>2, <2>3 DEF ReadingInv, OpeningsFresh, SessionsGoOn, JobsGoOn, HandlersGoOn
<1>4. UnopenedSilent' /\ PartsInOrder'
  BY DEF ReadingInv, UnopenedSilent, PartsInOrder
<1> QED
  BY <1>1, <1>2, <1>3, <1>4 DEF ReadingInv

\* The operations of the repository move no index and begin no session.
LEMMA RepositoryGoesOn ==
    ASSUME SessionsFit, NEW u \in Users,
           \/ session' = session
           \/ session' = CleanedUp(u)
           \/ session' = GenerationFinished(u)
           \/ \E sid : session' = FinishedIfSession(u, sid)
           \/ session' = [session EXCEPT ![u].is_generating = TRUE]
           \/ \E n, b : session' = Updated(u, [session[u] EXCEPT !.prefetch_task = n,
                                                                 !.is_generating = b])
           \/ session' = Updated(u, [session[u] EXCEPT !.prefetch_task = 0])
    PROVE  SessionsGoOn
<1>1. \A t \in Sessions : \A b :
         LET r == [t EXCEPT !.is_generating = b] IN r.sid = t.sid /\ r.index = t.index
  BY DEF Sessions
<1>3. \A t \in Sessions :
         LET r == [t EXCEPT !.prefetch_task = 0] IN r.sid = t.sid /\ r.index = t.index
  BY DEF Sessions
<1>4. session \in [Users -> Sessions] /\ session[u] \in Sessions
  BY DEF SessionsFit
<1>5. \/ session' = session
      \/ \E r : /\ session' = [session EXCEPT ![u] = r]
                /\ r.sid = 0 \/ (r.sid = session[u].sid /\ r.index = session[u].index)
  <2>1. CASE session' = CleanedUp(u)
    <3>1. NoSession.sid = 0
      BY DEF NoSession
    <3> QED
      BY <2>1, <3>1 DEF CleanedUp
  <2>2. CASE session' = [session EXCEPT ![u].is_generating = TRUE]
    <3>1. session' = [session EXCEPT ![u] = [session[u] EXCEPT !.is_generating = TRUE]]
      BY <1>4, <2>2
    <3> QED
      BY <1>1, <1>4, <3>1
  <2>3. CASE session' = GenerationFinished(u) \/ \E sid : session' = FinishedIfSession(u, sid)
    <3>1. session' = session
          \/ session' = [session EXCEPT ![u] = [session[u] EXCEPT !.is_generating = FALSE]]
      BY <2>3 DEF GenerationFinished, FinishedIfSession, Updated
    <3> QED
      BY <1>1, <1>4, <3>1
  <2>4. ASSUME NEW n, NEW b,
               session' = Updated(u, [session[u] EXCEPT !.prefetch_task = n, !.is_generating = b])
        PROVE  \/ session' = session
               \/ \E r : /\ session' = [session EXCEPT ![u] = r]
                         /\ r.sid = 0 \/ (r.sid = session[u].sid /\ r.index = session[u].index)
    <3> DEFINE r == [session[u] EXCEPT !.prefetch_task = n, !.is_generating = b]
    <3>1. r.sid = session[u].sid /\ r.index = session[u].index
      BY <1>4 DEF Sessions
    <3>2. session' = session \/ session' = [session EXCEPT ![u] = r]
      BY <2>4 DEF Updated
    <3> HIDE DEF r
    <3> QED
      BY <3>1, <3>2
  <2>5. CASE session' = Updated(u, [session[u] EXCEPT !.prefetch_task = 0])
    BY <1>3, <1>4, <2>5 DEF Updated
  <2> QED
    BY <2>1, <2>2, <2>3, <2>4, <2>5
<1> QED
  BY <1>4, <1>5 DEF SessionsGoOn

\* A job that goes on, or ends, sends no more than it did.
LEMMA JobGoesOn ==
    ASSUME BodiesFit, NEW w \in Workers, job' = job, NEW b, body' = [body EXCEPT ![w] = b],
           b.at \in {"settings", "generating", "awaiting", "resolved", "sending"} =>
              /\ Sends(w) /\ b.sid = body[w].sid /\ b.part = body[w].part
              /\ b.at = "sending" => body[w].at = "sending"
    PROVE  JobsGoOn
<1>1. \A v \in Workers : body'[v] = IF v = w THEN b ELSE body[v]
  BY DEF BodiesFit
<1> QED
  BY <1>1 DEF JobsGoOn, Sends

\* A body that moves to a stage it was in, or ends, goes on.
LEMMA GoToGoesOn ==
    ASSUME BodiesFit, NEW w \in Workers, job' = job, NEW a, GoTo(w, a),
           a \in {"settings", "generating", "awaiting", "resolved", "sending"} =>
              Sends(w) /\ (a = "sending" => body[w].at = "sending")
    PROVE  JobsGoOn
<1> DEFINE b == [body[w] EXCEPT !.at = a]
<1>1. body[w] \in Bodies /\ body \in [Workers -> Bodies]
  BY DEF BodiesFit
<1>2. b.at = a /\ b.sid = body[w].sid /\ b.part = body[w].part
  BY <1>1 DEF Bodies
<1>3. body' = [body EXCEPT ![w] = b]
  BY <1>1 DEF GoTo
<1> HIDE DEF b
<1> QED
  BY <1>2, <1>3, JobGoesOn

\* A handler that goes on is opening nothing new.
LEMMA HandlerGoesOn ==
    ASSUME HandlersFit, NEW h \in Handlers,
           \/ handler' = handler
           \/ \E r : handler' = [handler EXCEPT ![h] = r] /\ r.at # "opening"
           \/ \E a : handler' = [handler EXCEPT ![h].at = a] /\ a # "opening"
           \/ \E a, s : handler' = [handler EXCEPT ![h].at = a, ![h].sid = s] /\ a # "opening"
    PROVE  HandlersGoOn
<1>1. handler[h] \in HandlerRecords /\ handler \in [Handlers -> HandlerRecords]
  BY DEF HandlersFit
<1>2. \A r \in HandlerRecords : \A a : [r EXCEPT !.at = a].at = a
  BY DEF HandlerRecords
<1>3. \A r \in HandlerRecords : \A a, s : [r EXCEPT !.at = a, !.sid = s].at = a
  BY DEF HandlerRecords
<1>4. handler' = handler \/ \E r : handler' = [handler EXCEPT ![h] = r] /\ r.at # "opening"
  <2>1. ASSUME NEW a, handler' = [handler EXCEPT ![h].at = a], a # "opening"
        PROVE  \E r : handler' = [handler EXCEPT ![h] = r] /\ r.at # "opening"
    <3> DEFINE r == [handler[h] EXCEPT !.at = a]
    <3>1. handler' = [handler EXCEPT ![h] = r]
      BY <1>1, <2>1
    <3>2. r.at = a
      BY <1>1, <1>2
    <3> HIDE DEF r
    <3> QED
      BY <2>1, <3>1, <3>2
  <2>2. ASSUME NEW a, NEW s, handler' = [handler EXCEPT ![h].at = a, ![h].sid = s], a # "opening"
        PROVE  \E r : handler' = [handler EXCEPT ![h] = r] /\ r.at # "opening"
    <3> DEFINE r == [handler[h] EXCEPT !.at = a, !.sid = s]
    <3>1. handler' = [handler EXCEPT ![h] = r]
      BY <1>1, <2>2
    <3>2. r.at = a
      BY <1>1, <1>3
    <3> HIDE DEF r
    <3> QED
      BY <2>2, <3>1, <3>2
  <2> QED
    BY <2>1, <2>2
<1> QED
  BY <1>1, <1>4 DEF HandlersGoOn

\* The steps of the users.
LEMMA UsersKeepOrder ==
    ASSUME PipelineInv, ReadingInv, NEW u \in Users, RecoverStale(u) \/ Stop(u)
    PROVE  ReadingInv'
<1>1. SessionsGoOn
  BY RepositoryGoesOn DEF PipelineInv, Fits, RecoverStale, Stop
<1>2. UNCHANGED <<opened, heard, body, job, handler>>
  BY DEF RecoverStale, Stop, vars, workerVars
<1>3. JobsGoOn /\ HandlersGoOn
  BY <1>2 DEF JobsGoOn, HandlersGoOn, Sends
<1> QED
  BY <1>1, <1>2, <1>3, GoOnKeepsOrder

\* The press of "next".
LEMMA PressKeepsOrder ==
    ASSUME PipelineInv, ReadingInv, NEW h \in Handlers, NEW u \in Users, PressNext(h, u)
    PROVE  ReadingInv'
<1>1. SessionsFit /\ HandlersFit
  BY DEF PipelineInv, Fits
<1>2. UNCHANGED <<opened, heard, body, job>>
  BY DEF PressNext, vars, workerVars
<1>3. JobsGoOn
  BY <1>2 DEF JobsGoOn, Sends
<1>4. SessionsGoOn
  BY <1>1, RepositoryGoesOn DEF PressNext
<1>5. [at |-> "answering", user |-> u, sid |-> session[u].sid, origin |-> "next"].at # "opening"
  OBVIOUS
<1>6. HandlersGoOn
  BY <1>1, <1>5, HandlerGoesOn DEF PressNext
<1> QED
  BY <1>2, <1>3, <1>4, <1>6, GoOnKeepsOrder

\* The steps of a handler that creates no session.
LEMMA HandlersKeepOrder ==
    ASSUME PipelineInv, ReadingInv, NEW h \in Handlers,
           \/ AbandonOpen(h) \/ SendChunk(h) \/ EnqueueChunk(h) \/ GiveUp(h)
           \/ HandlerRaises(h) \/ ReleaseLock(h)
    PROVE  ReadingInv'
<1>1. SessionsFit /\ HandlersFit
  BY DEF PipelineInv, Fits
<1>2. UNCHANGED <<opened, heard, body, job>>
  BY DEF AbandonOpen, SendChunk, EnqueueChunk, GiveUp, HandlerRaises, ReleaseLock, Accept, Enqueue,
         vars, workerVars
<1>3. JobsGoOn
  BY <1>2 DEF JobsGoOn, Sends
<1>4. SessionsGoOn
  <2>1. CASE AbandonOpen(h) \/ EnqueueChunk(h) \/ HandlerRaises(h)
    BY <2>1 DEF AbandonOpen, EnqueueChunk, HandlerRaises, SessionsGoOn
  <2>2. CASE SendChunk(h) \/ GiveUp(h) \/ ReleaseLock(h)
    <3>1. handler[h].user \in Users
      BY <2>2, HandlerUser DEF SendChunk, GiveUp, ReleaseLock
    <3> QED
      BY <1>1, <2>2, <3>1, RepositoryGoesOn DEF SendChunk, GiveUp, ReleaseLock
  <2> QED
    BY <2>1, <2>2
<1>5. HandlersGoOn
  <2>1. ASSUME \/ handler' = [handler EXCEPT ![h] = IdleHandler]
               \/ handler' \in Excuse(h)
        PROVE  HandlersGoOn
    <3>1. IdleHandler.at # "opening"
      BY DEF IdleHandler
    <3> QED
      BY <1>1, <2>1, <3>1, HandlerGoesOn DEF Excuse
  <2>2. CASE AbandonOpen(h) \/ GiveUp(h) \/ ReleaseLock(h)
    BY <2>1, <2>2 DEF AbandonOpen, GiveUp, ReleaseLock
  <2>3. CASE EnqueueChunk(h) \/ HandlerRaises(h)
    BY <1>1, <2>1, <2>3, HandlerGoesOn DEF EnqueueChunk, HandlerRaises
  <2>4. CASE SendChunk(h)
    BY <1>1, <2>1, <2>4, HandlerGoesOn DEF SendChunk
  <2> QED
    BY <2>2, <2>3, <2>4
<1> QED
  BY <1>2, <1>3, <1>4, <1>5, GoOnKeepsOrder

\* A session that is opened gets the next id, of which nothing is known yet.
LEMMA OpenKeepsOrder ==
    ASSUME PipelineInv, ReadingInv, NEW h \in Handlers, NEW u \in Users, Open(h, u)
    PROVE  ReadingInv'
<1> DEFINE n == opened + 1
<1>1. /\ SessionsFit /\ HandlersFit /\ opened' = n /\ n \in 1..MaxSessions /\ opened \in Nat
      /\ UNCHANGED <<heard, body, job>>
  BY ReadingTypes DEF PipelineInv, Fits, Open, vars, workerVars
<1>2. PICK r : /\ handler' = [handler EXCEPT ![h] = r]
               /\ r.at = "opening" /\ r.sid = n
  <2>1. PICK origin \in {"message", "catalog"} :
           handler' = [handler EXCEPT ![h] =
                [at |-> "opening", user |-> u, sid |-> opened + 1, origin |-> origin]]
    BY DEF Open
  <2> DEFINE r == [at |-> "opening", user |-> u, sid |-> opened + 1, origin |-> origin]
  <2>2. handler' = [handler EXCEPT ![h] = r] /\ r.at = "opening" /\ r.sid = n
    BY <2>1
  <2> HIDE DEF r
  <2> QED
    BY <2>2
<1>3. handler' = [k \in Handlers |-> IF k = h THEN r ELSE handler[k]]
  BY <1>1, <1>2 DEF HandlersFit
<1>4. SessionsGoOn
  BY <1>1, RepositoryGoesOn DEF Open
<1>5. \A u1 \in Users : session'[u1].sid # n /\ session[u1].sid # n
  BY <1>1, <1>4, ReadingTypes DEF SessionsGoOn, ReadingInv, SessionsOwned
<1>6. \A w \in Workers : (Sends(w)' <=> Sends(w)) /\ (Sends(w) => body[w].sid # n)
  BY <1>1, ReadingTypes DEF ReadingInv, JobsOwn, Sends
<1>7. \A k \in Handlers : handler[k].at = "opening" => handler[k].sid # n
  BY <1>1, ReadingTypes DEF ReadingInv, OpeningsFresh
<1>8. heard[n] = <<>>
  BY <1>1 DEF ReadingInv, UnopenedSilent
<1>9. 1..opened \subseteq 1..n /\ n \in 1..n
  BY <1>1
<1> HIDE DEF n
<1>10. SessionsOwned'
  BY <1>1, <1>4, <1>9 DEF ReadingInv, SessionsOwned, SessionsGoOn, Below
<1>11. JobsOwn'
  <2> SUFFICES ASSUME NEW w \in Workers, Sends(w)
               PROVE  /\ body[w].sid \in 1..n
                      /\ Below(body[w].sid, body[w].part)'
                      /\ \A v \in Workers : Sends(v) /\ body[v].sid = body[w].sid => v = w
                      /\ \A u1 \in Users : session'[u1].sid = body[w].sid =>
                            /\ u1 = User(w)'
                            /\ body[w].at = "sending" => body[w].part < session'[u1].index
    BY <1>1, <1>6 DEF JobsOwn
  <2>1. body[w].sid \in 1..opened /\ Below(body[w].sid, body[w].part)
    BY DEF ReadingInv, JobsOwn
  <2>2. Below(body[w].sid, body[w].part)'
    BY <1>1, <2>1 DEF Below
  <2>3. \A u1 \in Users : session'[u1].sid = body[w].sid =>
           session[u1].sid = body[w].sid /\ session'[u1].index = session[u1].index
    BY <1>1, <1>4, <2>1 DEF SessionsGoOn
  <2> QED
    BY <1>1, <1>9, <2>1, <2>2, <2>3 DEF ReadingInv, JobsOwn, User
<1>12. OpeningsFresh'
  <2>1. \A k \in Handlers : handler[k].at = "opening" => handler[k].sid \in 1..opened
    BY DEF ReadingInv, OpeningsFresh
  <2>2. \A k \in Handlers, u1 \in Users :
           handler[k].at = "opening" => session'[u1].sid # handler[k].sid
    BY <1>1, <1>4, <2>1 DEF ReadingInv, OpeningsFresh, SessionsGoOn
  <2> QED
    BY <1>1, <1>2, <1>3, <1>5, <1>6, <1>7, <1>8, <1>9, <2>1, <2>2
       DEF ReadingInv, OpeningsFresh
<1>13. UnopenedSilent'
  BY <1>1 DEF ReadingInv, UnopenedSilent, n
<1>14. PartsInOrder'
  BY <1>1 DEF ReadingInv, PartsInOrder
<1> QED
  BY <1>10, <1>11, <1>12, <1>13, <1>14 DEF ReadingInv

\* The new session replaces what the user had; no job knows it yet.
LEMMA CreateKeepsOrder ==
    ASSUME PipelineInv, ReadingInv, NEW h \in Handlers, Create(h)
    PROVE  ReadingInv'
<1>0. PICK u, n : u = handler[h].user /\ n = handler[h].sid
  OBVIOUS
<1>1. /\ SessionsFit /\ HandlersFit /\ handler[h].at = "opening"
      /\ UNCHANGED <<heard, body, job, opened>>
  BY DEF PipelineInv, Fits, Create, vars, workerVars
<1>2. u \in Users /\ n \in 1..opened /\ 1..opened \subseteq Nat \ {0} /\ n # 0
  BY <1>0, <1>1, HandlerUser, ReadingTypes DEF ReadingInv, OpeningsFresh
<1>3. /\ heard[n] = <<>>
      /\ \A v \in Users : session[v].sid # n
      /\ \A w \in Workers : Sends(w) => body[w].sid # n
      /\ \A k \in Handlers : handler[k].at = "opening" /\ handler[k].sid = n => k = h
  BY <1>0, <1>1 DEF ReadingInv, OpeningsFresh
<1>4. PICK s : session' = [session EXCEPT ![u] = s] /\ s.sid = n /\ s.index = 0
  <2> DEFINE s == [NoSession EXCEPT !.sid = n, !.is_generating = TRUE]
  <2>1. session' = [session EXCEPT ![u] = s]
    BY <1>0 DEF Create
  <2>2. s.sid = n /\ s.index = 0
    BY DEF NoSession
  <2> HIDE DEF s
  <2> QED
    BY <2>1, <2>2
<1>5. \A v \in Users : session'[v] = IF v = u THEN s ELSE session[v]
  BY <1>1, <1>2, <1>4 DEF SessionsFit
<1>6. \A k \in Handlers : handler'[k].at = "opening" => k # h /\ handler'[k] = handler[k]
  <2>1. [handler[h] EXCEPT !.at = "announcing"].at # "opening"
    BY <1>1 DEF HandlersFit, HandlerRecords
  <2>2. handler' = [handler EXCEPT ![h] = [handler[h] EXCEPT !.at = "announcing"]]
    BY DEF Create
  <2> QED
    BY <1>1, <2>1, <2>2 DEF HandlersFit
<1>7. \A w \in Workers : Sends(w)' <=> Sends(w)
  BY <1>1 DEF Sends
<1>8. SessionsOwned'
  <2>1. \A v \in Users : v # u => session'[v] = session[v] /\ session'[v].sid # session'[u].sid
    BY <1>2, <1>3, <1>4, <1>5
  <2>3. session'[u].sid = n /\ session'[u].index = 0
    BY <1>2, <1>4, <1>5
  <2>4. Below(session[u].sid, session[u].index)'
    BY <1>1, <1>3, <2>3 DEF Below
  <2>5. \A v \in Users : session[v].sid # 0 => Below(session[v].sid, session[v].index)
    BY DEF ReadingInv, SessionsOwned
  <2>6. \A v \in Users \ {u} :
           session'[v].sid # 0 => Below(session[v].sid, session[v].index)'
    BY <1>1, <2>1, <2>5 DEF Below
  <2> QED
    BY <1>1, <1>2, <2>1, <2>3, <2>4, <2>6 DEF ReadingInv, SessionsOwned
<1>9. JobsOwn'
  <2>1. \A w \in Workers : Sends(w) => Below(body[w].sid, body[w].part)'
    BY <1>1 DEF ReadingInv, JobsOwn, Below
  <2>2. \A w \in Workers, v \in Users : Sends(w) /\ session'[v].sid = body[w].sid =>
           session[v].sid = body[w].sid /\ session'[v].index = session[v].index
    BY <1>3, <1>4, <1>5
  <2> QED
    BY <1>1, <1>7, <2>1, <2>2 DEF ReadingInv, JobsOwn, User
<1>10. OpeningsFresh'
  <2>1. \A k \in Handlers : handler'[k].at = "opening" => handler'[k] = handler[k] /\ handler[k].sid # n
    BY <1>3, <1>6
  <2>2. \A v \in Users : session'[v].sid \in {n, session[v].sid}
    BY <1>4, <1>5
  <2> QED
    BY <1>1, <1>7, <2>1, <2>2 DEF ReadingInv, OpeningsFresh
<1>11. UnopenedSilent' /\ PartsInOrder'
  BY <1>1 DEF ReadingInv, UnopenedSilent, PartsInOrder
<1> QED
  BY <1>8, <1>9, <1>10, <1>11 DEF ReadingInv

\* The steps of a job up to the moment the index moves on.
LEMMA JobsKeepOrder ==
    ASSUME PipelineInv, ReadingInv, NEW w \in Workers,
           \/ Leave(w) \/ ReadSettings(w) \/ Generate(w) \/ AwaitPrefetch(w) \/ Prefetch(w)
           \/ EndJob(w)
           \/ Advance(w) /\ session' = session /\ ~GoTo(w, "sending")
    PROVE  ReadingInv'
<1>1. /\ SessionsFit /\ HandlersFit /\ BodiesFit /\ body[w].at # "none"
      /\ UNCHANGED <<opened, heard, handler, job>>
  BY DEF PipelineInv, Fits, Leave, ReadSettings, Generate, AwaitPrefetch, Prefetch, EndJob, Advance,
         vars, workerVars
<1>2. User(w) \in Users
  BY <1>1, JobFacts
<1>3. HandlersGoOn
  BY <1>1 DEF HandlersGoOn
<1>4. SessionsGoOn
  BY <1>1, <1>2, RepositoryGoesOn
     DEF Leave, ReadSettings, Generate, AwaitPrefetch, Prefetch, EndJob, TaskForgotten
<1>5. JobsGoOn
  <2>1. ASSUME NEW a \in {"generating", "awaiting"}, Sends(w), GoTo(w, a)
        PROVE  JobsGoOn
    BY <1>1, <2>1, GoToGoesOn
  <2>2. ASSUME NEW a \in {"closing", "returning"}, GoTo(w, a)
        PROVE  JobsGoOn
    BY <1>1, <2>2, GoToGoesOn
  <2>3. ASSUME NEW audio, body' = [body EXCEPT ![w].at = "resolved", ![w].audio = audio], Sends(w)
        PROVE  JobsGoOn
    <3> DEFINE b == [body[w] EXCEPT !.at = "resolved", !.audio = audio]
    <3>1. body[w] \in Bodies /\ body \in [Workers -> Bodies]
      BY <1>1 DEF BodiesFit
    <3>2. b.at = "resolved" /\ b.sid = body[w].sid /\ b.part = body[w].part
      BY <3>1 DEF Bodies
    <3>3. body' = [body EXCEPT ![w] = b]
      BY <2>3, <3>1
    <3> HIDE DEF b
    <3> QED
      BY <1>1, <2>3, <3>2, <3>3, JobGoesOn
  <2>4. Generate(w) \/ AwaitPrefetch(w) \/ ReadSettings(w) => Sends(w)
    BY DEF Generate, AwaitPrefetch, ReadSettings, Sends
  <2> QED
    BY <2>1, <2>2, <2>3, <2>4
       DEF Leave, ReadSettings, Generate, AwaitPrefetch, Prefetch, EndJob, Advance
<1> QED
  BY <1>1, <1>3, <1>4, <1>5, GoOnKeepsOrder

\* The index moves past the part that is about to be sent.
LEMMA AdvanceKeepsOrder ==
    ASSUME PipelineInv, ReadingInv, NEW w \in Workers, Advance(w)
    PROVE  ReadingInv'
<1>1. CASE session' = session /\ ~GoTo(w, "sending")
  BY <1>1, JobsKeepOrder
<1>2. CASE body[w].audio # NoAudio /\ IsSame(User(w), body[w].sid) /\ GoTo(w, "sending")
           /\ session' = [session EXCEPT ![User(w)].index = body[w].part + 1]
  <2>0. PICK u, n, p : u = User(w) /\ n = body[w].sid /\ p = body[w].part
    OBVIOUS
  <2>1. /\ SessionsFit /\ BodiesFit /\ Sends(w) /\ body[w].at = "resolved" /\ body[w] \in Bodies
        /\ UNCHANGED <<opened, heard, handler, job>>
    BY JobFacts DEF PipelineInv, Fits, Advance, Sends, vars, workerVars
  <2>2. u \in Users /\ session[u].sid = n /\ n \in 1..opened /\ p \in Nat
    BY <1>2, <2>0, <2>1, JobFacts, ReadingTypes DEF IsSame, ReadingInv, JobsOwn
  <2>3. n \in 1..MaxSessions
    BY <2>2, ReadingTypes
  <2>4. \A v \in Users : /\ session'[v].sid = session[v].sid
                         /\ session'[v].index = IF v = u THEN p + 1 ELSE session[v].index
    <3>1. [session[u] EXCEPT !.index = p + 1].sid = session[u].sid
          /\ [session[u] EXCEPT !.index = p + 1].index = p + 1
      BY <2>1, <2>2 DEF SessionsFit, Sessions
    <3>2. session' = [session EXCEPT ![u] = [session[u] EXCEPT !.index = p + 1]]
      BY <1>2, <2>0
    <3> HIDE <1>2
    <3> QED
      BY <2>1, <2>2, <3>1, <3>2 DEF SessionsFit
  <2>5. \A v \in Workers : /\ body'[v].sid = body[v].sid /\ body'[v].part = body[v].part
                           /\ body'[v].at = IF v = w THEN "sending" ELSE body[v].at
    <3>1. [body[w] EXCEPT !.at = "sending"].at = "sending"
          /\ [body[w] EXCEPT !.at = "sending"].sid = body[w].sid
          /\ [body[w] EXCEPT !.at = "sending"].part = body[w].part
      BY <2>1 DEF Bodies
    <3>2. body' = [body EXCEPT ![w] = [body[w] EXCEPT !.at = "sending"]]
      BY <1>2 DEF GoTo
    <3> QED
      BY <2>1, <3>1, <3>2 DEF BodiesFit
  <2>6. \A v \in Workers : Sends(v)' <=> Sends(v)
    BY <2>1, <2>5 DEF Sends
  <2>7. \A i \in DOMAIN heard[n] : heard[n][i].part < p
    BY <2>0, <2>1 DEF ReadingInv, JobsOwn, Below
  <2>8. \A i \in DOMAIN heard[n] : heard[n][i].part < p + 1
    BY <2>2, <2>3, <2>7, ReadingTypes
  <2>9. SessionsOwned'
    <3>1. \A v \in Users : session[v].sid # 0 => Below(session[v].sid, session[v].index)'
      <4> SUFFICES ASSUME NEW v \in Users, session[v].sid # 0
                   PROVE  Below(session[v].sid, session[v].index)'
        OBVIOUS
      <4>1. CASE v = u
        BY <2>1, <2>2, <2>4, <2>8, <4>1 DEF Below
      <4>2. CASE v # u
        BY <2>1, <2>4, <4>2 DEF ReadingInv, SessionsOwned, Below
      <4> QED
        BY <4>1, <4>2
    <3> QED
      BY <2>1, <2>4, <3>1 DEF ReadingInv, SessionsOwned
  <2>10. JobsOwn'
    <3> SUFFICES ASSUME NEW v \in Workers, Sends(v)
                 PROVE  /\ body[v].sid \in 1..opened
                        /\ Below(body[v].sid, body[v].part)'
                        /\ \A x \in Workers : Sends(x) /\ body[x].sid = body[v].sid => x = v
                        /\ \A y \in Users : session[y].sid = body[v].sid =>
                              /\ y = User(v)
                              /\ body'[v].at = "sending" => body[v].part < session'[y].index
      BY <2>1, <2>4, <2>5, <2>6 DEF JobsOwn, User
    <3>1. /\ body[v].sid \in 1..opened
          /\ \A x \in Workers : Sends(x) /\ body[x].sid = body[v].sid => x = v
          /\ \A y \in Users : session[y].sid = body[v].sid => y = User(v)
      BY DEF ReadingInv, JobsOwn
    <3>2. Below(body[v].sid, body[v].part)'
      BY <2>1, <2>5 DEF ReadingInv, JobsOwn, Below
    <3>3. ASSUME NEW y \in Users, session[y].sid = body[v].sid, body'[v].at = "sending"
          PROVE  body[v].part < session'[y].index
      <4>1. CASE v = w
        <5>1. y = u
          BY <2>0, <3>1, <3>3, <4>1
        <5> QED
          BY <2>0, <2>2, <2>4, <4>1, <5>1
      <4>2. CASE v # w
        <5>1. y # u
          BY <2>0, <2>1, <2>2, <3>1, <3>3, <4>2
        <5> QED
          BY <2>4, <2>5, <3>3, <4>2, <5>1 DEF ReadingInv, JobsOwn
      <4> QED
        BY <4>1, <4>2
    <3> QED
      BY <3>1, <3>2, <3>3
  <2>11. OpeningsFresh' /\ UnopenedSilent' /\ PartsInOrder'
    BY <2>1, <2>4, <2>5, <2>6 DEF ReadingInv, OpeningsFresh, UnopenedSilent, PartsInOrder
  <2> QED
    BY <2>9, <2>10, <2>11 DEF ReadingInv
<1>3. (GoTo(w, "closing") \/ GoTo(w, "returning")) => ~GoTo(w, "sending")
  <2>1. body[w] \in Bodies /\ body \in [Workers -> Bodies]
    BY JobFacts DEF PipelineInv, Fits, Advance, BodiesFit
  <2>2. \A a : GoTo(w, a) => body'[w].at = a
    BY <2>1 DEF GoTo, Bodies
  <2> QED
    BY <2>2
<1> QED
  BY <1>1, <1>2, <1>3 DEF Advance

\* A job that starts sends the part at the index of a session that no other job knows.
LEMMA TurnKeepsOrder ==
    ASSUME PipelineInv, ReadingInv, NEW w \in Workers, WorkerTurn(w)
    PROVE  ReadingInv'
<1>0. PICK b : b = StartOf(job'[w])
  OBVIOUS
<1>1. QueueInv /\ SessionsFit /\ BodiesFit /\ LoadsFit /\ HandlersFit
  BY DEF PipelineInv, Fits
<1>2. Turn(w)
  BY DEF WorkerTurn, Turn
<1>3. /\ QueueInv' /\ next_id' = next_id
      /\ job' \in [Workers -> Job \cup {NoJob}]
      /\ \A v \in Workers \ {w} : job'[v] = job[v]
  BY <1>1, <1>2, TurnJob
<1>4. PipelineInv'
  BY WorkerTurnFits
<1>5. UNCHANGED <<handler, opened, heard>>
  BY DEF WorkerTurn
<1>6. \A v \in Workers : body'[v] = IF v = w THEN b ELSE body[v]
  BY <1>0, <1>1 DEF WorkerTurn, BodiesFit
<1>7. \A v \in Workers \ {w} : Sends(v)' <=> Sends(v)
  BY <1>6 DEF Sends
<1>8. HandlersGoOn
  BY <1>5 DEF HandlersGoOn
<1>9. CASE ~Sends(w)'
  <2>1. JobsGoOn
    BY <1>3, <1>6, <1>7, <1>9 DEF JobsGoOn
  <2>2. SessionsGoOn
    <3>1. CASE IsExhausted(job'[w])
      <4>1. job'[w].user \in Users
        BY <1>1, <1>3, <3>1, NextJobFits DEF IsExhausted
      <4>2. session' = CleanedUp(job'[w].user)
        BY <3>1 DEF WorkerTurn
      <4> QED
        BY <1>1, <4>1, <4>2, RepositoryGoesOn
    <3>2. CASE ~IsExhausted(job'[w])
      BY <3>2 DEF WorkerTurn, SessionsGoOn
    <3> QED
      BY <3>1, <3>2
  <2> QED
    BY <1>5, <1>8, <2>1, <2>2, GoOnKeepsOrder
<1>10. CASE Sends(w)'
  <2>1. b.at \in {"settings", "generating", "awaiting", "resolved", "sending"}
    BY <1>6, <1>10 DEF Sends
  <2>2. job'[w] # NoJob
    BY <1>0, <2>1 DEF StartOf, NoBody
  <2>3. PICK u \in Users : u = job'[w].user
    BY <1>1, <1>3, <2>2, NextJobFits
  <2>4. /\ b.at = "settings" /\ session[u].sid # 0
        /\ b.sid = session[u].sid /\ b.part = session[u].index /\ b.part < Parts
    <3>1. job'[w] \in Job /\ payload[job'[w].id] \in Loads
      BY <1>1, <1>3, <2>2, NextJobFits
    <3>2. b.at = "settings" /\ IsSame(u, payload[job'[w].id].sid)
          /\ b.sid = session[u].sid /\ b.part = session[u].index /\ b.part < Parts
      BY <1>0, <1>1, <2>1, <2>3, <3>1, StartFits
    <3> QED
      BY <3>2 DEF IsSame, Exists
  <2>5. session' = session
    <3>1. ~IsExhausted(job'[w])
      BY <1>1, <2>3, <2>4, Numbers, ReadingTypes DEF IsExhausted
    <3> QED
      BY <3>1 DEF WorkerTurn
  <2>6. \A v \in Workers \ {w} : Sends(v) => User(v) # u
    <3> SUFFICES ASSUME NEW v \in Workers \ {w}, Sends(v)
                 PROVE  User(v) # u
      OBVIOUS
    <3>1. job[v] # NoJob
      BY <1>1 DEF BodiesFit, Sends
    <3>2. v \in Running' /\ w \in Running'
      BY <1>3, <2>2, <3>1 DEF QueueInv, TypeOK, Running
    <3>3. job'[v].user # job'[w].user
      BY <1>3, <3>2 DEF QueueInv, OneJobPerUser
    <3> QED
      BY <1>3, <2>3, <3>3 DEF User
  <2>7. \A v \in Workers \ {w} : Sends(v) => body[v].sid # b.sid
    BY <2>3, <2>4, <2>6 DEF ReadingInv, JobsOwn
  <2>8. b.sid \in 1..opened /\ Below(b.sid, b.part)
    BY <2>3, <2>4 DEF ReadingInv, SessionsOwned
  <2>9. \A y \in Users : session[y].sid = b.sid => y = u
    BY <2>3, <2>4 DEF ReadingInv, SessionsOwned
  <2>10. SessionsOwned' /\ UnopenedSilent' /\ PartsInOrder'
    BY <1>5, <2>5 DEF ReadingInv, SessionsOwned, UnopenedSilent, PartsInOrder, Below
  <2>11. JobsOwn'
    <3> SUFFICES ASSUME NEW v \in Workers, Sends(v)'
                 PROVE  /\ body'[v].sid \in 1..opened
                        /\ Below(body[v].sid, body[v].part)'
                        /\ \A x \in Workers : Sends(x)' /\ body'[x].sid = body'[v].sid => x = v
                        /\ \A y \in Users : session[y].sid = body'[v].sid =>
                              /\ y = job'[v].user
                              /\ body'[v].at = "sending" => body'[v].part < session[y].index
      BY <1>5, <2>5 DEF JobsOwn, User
    <3>1. CASE v = w
      <4>1. Below(body[v].sid, body[v].part)'
        BY <1>5, <1>6, <2>8, <3>1 DEF Below
      <4> QED
        BY <1>6, <1>7, <2>3, <2>4, <2>7, <2>8, <2>9, <3>1, <4>1
    <3>2. CASE v # w
      <4>1. Sends(v) /\ body'[v] = body[v] /\ job'[v] = job[v]
        BY <1>3, <1>6, <1>7, <3>2
      <4>2. Below(body[v].sid, body[v].part)'
        BY <1>5, <4>1 DEF ReadingInv, JobsOwn, Below
      <4>3. \A x \in Workers : Sends(x)' /\ body'[x].sid = body'[v].sid => x = v
        BY <1>6, <1>7, <2>7, <3>2, <4>1 DEF ReadingInv, JobsOwn
      <4> QED
        BY <4>1, <4>2, <4>3 DEF ReadingInv, JobsOwn, User
    <3> QED
      BY <3>1, <3>2
  <2>12. OpeningsFresh'
    <3>1. \A h \in Handlers : handler[h].at = "opening" => b.sid # handler[h].sid
      BY <2>3, <2>4 DEF ReadingInv, OpeningsFresh
    <3>2. \A h \in Handlers, v \in Workers :
             handler[h].at = "opening" /\ Sends(v)' => body'[v].sid # handler[h].sid
      BY <1>6, <1>7, <3>1 DEF ReadingInv, OpeningsFresh
    <3> QED
      BY <1>5, <2>5, <3>2 DEF ReadingInv, OpeningsFresh
  <2> QED
    BY <2>10, <2>11, <2>12 DEF ReadingInv
<1> QED
  BY <1>9, <1>10

\* What was heard before stays; one part of the session may come after it.
LEMMA HeardGrows ==
    ASSUME PipelineInv, NEW w \in Workers, MaybeHeard(w), body[w].sid \in 1..MaxSessions
    PROVE  \E tries \in 1..SendAttempts :
              /\ \A s \in 1..MaxSessions : s # body[w].sid => heard'[s] = heard[s]
              /\ \/ heard'[body[w].sid] = heard[body[w].sid]
                 \/ heard'[body[w].sid] = Append(heard[body[w].sid], Voice(w, tries))
              /\ DOMAIN heard' = DOMAIN heard
<1>1. heard \in [1..MaxSessions -> Seq(Voices)]
  BY ReadingTypes
<1>0. 1 \in 1..SendAttempts
  BY PipelineAssumption
<1>5. PICK tries \in 1..SendAttempts :
         \/ heard' = heard
         \/ heard' = [heard EXCEPT ![body[w].sid] = Append(heard[body[w].sid], Voice(w, tries))]
  BY <1>0 DEF MaybeHeard, Voice
<1> DEFINE n == body[w].sid
           e == Voice(w, tries)
<1>2. heard' = heard \/ heard' = [heard EXCEPT ![n] = Append(heard[n], e)]
  BY <1>5
<1>3. n \in 1..MaxSessions
  OBVIOUS
<1> HIDE DEF n, e
<1>4. /\ \A s \in 1..MaxSessions : s # n => heard'[s] = heard[s]
      /\ heard'[n] = heard[n] \/ heard'[n] = Append(heard[n], e)
      /\ DOMAIN heard' = DOMAIN heard
  BY <1>1, <1>2, <1>3
<1> QED
  BY <1>4 DEF n, e

\* The part that is sent comes after all the user has heard of its session, and the index,
\* the other jobs and the handlers stay clear of it.
LEMMA SendKeepsOrder ==
    ASSUME PipelineInv, ReadingInv, NEW w \in Workers, SendVoice(w) \/ SendRaises(w)
    PROVE  ReadingInv'
<1>0. PICK n, p : n = body[w].sid /\ p = body[w].part
  OBVIOUS
<1>1. /\ SessionsFit /\ HandlersFit /\ BodiesFit /\ Sends(w) /\ body[w].at = "sending"
      /\ UNCHANGED <<opened, handler, job>> /\ MaybeHeard(w) /\ body[w].at # "none"
  BY DEF PipelineInv, Fits, SendVoice, SendRaises, Sends, Accept, Enqueue, vars, workerVars
<1>2. User(w) \in Users /\ p \in 0..Parts /\ p \in Nat
  BY <1>0, <1>1, JobFacts, ReadingTypes
<1>3. /\ n \in 1..opened
      /\ \A i \in DOMAIN heard[n] : heard[n][i].part < p
      /\ \A v \in Workers : Sends(v) /\ body[v].sid = n => v = w
      /\ \A y \in Users : session[y].sid = n => p < session[y].index
  BY <1>0, <1>1 DEF ReadingInv, JobsOwn, Below
<1>4. n \in 1..MaxSessions /\ n # 0
  BY <1>3, ReadingTypes
<1>5. PICK tries \in 1..SendAttempts :
         /\ \A s \in 1..MaxSessions : s # n => heard'[s] = heard[s]
         /\ heard'[n] = heard[n] \/ heard'[n] = Append(heard[n], Voice(w, tries))
         /\ DOMAIN heard' = DOMAIN heard /\ DOMAIN heard = 1..MaxSessions
  BY <1>0, <1>1, <1>4, HeardGrows, ReadingTypes
<1>6. /\ DOMAIN heard'[n] = DOMAIN heard[n] \/ DOMAIN heard'[n] = 1..(Len(heard[n]) + 1)
      /\ \A i \in DOMAIN heard'[n] :
            \/ i \in DOMAIN heard[n] /\ heard'[n][i] = heard[n][i]
            \/ /\ i = Len(heard[n]) + 1 /\ heard'[n][i].part = p
               /\ i \notin DOMAIN heard[n]
  <2> DEFINE e == Voice(w, tries)
  <2>1. e \in Voices /\ e.part = p
    BY <1>0, <1>1, JobFacts DEF Voice, Voices
  <2>2. heard[n] \in Seq(Voices) /\ Len(heard[n]) \in Nat /\ DOMAIN heard[n] = 1..Len(heard[n])
    BY <1>4, ReadingTypes
  <2>7. heard'[n] = heard[n] \/ heard'[n] = Append(heard[n], e)
    BY <1>5
  <2> HIDE DEF e
  <2>3. /\ Append(heard[n], e) \in Seq(Voices) /\ Len(Append(heard[n], e)) = Len(heard[n]) + 1
        /\ \A i \in 1..Len(heard[n]) : Append(heard[n], e)[i] = heard[n][i]
        /\ Append(heard[n], e)[Len(heard[n]) + 1] = e
    BY <2>1, <2>2, AppendProperties
  <2>4. DOMAIN Append(heard[n], e) = 1..(Len(heard[n]) + 1)
    BY <2>3, LenProperties
  <2>5. \A i \in 1..(Len(heard[n]) + 1) : i \in 1..Len(heard[n]) \/ i = Len(heard[n]) + 1
    BY <2>2
  <2>6. Len(heard[n]) + 1 \notin 1..Len(heard[n])
    BY <2>2
  <2> QED
    BY <2>7, <2>1, <2>2, <2>3, <2>4, <2>5, <2>6
<1>7. \A i \in DOMAIN heard'[n] : heard'[n][i].part \in Nat /\ heard'[n][i].part <= p
  <2>1. \A i \in DOMAIN heard[n] : heard[n][i].part \in Nat /\ heard[n][i].part < p
    BY <1>3, <1>4, ReadingTypes
  <2>2. \A i \in DOMAIN heard[n] : heard[n][i].part \in Nat /\ heard[n][i].part <= p
    BY <1>2, <2>1
  <2>3. p <= p
    BY <1>2
  <2> QED
    BY <1>2, <1>6, <2>2, <2>3
<1>8. JobsGoOn /\ ~Sends(w)'
  <2>1. PICK a \in {"closing", "returning"} : GoTo(w, a)
    BY DEF SendVoice, SendRaises
  <2>2. body'[w].at = a
    BY <1>1, <2>1 DEF BodiesFit, Bodies, GoTo
  <2> QED
    BY <1>1, <2>1, <2>2, GoToGoesOn DEF Sends
<1>9. SessionsGoOn
  <2>1. CASE UNCHANGED session \/ session' = FinishedIfSession(User(w), body[w].sid)
    BY <1>1, <1>2, <2>1, RepositoryGoesOn
  <2>2. CASE session' = Updated(User(w), [session[User(w)] EXCEPT
                            !.prefetch_task = next_id,
                            !.is_generating = @ /\ ~IsSame(User(w), body[w].sid)])
    <3>1. PICK k, b : k = next_id
                      /\ b = (session[User(w)].is_generating /\ ~IsSame(User(w), body[w].sid))
      OBVIOUS
    <3>2. session' = Updated(User(w), [session[User(w)] EXCEPT !.prefetch_task = k,
                                                               !.is_generating = b])
      BY <2>2, <3>1
    <3> HIDE <2>2
    <3> QED
      BY <1>1, <1>2, <3>2, RepositoryGoesOn
  <2> QED
    BY <2>1, <2>2 DEF SendVoice, SendRaises
<1>10. SessionsOwned'
  <2> SUFFICES ASSUME NEW u \in Users, session'[u].sid # 0
               PROVE  /\ session[u].sid \in 1..opened
                      /\ \A i \in DOMAIN heard'[session[u].sid] :
                            heard'[session[u].sid][i].part < session[u].index
                      /\ \A v \in Users : session'[v].sid = session[u].sid => v = u
    BY <1>1, <1>9 DEF SessionsOwned, SessionsGoOn, Below
  <2>1. session'[u].sid = session[u].sid
    BY <1>9 DEF SessionsGoOn
  <2>2. /\ session[u].sid \in 1..opened
        /\ \A i \in DOMAIN heard[session[u].sid] :
              heard[session[u].sid][i].part < session[u].index
        /\ \A v \in Users : session[v].sid = session[u].sid => v = u
    BY <2>1 DEF ReadingInv, SessionsOwned, Below
  <2>3. \A v \in Users : session'[v].sid = session[u].sid => v = u
    BY <1>9, <2>1, <2>2 DEF SessionsGoOn
  <2>4. CASE session[u].sid = n
    <3>1. session[u].index \in Nat /\ p < session[u].index
      BY <1>3, <2>4, ReadingTypes
    <3> QED
      BY <1>2, <1>7, <2>2, <2>3, <2>4, <3>1
  <2>5. CASE session[u].sid # n
    <3>1. session[u].sid \in 1..MaxSessions
      BY <2>2, ReadingTypes
    <3> QED
      BY <1>5, <2>2, <2>3, <2>5, <3>1
  <2> QED
    BY <2>4, <2>5
<1>11. JobsOwn'
  <2> SUFFICES ASSUME NEW v \in Workers, Sends(v)'
               PROVE  /\ body'[v].sid \in 1..opened
                      /\ \A i \in DOMAIN heard'[body'[v].sid] :
                            heard'[body'[v].sid][i].part < body'[v].part
                      /\ \A x \in Workers : Sends(x)' /\ body'[x].sid = body'[v].sid => x = v
                      /\ \A y \in Users : session'[y].sid = body'[v].sid =>
                            /\ y = User(v)
                            /\ body'[v].at = "sending" => body'[v].part < session'[y].index
    BY <1>1 DEF JobsOwn, Below, User
  <2>1. /\ Sends(v) /\ body'[v].sid = body[v].sid /\ body'[v].part = body[v].part
        /\ body'[v].at = "sending" => body[v].at = "sending"
        /\ v # w
    BY <1>8 DEF JobsGoOn
  <2>2. /\ body[v].sid \in 1..opened
        /\ \A i \in DOMAIN heard[body[v].sid] : heard[body[v].sid][i].part < body[v].part
    BY <2>1 DEF ReadingInv, JobsOwn, Below
  <2>3. body[v].sid # n /\ body[v].sid \in 1..MaxSessions /\ body[v].sid # 0
    BY <1>3, <2>1, <2>2, ReadingTypes
  <2>4. heard'[body[v].sid] = heard[body[v].sid]
    BY <1>5, <2>3
  <2>5. \A x \in Workers : Sends(x)' /\ body'[x].sid = body'[v].sid => x = v
    BY <1>8, <2>1 DEF JobsGoOn, ReadingInv, JobsOwn
  <2>6. \A y \in Users : session'[y].sid = body[v].sid =>
           session[y].sid = body[v].sid /\ session'[y].index = session[y].index
    BY <1>9, <2>3 DEF SessionsGoOn
  <2>7. \A y \in Users : session'[y].sid = body'[v].sid =>
           /\ y = User(v)
           /\ body'[v].at = "sending" => body'[v].part < session'[y].index
    BY <2>1, <2>6 DEF ReadingInv, JobsOwn
  <2> QED
    BY <2>1, <2>2, <2>4, <2>5, <2>7
<1>12. OpeningsFresh'
  <2> SUFFICES ASSUME NEW h \in Handlers, handler[h].at = "opening"
               PROVE  /\ handler[h].sid \in 1..opened
                      /\ heard'[handler[h].sid] = <<>>
                      /\ \A u \in Users : session'[u].sid # handler[h].sid
                      /\ \A v \in Workers : Sends(v)' => body'[v].sid # handler[h].sid
                      /\ \A k \in Handlers :
                            handler[k].at = "opening" /\ handler[k].sid = handler[h].sid => k = h
    BY <1>1 DEF OpeningsFresh
  <2>1. /\ handler[h].sid \in 1..opened /\ heard[handler[h].sid] = <<>>
        /\ \A u \in Users : session[u].sid # handler[h].sid
        /\ \A v \in Workers : Sends(v) => body[v].sid # handler[h].sid
        /\ \A k \in Handlers :
              handler[k].at = "opening" /\ handler[k].sid = handler[h].sid => k = h
    BY DEF ReadingInv, OpeningsFresh
  <2>2. handler[h].sid # 0 /\ handler[h].sid \in 1..MaxSessions /\ handler[h].sid # n
    BY <1>0, <1>1, <2>1, ReadingTypes
  <2> QED
    BY <1>5, <1>8, <1>9, <2>1, <2>2 DEF SessionsGoOn, JobsGoOn
<1>13. UnopenedSilent'
  BY <1>1, <1>3, <1>5, ReadingTypes DEF ReadingInv, UnopenedSilent
<1>14. PartsInOrder'
  <2>1. \A i, k \in DOMAIN heard'[n] : i < k => heard'[n][i].part < heard'[n][k].part
    <3> SUFFICES ASSUME NEW i \in DOMAIN heard'[n], NEW k \in DOMAIN heard'[n], i < k
                 PROVE  heard'[n][i].part < heard'[n][k].part
      OBVIOUS
    <3>1. Len(heard[n]) \in Nat /\ DOMAIN heard[n] = 1..Len(heard[n])
      BY <1>4, ReadingTypes
    <3>2. i \in DOMAIN heard[n] /\ heard'[n][i] = heard[n][i]
      BY <1>6, <3>1
    <3>3. CASE k \in DOMAIN heard[n] /\ heard'[n][k] = heard[n][k]
      BY <1>4, <1>5, <3>2, <3>3 DEF ReadingInv, PartsInOrder
    <3>4. CASE heard'[n][k].part = p
      BY <1>3, <3>2, <3>4
    <3> QED
      BY <1>6, <3>3, <3>4
  <2> QED
    BY <1>5, <2>1 DEF ReadingInv, PartsInOrder
<1> QED
  BY <1>10, <1>11, <1>12, <1>13, <1>14 DEF ReadingInv

\* Every step keeps a single owner of the parts of a session.
LEMMA ReadingStep == PipelineInv /\ ReadingInv /\ [PipelineNext]_allVars => ReadingInv'
<1> SUFFICES ASSUME PipelineInv, ReadingInv, [PipelineNext]_allVars PROVE ReadingInv'
  OBVIOUS
<1>1. ASSUME NEW u \in Users, RecoverStale(u) \/ Stop(u)
      PROVE  ReadingInv'
  BY <1>1, UsersKeepOrder
<1>2. ASSUME NEW h \in Handlers, NEW u \in Users, Open(h, u) \/ PressNext(h, u)
      PROVE  ReadingInv'
  BY <1>2, OpenKeepsOrder, PressKeepsOrder
<1>3. ASSUME NEW h \in Handlers, HandlerStep(h)
      PROVE  ReadingInv'
  BY <1>3, CreateKeepsOrder, HandlersKeepOrder DEF HandlerStep
<1>4. ASSUME NEW w \in Workers, WorkerTurn(w) \/ JobStep(w)
      PROVE  ReadingInv'
  BY <1>4, TurnKeepsOrder, JobsKeepOrder, AdvanceKeepsOrder, SendKeepsOrder DEF JobStep
<1>5. CASE UNCHANGED allVars
  <2>1. UNCHANGED <<session, handler, body, job, opened, heard>>
    BY <1>5 DEF allVars, pipelineVars, vars, workerVars
  <2>2. SessionsGoOn /\ JobsGoOn /\ HandlersGoOn
    BY <2>1 DEF SessionsGoOn, JobsGoOn, HandlersGoOn, Sends
  <2> QED
    BY <2>1, <2>2, GoOnKeepsOrder
<1> QED
  BY <1>1, <1>2, <1>3, <1>4, <1>5 DEF PipelineNext

\* Nobody owns a part in the beginning.
LEMMA ReadingInitially == PipelineInit => ReadingInv
<1> SUFFICES ASSUME PipelineInit PROVE ReadingInv
  OBVIOUS
<1>1. \A u \in Users : session[u].sid = 0
  BY DEF PipelineInit, NoSession
<1>2. \A w \in Workers : ~Sends(w)
  BY DEF PipelineInit, NoBody, Sends
<1>3. \A h \in Handlers : handler[h].at # "opening"
  BY DEF PipelineInit, IdleHandler
<1>4. \A s \in DOMAIN heard : heard[s] = <<>>
  BY DEF PipelineInit
<1>5. PartsInOrder
  BY <1>4 DEF PartsInOrder
<1>6. UnopenedSilent
  BY DEF PipelineInit, UnopenedSilent
<1> QED
  BY <1>1, <1>2, <1>3, <1>5, <1>6 DEF ReadingInv, SessionsOwned, JobsOwn, OpeningsFresh

\* The user hears the parts of a session in order and none twice, for any number of handlers,
\* workers, stale locks, parts and sessions.
THEOREM PartsInOrderHolds == PipelineSpec => []PartsInOrder
<1>1. PipelineInv /\ ReadingInv /\ [PipelineNext]_allVars => ReadingInv'
  BY ReadingStep
<1>2. ReadingInv => PartsInOrder
  BY DEF ReadingInv
<1> QED
  BY <1>1, <1>2, ReadingInitially, PipelineInvariant, PTL DEF PipelineSpec
------------------------------------------------------------------------------
\* The prefetched audio.

\* A job that may still use the prefetch task it began with, and one that has its audio.
Awaits(w) == body[w].at \in {"settings", "generating", "awaiting"}
Carries(w) == body[w].at \in {"resolved", "sending"}

\* Nobody was sent what prefetch job n made.
Unheard(n) == \A s \in DOMAIN heard : \A i \in DOMAIN heard[s] : heard[s][i].audio.prefetch # n

\* The task of a session was used by nobody, is shared with the user's own job only, and
\* when it was made for this session it is for the part at the index.
SessionTasks ==
    \A u \in Users : session[u].prefetch_task # 0 =>
        /\ session[u].sid # 0
        /\ Unheard(session[u].prefetch_task)
        /\ payload[session[u].prefetch_task].sid = session[u].sid
             => payload[session[u].prefetch_task].part = session[u].index
        /\ \A v \in Users : session[v].prefetch_task = session[u].prefetch_task => v = u
        /\ \A w \in Workers :
              /\ Awaits(w) /\ body[w].task = session[u].prefetch_task => User(w) = u
              /\ Carries(w) => body[w].audio.prefetch # session[u].prefetch_task

\* A job that awaits a task is the only one, and its session still has it.
AwaitedTasks ==
    \A w \in Workers : Awaits(w) =>
        /\ \A u \in Users :
              session[u].sid = body[w].sid => session[u].prefetch_task = body[w].task
        /\ body[w].task # 0 =>
              /\ Unheard(body[w].task)
              /\ payload[body[w].task].sid = body[w].sid
                   => payload[body[w].task].part = body[w].part
              /\ \A v \in Workers :
                    /\ Awaits(v) /\ body[v].task = body[w].task => v = w
                    /\ Carries(v) => body[v].audio.prefetch # body[w].task

\* A job that has its audio is the only one with it, and its session has no task any more;
\* while it sends, the index is that of the next part.
CarriedAudio ==
    \A w \in Workers : Carries(w) =>
        /\ body[w].audio.sid = body[w].sid => body[w].audio.part = body[w].part
        /\ \A u \in Users : session[u].sid = body[w].sid =>
              /\ session[u].prefetch_task = 0
              /\ body[w].at = "sending" => session[u].index = body[w].part + 1
        /\ body[w].audio.prefetch # 0 =>
              /\ body[w].audio.prefetch < next_id
              /\ Unheard(body[w].audio.prefetch)
              /\ \A v \in Workers :
                    Carries(v) /\ body[v].audio.prefetch = body[w].audio.prefetch => v = w

HeardKnown ==
    \A s \in DOMAIN heard : \A i \in DOMAIN heard[s] : heard[s][i].audio.prefetch < next_id

PrefetchInv ==
    /\ SessionTasks /\ AwaitedTasks /\ CarriedAudio
    /\ HeardKnown /\ PrefetchUsedOnce /\ PrefetchFitsPart

\* Sessions are forgotten or stay; jobs end or go on with what they have.
SessionsStay ==
    \A u \in Users :
        \/ session'[u].sid = 0 /\ session'[u].prefetch_task = 0
        \/ /\ session'[u].sid = session[u].sid /\ session'[u].index = session[u].index
           /\ session'[u].prefetch_task = session[u].prefetch_task
JobsStay ==
    \A w \in Workers :
        /\ Awaits(w)' => Awaits(w)
        /\ Carries(w)' => /\ Carries(w) /\ body'[w].audio = body[w].audio
                          /\ body'[w].at = "sending" => body[w].at = "sending"
        /\ Awaits(w)' \/ Carries(w)' =>
              /\ body'[w].sid = body[w].sid /\ body'[w].part = body[w].part
              /\ body'[w].task = body[w].task /\ job'[w].user = job[w].user

\* What was accepted stays accepted.
LoadsStay == next_id <= next_id' /\ \A n \in 1..(next_id - 1) : payload'[n] = payload[n]

\* What the invariant needs of the types.
LEMMA PrefetchTypes ==
    ASSUME PipelineInv, ReadingInv
    PROVE  /\ next_id \in Nat
           /\ \A u \in Users : session[u].prefetch_task \in 0..(next_id - 1)
           /\ \A w \in Workers : body[w].task \in 0..(next_id - 1)
           /\ \A w \in Workers : body[w].audio.prefetch \in Nat
           /\ \A w \in Workers : Awaits(w) \/ Carries(w) => Sends(w) /\ body[w].sid # 0
           /\ \A w \in Workers : ~(Awaits(w) /\ Carries(w))
           /\ \A s \in DOMAIN heard : \A i \in DOMAIN heard[s] :
                 heard[s][i].audio.prefetch \in Nat
<1>1. QueueInv /\ SessionsFit /\ BodiesFit /\ RestFits
  BY DEF PipelineInv, Fits
<1>2. next_id \in Nat /\ 0..MaxJobs \subseteq Nat
  BY <1>1, Numbers
<1>3. \A u \in Users : session[u].prefetch_task \in 0..(next_id - 1)
  BY <1>1, <1>2 DEF SessionsFit, Sessions
<1>4. \A w \in Workers : body[w].task \in 0..(next_id - 1) /\ body[w].audio.prefetch \in Nat
  BY <1>1, <1>2 DEF BodiesFit, Bodies, Audio
<1>5. \A w \in Workers : Awaits(w) \/ Carries(w) => Sends(w) /\ body[w].sid # 0
  <2>1. \A w \in Workers : Awaits(w) \/ Carries(w) => Sends(w)
    BY DEF Awaits, Carries, Sends
  <2>2. \A w \in Workers : Sends(w) => body[w].sid \in 1..opened
    BY DEF ReadingInv, JobsOwn
  <2> QED
    BY <2>1, <2>2, ReadingTypes
<1>6. \A w \in Workers : ~(Awaits(w) /\ Carries(w))
  BY DEF Awaits, Carries
<1>7. \A s \in DOMAIN heard : \A i \in DOMAIN heard[s] : heard[s][i].audio.prefetch \in Nat
  <2>1. \A s \in DOMAIN heard : heard[s] \in Seq(Voices)
    BY ReadingTypes
  <2>2. \A e \in Voices : e.audio.prefetch \in Nat
    BY <1>2 DEF Audio, Voices
  <2> QED
    BY <2>1, <2>2, LenProperties, ElementOfSeq
<1> QED
  BY <1>2, <1>3, <1>4, <1>5, <1>6, <1>7

\* A step after which nothing is new but accepted jobs.
LEMMA StayKeepsPrefetch ==
    ASSUME PipelineInv, ReadingInv, PrefetchInv, next_id' \in Nat,
           SessionsStay, JobsStay, LoadsStay, heard' = heard
    PROVE  PrefetchInv'
<1>1. \A n : Unheard(n)' <=> Unheard(n)
  BY DEF Unheard
<1>2. SessionTasks'
  <2> SUFFICES ASSUME NEW u \in Users, session'[u].prefetch_task # 0
               PROVE  LET t == session[u].prefetch_task
                      IN  /\ session[u].sid # 0
                          /\ \A s \in DOMAIN heard' : \A i \in DOMAIN heard'[s] :
                                heard'[s][i].audio.prefetch # t
                          /\ payload'[t].sid = session[u].sid
                               => payload'[t].part = session[u].index
                          /\ \A v \in Users : session'[v].prefetch_task = t => v = u
                          /\ \A w \in Workers :
                                /\ Awaits(w)' /\ body'[w].task = t => job'[w].user = u
                                /\ Carries(w)' => body'[w].audio.prefetch # t
    BY DEF SessionTasks, SessionsStay, Unheard, User
  <2> DEFINE t == session[u].prefetch_task
  <2>1. session'[u].prefetch_task = t /\ t # 0 /\ t \in 1..(next_id - 1)
    BY PrefetchTypes DEF SessionsStay
  <2>2. /\ session[u].sid # 0
        /\ \A s \in DOMAIN heard : \A i \in DOMAIN heard[s] : heard[s][i].audio.prefetch # t
        /\ payload[t].sid = session[u].sid => payload[t].part = session[u].index
        /\ \A v \in Users : session[v].prefetch_task = t => v = u
        /\ \A w \in Workers :
              /\ Awaits(w) /\ body[w].task = t => job[w].user = u
              /\ Carries(w) => body[w].audio.prefetch # t
    BY <2>1 DEF PrefetchInv, SessionTasks, Unheard, User
  <2>3. payload'[t] = payload[t]
    BY <2>1 DEF LoadsStay
  <2>4. \A v \in Users : session'[v].prefetch_task = t => v = u
    BY <2>1, <2>2 DEF SessionsStay
  <2>5. \A w \in Workers :
           /\ Awaits(w)' /\ body'[w].task = t => job'[w].user = u
           /\ Carries(w)' => body'[w].audio.prefetch # t
    BY <2>2 DEF JobsStay
  <2> HIDE DEF t
  <2> QED
    BY <2>2, <2>3, <2>4, <2>5 DEF t
<1>3. AwaitedTasks'
  <2> SUFFICES ASSUME NEW w \in Workers, Awaits(w)'
               PROVE  LET t == body[w].task
                      IN  /\ \A u \in Users :
                                session'[u].sid = body[w].sid => session'[u].prefetch_task = t
                          /\ t # 0 =>
                              /\ \A s \in DOMAIN heard' : \A i \in DOMAIN heard'[s] :
                                    heard'[s][i].audio.prefetch # t
                              /\ payload'[t].sid = body[w].sid => payload'[t].part = body[w].part
                              /\ \A v \in Workers :
                                    /\ Awaits(v)' /\ body'[v].task = t => v = w
                                    /\ Carries(v)' => body'[v].audio.prefetch # t
    BY DEF AwaitedTasks, JobsStay, Unheard
  <2> DEFINE t == body[w].task
  <2>1. Awaits(w) /\ body[w].sid # 0 /\ t \in 0..(next_id - 1)
    BY PrefetchTypes DEF JobsStay
  <2>2. /\ \A u \in Users : session[u].sid = body[w].sid => session[u].prefetch_task = t
        /\ t # 0 =>
              /\ \A s \in DOMAIN heard : \A i \in DOMAIN heard[s] : heard[s][i].audio.prefetch # t
              /\ payload[t].sid = body[w].sid => payload[t].part = body[w].part
              /\ \A v \in Workers :
                    /\ Awaits(v) /\ body[v].task = t => v = w
                    /\ Carries(v) => body[v].audio.prefetch # t
    BY <2>1 DEF PrefetchInv, AwaitedTasks, Unheard
  <2>3. t # 0 => payload'[t] = payload[t]
    <3>1. t # 0 => t \in 1..(next_id - 1)
      BY <2>1, PrefetchTypes
    <3> QED
      BY <3>1 DEF LoadsStay
  <2>4. \A u \in Users : session'[u].sid = body[w].sid => session'[u].prefetch_task = t
    BY <2>1, <2>2 DEF SessionsStay
  <2>5. t # 0 => \A v \in Workers :
           /\ Awaits(v)' /\ body'[v].task = t => v = w
           /\ Carries(v)' => body'[v].audio.prefetch # t
    BY <2>2 DEF JobsStay
  <2> HIDE DEF t
  <2> QED
    BY <2>2, <2>3, <2>4, <2>5 DEF t
<1>4. CarriedAudio'
  <2> SUFFICES ASSUME NEW w \in Workers, Carries(w)'
               PROVE  LET a == body[w].audio
                      IN  /\ a.sid = body[w].sid => a.part = body[w].part
                          /\ \A u \in Users : session'[u].sid = body[w].sid =>
                                /\ session'[u].prefetch_task = 0
                                /\ body'[w].at = "sending" => session'[u].index = body[w].part + 1
                          /\ a.prefetch # 0 =>
                                /\ a.prefetch < next_id'
                                /\ \A s \in DOMAIN heard' : \A i \in DOMAIN heard'[s] :
                                      heard'[s][i].audio.prefetch # a.prefetch
                                /\ \A v \in Workers :
                                      Carries(v)' /\ body'[v].audio.prefetch = a.prefetch => v = w
    BY DEF CarriedAudio, JobsStay, Unheard
  <2> DEFINE a == body[w].audio
  <2>1. Carries(w) /\ body[w].sid # 0 /\ body'[w].audio = a /\ a.prefetch \in Nat
        /\ (body'[w].at = "sending" => body[w].at = "sending")
    BY PrefetchTypes DEF JobsStay
  <2>2. /\ a.sid = body[w].sid => a.part = body[w].part
        /\ \A u \in Users : session[u].sid = body[w].sid =>
              /\ session[u].prefetch_task = 0
              /\ body[w].at = "sending" => session[u].index = body[w].part + 1
        /\ a.prefetch # 0 =>
              /\ a.prefetch < next_id
              /\ \A s \in DOMAIN heard : \A i \in DOMAIN heard[s] :
                    heard[s][i].audio.prefetch # a.prefetch
              /\ \A v \in Workers : Carries(v) /\ body[v].audio.prefetch = a.prefetch => v = w
    BY <2>1 DEF PrefetchInv, CarriedAudio, Unheard
  <2>3. \A u \in Users : session'[u].sid = body[w].sid =>
           /\ session'[u].prefetch_task = 0
           /\ body'[w].at = "sending" => session'[u].index = body[w].part + 1
    BY <2>1, <2>2 DEF SessionsStay
  <2>4. a.prefetch # 0 => a.prefetch < next_id'
    BY <2>1, <2>2, PrefetchTypes DEF LoadsStay
  <2>5. a.prefetch # 0 =>
           \A v \in Workers : Carries(v)' /\ body'[v].audio.prefetch = a.prefetch => v = w
    BY <2>2 DEF JobsStay
  <2> HIDE DEF a
  <2> QED
    BY <2>2, <2>3, <2>4, <2>5 DEF a
<1>5. HeardKnown'
  BY PrefetchTypes DEF PrefetchInv, HeardKnown, LoadsStay
<1>6. PrefetchUsedOnce' /\ PrefetchFitsPart'
  BY DEF PrefetchInv, PrefetchUsedOnce, PrefetchFitsPart
<1> QED
  BY <1>2, <1>3, <1>4, <1>5, <1>6 DEF PrefetchInv

\* Taking and releasing the lock, and cleaning up, leave the tasks of the sessions alone.
LEMMA RepositoryStays ==
    ASSUME SessionsFit, NEW u \in Users,
           \/ session' = session
           \/ session' = CleanedUp(u)
           \/ session' = GenerationFinished(u)
           \/ \E sid : session' = FinishedIfSession(u, sid)
           \/ session' = [session EXCEPT ![u].is_generating = TRUE]
    PROVE  SessionsStay
<1>1. session \in [Users -> Sessions] /\ session[u] \in Sessions
  BY DEF SessionsFit
<1>2. \A t \in Sessions, b \in BOOLEAN :
         LET r == [t EXCEPT !.is_generating = b]
         IN  r.sid = t.sid /\ r.index = t.index /\ r.prefetch_task = t.prefetch_task
  BY DEF Sessions
<1>3. \/ session' = session
      \/ \E r : /\ session' = [session EXCEPT ![u] = r]
                /\ \/ r.sid = 0 /\ r.prefetch_task = 0
                   \/ /\ r.sid = session[u].sid /\ r.index = session[u].index
                      /\ r.prefetch_task = session[u].prefetch_task
  <2>1. CASE session' = CleanedUp(u)
    <3>1. NoSession.sid = 0 /\ NoSession.prefetch_task = 0
      BY DEF NoSession
    <3> QED
      BY <2>1, <3>1 DEF CleanedUp
  <2>2. CASE session' = [session EXCEPT ![u].is_generating = TRUE]
    <3>1. session' = [session EXCEPT ![u] = [session[u] EXCEPT !.is_generating = TRUE]]
      BY <1>1, <2>2
    <3> QED
      BY <1>1, <1>2, <3>1
  <2>3. CASE session' = GenerationFinished(u) \/ \E sid : session' = FinishedIfSession(u, sid)
    <3>1. session' = session
          \/ session' = [session EXCEPT ![u] = [session[u] EXCEPT !.is_generating = FALSE]]
      BY <2>3 DEF GenerationFinished, FinishedIfSession, Updated
    <3> QED
      BY <1>1, <1>2, <3>1
  <2> QED
    BY <2>1, <2>2, <2>3
<1> QED
  BY <1>1, <1>3 DEF SessionsStay

\* A job that ends, or reads its settings, keeps what it has.
LEMMA GoToStays ==
    ASSUME BodiesFit, NEW w \in Workers, job' = job, NEW a, GoTo(w, a),
           a \in {"settings", "generating", "awaiting"} => Awaits(w),
           a \notin {"resolved", "sending"}
    PROVE  JobsStay
<1> DEFINE b == [body[w] EXCEPT !.at = a]
<1>1. body[w] \in Bodies /\ body \in [Workers -> Bodies]
  BY DEF BodiesFit
<1>2. b.at = a /\ b.sid = body[w].sid /\ b.part = body[w].part /\ b.task = body[w].task
  BY <1>1 DEF Bodies
<1>3. body' = [body EXCEPT ![w] = b]
  BY <1>1 DEF GoTo
<1> HIDE DEF b
<1>4. \A v \in Workers : body'[v] = IF v = w THEN b ELSE body[v]
  BY <1>1, <1>3
<1> QED
  BY <1>2, <1>4 DEF JobsStay, Awaits, Carries

\* The steps that neither start, use nor forget a prefetch task.
LEMMA QuietKeepsPrefetch ==
    ASSUME PipelineInv, ReadingInv, PrefetchInv,
           UNCHANGED <<body, job, payload, next_id, heard>>, SessionsStay
    PROVE  PrefetchInv'
<1>1. JobsStay
  BY DEF JobsStay, Awaits, Carries
<1>2. LoadsStay /\ next_id' \in Nat
  BY PrefetchTypes DEF LoadsStay
<1> QED
  BY <1>1, <1>2, StayKeepsPrefetch

\* Stale locks, "stop", a new document and "next" leave the tasks alone.
LEMMA UsersKeepPrefetch ==
    ASSUME PipelineInv, ReadingInv, PrefetchInv, NEW u \in Users,
           \/ RecoverStale(u) \/ Stop(u)
           \/ \E h \in Handlers : Open(h, u) \/ PressNext(h, u)
    PROVE  PrefetchInv'
<1>1. SessionsStay
  BY RepositoryStays DEF PipelineInv, Fits, RecoverStale, Stop, Open, PressNext
<1>2. UNCHANGED <<body, job, payload, next_id, heard>>
  BY DEF RecoverStale, Stop, Open, PressNext, vars, workerVars
<1> QED
  BY <1>1, <1>2, QuietKeepsPrefetch

\* So do the handlers that send, give up or raise.
LEMMA HandlersKeepPrefetch ==
    ASSUME PipelineInv, ReadingInv, PrefetchInv, NEW h \in Handlers,
           AbandonOpen(h) \/ SendChunk(h) \/ GiveUp(h) \/ HandlerRaises(h) \/ ReleaseLock(h)
    PROVE  PrefetchInv'
<1>1. handler[h].user \in Users
  BY HandlerUser DEF AbandonOpen, SendChunk, GiveUp, HandlerRaises, ReleaseLock
<1>2. SessionsStay
  BY <1>1, RepositoryStays
     DEF PipelineInv, Fits, AbandonOpen, SendChunk, GiveUp, HandlerRaises, ReleaseLock
<1>3. UNCHANGED <<body, job, payload, next_id, heard>>
  BY DEF AbandonOpen, SendChunk, GiveUp, HandlerRaises, ReleaseLock, vars, workerVars
<1> QED
  BY <1>2, <1>3, QuietKeepsPrefetch

\* Accepting a send_chunk job takes a new id and gives it to nobody.
LEMMA EnqueueKeepsPrefetch ==
    ASSUME PipelineInv, ReadingInv, PrefetchInv, NEW h \in Handlers, EnqueueChunk(h)
    PROVE  PrefetchInv'
<1>1. UNCHANGED <<session, body, heard>> /\ SessionsFit
  BY DEF EnqueueChunk, PipelineInv, Fits
<1>2. SessionsStay
  BY <1>1 DEF SessionsStay
<1>3. LoadsStay /\ next_id' \in Nat /\ job' = job
  <2>1. CASE Accept(handler[h].user, "user_visible", [sid |-> handler[h].sid, part |-> 0])
    <3>1. handler[h].user \in Users /\ handler[h].sid \in Sids
      BY HandlerUser DEF EnqueueChunk
    <3>2. [sid |-> handler[h].sid, part |-> 0] \in Loads /\ "user_visible" \in Priorities
      BY <3>1, Numbers DEF Loads, Priorities, PipelineInv
    <3>3. /\ next_id' = next_id + 1 /\ job' = job
          /\ \A n \in 1..(next_id - 1) : payload'[n] = payload[n]
      BY <2>1, <3>1, <3>2, AcceptFits DEF PipelineInv, Fits
    <3> QED
      BY <3>3, PrefetchTypes DEF LoadsStay
  <2>2. CASE UNCHANGED <<vars, payload>>
    BY <2>2, PrefetchTypes DEF LoadsStay, vars, workerVars
  <2> QED
    BY <2>1, <2>2 DEF EnqueueChunk
<1>4. JobsStay
  BY <1>1, <1>3 DEF JobsStay, Awaits, Carries
<1> QED
  BY <1>1, <1>2, <1>3, <1>4, StayKeepsPrefetch

\* A job that ends, or goes on waiting, keeps the tasks where they are.
LEMMA JobsKeepPrefetch ==
    ASSUME PipelineInv, ReadingInv, PrefetchInv, NEW w \in Workers,
           UNCHANGED <<job, payload, next_id, heard>>,
           session' = session \/ \E sid : session' = FinishedIfSession(User(w), sid),
           NEW a, GoTo(w, a), body[w].at # "none",
           a \in {"settings", "generating", "awaiting"} => Awaits(w),
           a \notin {"resolved", "sending"}
    PROVE  PrefetchInv'
<1>1. SessionsFit /\ BodiesFit /\ User(w) \in Users
  BY JobFacts
<1>2. SessionsStay
  BY <1>1, RepositoryStays
<1>3. JobsStay
  BY <1>1, GoToStays
<1>4. LoadsStay /\ next_id' \in Nat
  BY PrefetchTypes DEF LoadsStay
<1> QED
  BY <1>2, <1>3, <1>4, StayKeepsPrefetch

\* A new session has no task, and no job knows it.
LEMMA CreateKeepsPrefetch ==
    ASSUME PipelineInv, ReadingInv, PrefetchInv, NEW h \in Handlers, Create(h)
    PROVE  PrefetchInv'
<1>1. PICK u, n : u = handler[h].user /\ n = handler[h].sid
  OBVIOUS
<1>2. /\ SessionsFit /\ handler[h].at = "opening"
      /\ UNCHANGED <<heard, body, job, payload, next_id>>
  BY DEF PipelineInv, Fits, Create, vars, workerVars
<1>3. u \in Users
  BY <1>1, <1>2, HandlerUser
<1>4. /\ \A v \in Users : session[v].sid # n
      /\ \A w \in Workers : Sends(w) => body[w].sid # n
  BY <1>1, <1>2 DEF ReadingInv, OpeningsFresh
<1>5. PICK s : session' = [session EXCEPT ![u] = s] /\ s.sid = n /\ s.prefetch_task = 0
  <2> DEFINE s == [NoSession EXCEPT !.sid = n, !.is_generating = TRUE]
  <2>1. session' = [session EXCEPT ![u] = s]
    BY <1>1 DEF Create
  <2>2. s.sid = n /\ s.prefetch_task = 0
    BY DEF NoSession
  <2> HIDE DEF s
  <2> QED
    BY <2>1, <2>2
<1>6. \A v \in Users : session'[v] = IF v = u THEN s ELSE session[v]
  BY <1>2, <1>3, <1>5 DEF SessionsFit
<1>7. \A w \in Workers : (Awaits(w)' <=> Awaits(w)) /\ (Carries(w)' <=> Carries(w))
  BY <1>2 DEF Awaits, Carries
<1>8. \A w \in Workers : Awaits(w) \/ Carries(w) => body[w].sid # n
  BY <1>4, PrefetchTypes
<1>9. SessionTasks'
  <2>1. \A v \in Users : session'[v].prefetch_task # 0 => v # u /\ session'[v] = session[v]
    BY <1>5, <1>6
  <2> QED
    BY <1>2, <1>7, <2>1 DEF PrefetchInv, SessionTasks, Unheard, User
<1>10. AwaitedTasks'
  <2>1. \A w \in Workers, v \in Users : Awaits(w) /\ session'[v].sid = body[w].sid =>
           session'[v] = session[v]
    BY <1>5, <1>6, <1>8
  <2> QED
    BY <1>2, <1>7, <2>1 DEF PrefetchInv, AwaitedTasks, Unheard
<1>11. CarriedAudio'
  <2>1. \A w \in Workers, v \in Users : Carries(w) /\ session'[v].sid = body[w].sid =>
           session'[v] = session[v]
    BY <1>5, <1>6, <1>8
  <2> QED
    BY <1>2, <1>7, <2>1 DEF PrefetchInv, CarriedAudio, Unheard
<1>12. HeardKnown' /\ PrefetchUsedOnce' /\ PrefetchFitsPart'
  BY <1>2 DEF PrefetchInv, HeardKnown, PrefetchUsedOnce, PrefetchFitsPart
<1> QED
  BY <1>9, <1>10, <1>11, <1>12 DEF PrefetchInv

\* Two running jobs have two users.
LEMMA UsersDiffer ==
    ASSUME PipelineInv, NEW v \in Workers, NEW w \in Workers, v # w,
           body[v].at # "none", body[w].at # "none"
    PROVE  User(v) # User(w)
<1>1. QueueInv /\ BodiesFit
  BY DEF PipelineInv, Fits
<1>2. v \in Running /\ w \in Running
  BY JobFacts
<1> QED
  BY <1>1, <1>2 DEF QueueInv, OneJobPerUser, User

\* A job gets the audio of its part, and the task is forgotten.
LEMMA ResolveKeepsPrefetch ==
    ASSUME PipelineInv, ReadingInv, PrefetchInv, NEW w \in Workers, Awaits(w),
           UNCHANGED <<job, payload, next_id, heard>>, session' = TaskForgotten(w),
           NEW b, body' = [body EXCEPT ![w] = b],
           b.at = "resolved" /\ b.sid = body[w].sid /\ b.part = body[w].part,
           b.audio.sid = body[w].sid => b.audio.part = body[w].part,
           b.audio.prefetch # 0 => b.audio.prefetch = body[w].task
    PROVE  PrefetchInv'
<1>0. PICK u, n, p, t, a : /\ u = User(w) /\ n = body[w].sid
                           /\ p = body[w].part /\ t = body[w].task /\ a = b.audio
  OBVIOUS
<1>1. /\ SessionsFit /\ BodiesFit /\ body[w].at # "none" /\ u \in Users /\ Sends(w) /\ n # 0
      /\ t \in 0..(next_id - 1)
  BY <1>0, JobFacts, PrefetchTypes DEF Awaits, PipelineInv, Fits
<1>2. \A v \in Workers : body'[v] = IF v = w THEN b ELSE body[v]
  BY <1>1 DEF BodiesFit
<1>3. /\ body'[w].at = "resolved" /\ body'[w].audio = a /\ body'[w].sid = n /\ body'[w].part = p
      /\ \A v \in Workers \ {w} : body'[v] = body[v]
  BY <1>0, <1>2
<1>4. /\ ~Awaits(w)' /\ Carries(w)'
      /\ \A v \in Workers \ {w} : (Awaits(v)' <=> Awaits(v)) /\ (Carries(v)' <=> Carries(v))
  BY <1>3 DEF Awaits, Carries
<1>5. /\ \A y \in Users : session'[y].sid = session[y].sid /\ session'[y].index = session[y].index
      /\ \A y \in Users \ {u} : session'[y].prefetch_task = session[y].prefetch_task
      /\ t = 0 => session' = session
      /\ t # 0 /\ session[u].sid # 0 => session'[u].prefetch_task = 0
      /\ session'[u].prefetch_task \in {0, session[u].prefetch_task}
  <2>1. \A r \in Sessions : LET q == [r EXCEPT !.prefetch_task = 0]
                            IN  q.sid = r.sid /\ q.index = r.index /\ q.prefetch_task = 0
    BY DEF Sessions
  <2> DEFINE q == [session[u] EXCEPT !.prefetch_task = 0]
  <2>2. q.sid = session[u].sid /\ q.index = session[u].index /\ q.prefetch_task = 0
    BY <1>1, <2>1 DEF SessionsFit
  <2>3. session' = IF t = 0 \/ session[u].sid = 0 THEN session ELSE [session EXCEPT ![u] = q]
    BY <1>0 DEF TaskForgotten, Updated, Exists
  <2> HIDE DEF q
  <2> QED
    BY <1>1, <2>2, <2>3 DEF SessionsFit
<1>6. \A y \in Users : session[y].sid = n => y = u /\ session[y].prefetch_task = t
  BY <1>0, <1>1 DEF ReadingInv, JobsOwn, PrefetchInv, AwaitedTasks
<1>7. \A y \in Users : session'[y].prefetch_task # 0 =>
         /\ session'[y].prefetch_task = session[y].prefetch_task
         /\ session[y].prefetch_task # a.prefetch
  <2> SUFFICES ASSUME NEW y \in Users, session'[y].prefetch_task # 0
               PROVE  /\ session'[y].prefetch_task = session[y].prefetch_task
                      /\ session[y].prefetch_task # a.prefetch
    OBVIOUS
  <2>1. session'[y].prefetch_task = session[y].prefetch_task
    BY <1>5
  <2>2. CASE session[y].prefetch_task = a.prefetch
    <3>1. session[y].prefetch_task = t /\ t # 0
      BY <1>0, <2>1, <2>2
    <3>2. y = u /\ session[u].sid # 0
      BY <1>0, <3>1 DEF PrefetchInv, SessionTasks
    <3> QED
      BY <1>5, <3>1, <3>2
  <2> QED
    BY <2>1, <2>2
<1>8. SessionTasks'
  <2> SUFFICES ASSUME NEW y \in Users, session'[y].prefetch_task # 0
               PROVE  LET k == session[y].prefetch_task
                      IN  /\ session[y].sid # 0
                          /\ \A s \in DOMAIN heard : \A i \in DOMAIN heard[s] :
                                heard[s][i].audio.prefetch # k
                          /\ payload[k].sid = session[y].sid => payload[k].part = session[y].index
                          /\ \A v \in Users : session'[v].prefetch_task = k => v = y
                          /\ \A v \in Workers :
                                /\ Awaits(v)' /\ body'[v].task = k => job[v].user = y
                                /\ Carries(v)' => body'[v].audio.prefetch # k
    BY <1>5, <1>7 DEF SessionTasks, Unheard, User
  <2> DEFINE k == session[y].prefetch_task
  <2>1. k # 0 /\ k # a.prefetch /\ session'[y].prefetch_task = k
    BY <1>7
  <2>2. /\ session[y].sid # 0
        /\ \A s \in DOMAIN heard : \A i \in DOMAIN heard[s] : heard[s][i].audio.prefetch # k
        /\ payload[k].sid = session[y].sid => payload[k].part = session[y].index
        /\ \A v \in Users : session[v].prefetch_task = k => v = y
        /\ \A v \in Workers :
              /\ Awaits(v) /\ body[v].task = k => job[v].user = y
              /\ Carries(v) => body[v].audio.prefetch # k
    BY <2>1 DEF PrefetchInv, SessionTasks, Unheard, User
  <2>3. \A v \in Users : session'[v].prefetch_task = k => v = y
    BY <1>7, <2>1, <2>2
  <2> HIDE DEF k
  <2>4. \A v \in Workers :
           /\ Awaits(v)' /\ body'[v].task = k => job[v].user = y
           /\ Carries(v)' => body'[v].audio.prefetch # k
    BY <1>3, <1>4, <2>1, <2>2
  <2> QED
    BY <2>2, <2>3, <2>4 DEF k
<1>9. AwaitedTasks'
  <2> SUFFICES ASSUME NEW v \in Workers \ {w}, Awaits(v)
               PROVE  LET k == body[v].task
                      IN  /\ \A y \in Users :
                                session'[y].sid = body[v].sid => session'[y].prefetch_task = k
                          /\ k # 0 =>
                              /\ \A s \in DOMAIN heard : \A i \in DOMAIN heard[s] :
                                    heard[s][i].audio.prefetch # k
                              /\ payload[k].sid = body[v].sid => payload[k].part = body[v].part
                              /\ \A x \in Workers :
                                    /\ Awaits(x)' /\ body'[x].task = k => x = v
                                    /\ Carries(x)' => body'[x].audio.prefetch # k
    BY <1>3, <1>4 DEF AwaitedTasks, Unheard
  <2> DEFINE k == body[v].task
  <2>1. /\ \A y \in Users : session[y].sid = body[v].sid => session[y].prefetch_task = k
        /\ k # 0 =>
              /\ \A s \in DOMAIN heard : \A i \in DOMAIN heard[s] : heard[s][i].audio.prefetch # k
              /\ payload[k].sid = body[v].sid => payload[k].part = body[v].part
              /\ \A x \in Workers :
                    /\ Awaits(x) /\ body[x].task = k => x = v
                    /\ Carries(x) => body[x].audio.prefetch # k
    BY DEF PrefetchInv, AwaitedTasks, Unheard
  <2>2. \A y \in Users : session'[y].sid = body[v].sid => session'[y].prefetch_task = k
    <3> SUFFICES ASSUME NEW y \in Users, session[y].sid = body[v].sid
                 PROVE  session'[y].prefetch_task = k
      BY <1>5
    <3>1. y = User(v)
      BY PrefetchTypes DEF ReadingInv, JobsOwn
    <3>2. body[v].at # "none"
      BY DEF Awaits
    <3>3. y # u
      BY <1>0, <1>1, <3>1, <3>2, UsersDiffer
    <3> QED
      BY <1>5, <2>1, <3>3
  <2>3. k # 0 => \A x \in Workers :
           /\ Awaits(x)' /\ body'[x].task = k => x = v
           /\ Carries(x)' => body'[x].audio.prefetch # k
    <3>1. k # 0 => k # a.prefetch
      BY <1>0, <1>1, <2>1
    <3> HIDE DEF k
    <3> QED
      BY <1>3, <1>4, <2>1, <3>1
  <2> HIDE DEF k
  <2> QED
    BY <2>1, <2>2, <2>3 DEF k
<1>10. CarriedAudio'
  <2>1. ASSUME NEW v \in Workers \ {w}, Carries(v)
        PROVE  LET c == body[v].audio
               IN  /\ c.sid = body[v].sid => c.part = body[v].part
                   /\ \A y \in Users : session'[y].sid = body[v].sid =>
                         /\ session'[y].prefetch_task = 0
                         /\ body[v].at = "sending" => session'[y].index = body[v].part + 1
                   /\ c.prefetch # 0 =>
                         /\ c.prefetch < next_id
                         /\ \A s \in DOMAIN heard : \A i \in DOMAIN heard[s] :
                               heard[s][i].audio.prefetch # c.prefetch
                         /\ \A x \in Workers :
                               Carries(x)' /\ body'[x].audio.prefetch = c.prefetch => x = v
    <3>1. LET c == body[v].audio
          IN  /\ c.sid = body[v].sid => c.part = body[v].part
              /\ \A y \in Users : session[y].sid = body[v].sid =>
                    /\ session[y].prefetch_task = 0
                    /\ body[v].at = "sending" => session[y].index = body[v].part + 1
              /\ c.prefetch # 0 =>
                    /\ c.prefetch < next_id
                    /\ \A s \in DOMAIN heard : \A i \in DOMAIN heard[s] :
                          heard[s][i].audio.prefetch # c.prefetch
                    /\ \A x \in Workers :
                          Carries(x) /\ body[x].audio.prefetch = c.prefetch => x = v
      BY <2>1 DEF PrefetchInv, CarriedAudio, Unheard
    <3>2. a.prefetch # 0 => body[v].audio.prefetch # a.prefetch
      BY <1>0, <2>1 DEF PrefetchInv, AwaitedTasks
    <3> QED
      BY <1>3, <1>4, <1>5, <3>1, <3>2
  <2>2. /\ a.sid = n => a.part = p
        /\ \A y \in Users : session'[y].sid = n => session'[y].prefetch_task = 0
        /\ a.prefetch # 0 =>
              /\ a.prefetch < next_id
              /\ \A s \in DOMAIN heard : \A i \in DOMAIN heard[s] :
                    heard[s][i].audio.prefetch # a.prefetch
              /\ \A x \in Workers : Carries(x)' /\ body'[x].audio.prefetch = a.prefetch => x = w
    <3>1. \A y \in Users : session'[y].sid = n => session'[y].prefetch_task = 0
      BY <1>1, <1>5, <1>6
    <3>2. a.prefetch # 0 =>
              /\ a.prefetch < next_id
              /\ \A s \in DOMAIN heard : \A i \in DOMAIN heard[s] :
                    heard[s][i].audio.prefetch # a.prefetch
              /\ \A x \in Workers : Carries(x) => body[x].audio.prefetch # a.prefetch
      BY <1>0, <1>1, PrefetchTypes DEF PrefetchInv, AwaitedTasks, Unheard
    <3> QED
      BY <1>0, <1>3, <1>4, <3>1, <3>2
  <2> QED
    BY <1>3, <1>4, <2>1, <2>2 DEF CarriedAudio, Unheard
<1>11. HeardKnown' /\ PrefetchUsedOnce' /\ PrefetchFitsPart'
  BY DEF PrefetchInv, HeardKnown, PrefetchUsedOnce, PrefetchFitsPart
<1> QED
  BY <1>8, <1>9, <1>10, <1>11 DEF PrefetchInv

\* The two ways to the audio: generated, or made by the prefetch job.
LEMMA ResolvedKeepsPrefetch ==
    ASSUME PipelineInv, ReadingInv, PrefetchInv, NEW w \in Workers, Awaits(w),
           UNCHANGED <<job, payload, next_id, heard>>, session' = TaskForgotten(w),
           NEW a, body' = [body EXCEPT ![w].at = "resolved", ![w].audio = a],
           a.sid = body[w].sid => a.part = body[w].part,
           a.prefetch # 0 => a.prefetch = body[w].task
    PROVE  PrefetchInv'
<1> DEFINE b == [body[w] EXCEPT !.at = "resolved", !.audio = a]
<1>1. body[w] \in Bodies /\ body \in [Workers -> Bodies]
  BY DEF PipelineInv, Fits, BodiesFit
<1>2. b.at = "resolved" /\ b.audio = a /\ b.sid = body[w].sid /\ b.part = body[w].part
  BY <1>1 DEF Bodies
<1>3. body' = [body EXCEPT ![w] = b]
  BY <1>1
<1> HIDE DEF b
<1>4. (b.audio.sid = body[w].sid => b.audio.part = body[w].part)
      /\ (b.audio.prefetch # 0 => b.audio.prefetch = body[w].task)
  BY <1>2
<1> QED
  BY <1>2, <1>3, <1>4, ResolveKeepsPrefetch

\* A job that generates, or is given the prefetched audio, is the only one to have it.
LEMMA GenerateKeepsPrefetch ==
    ASSUME PipelineInv, ReadingInv, PrefetchInv, NEW w \in Workers, Generate(w) \/ AwaitPrefetch(w)
    PROVE  PrefetchInv'
<1>1. UNCHANGED <<job, payload, next_id, heard>> /\ Awaits(w) /\ body[w].at # "none"
  BY DEF Generate, AwaitPrefetch, Awaits, vars, workerVars
<1>2. body[w].sid # 0
  BY <1>1, PrefetchTypes
<1>3. ASSUME NEW a \in {"closing", "generating"}, GoTo(w, a), UNCHANGED session
      PROVE  PrefetchInv'
  BY <1>1, <1>3, JobsKeepPrefetch
<1>4. ASSUME NEW a, body' = [body EXCEPT ![w].at = "resolved", ![w].audio = a],
             session' = TaskForgotten(w),
             a.sid = body[w].sid => a.part = body[w].part,
             a.prefetch # 0 => a.prefetch = body[w].task
      PROVE  PrefetchInv'
  BY <1>1, <1>4, ResolvedKeepsPrefetch
<1>5. NoAudio.sid = 0 /\ NoAudio.prefetch = 0
  BY DEF NoAudio
<1>6. CASE Generate(w)
  <2>1. CASE GoTo(w, "closing") /\ UNCHANGED session
    BY <1>3, <2>1
  <2>2. ASSUME NEW a \in {NoAudio, [sid |-> body[w].sid, part |-> body[w].part, prefetch |-> 0]},
               body' = [body EXCEPT ![w].at = "resolved", ![w].audio = a],
               session' = TaskForgotten(w)
        PROVE  PrefetchInv'
    <3>1. (a.sid = body[w].sid => a.part = body[w].part) /\ a.prefetch = 0
      BY <1>2, <1>5
    <3> QED
      BY <1>4, <2>2, <3>1
  <2> QED
    BY <1>6, <2>1, <2>2 DEF Generate
<1>7. CASE AwaitPrefetch(w)
  <2>1. CASE GoTo(w, "generating") /\ UNCHANGED session
    BY <1>3, <2>1
  <2>2. PICK n : n = body[w].task
    OBVIOUS
  <2>3. ASSUME NEW a \in {NoAudio, [sid |-> payload[n].sid, part |-> payload[n].part, prefetch |-> n]},
               body' = [body EXCEPT ![w].at = "resolved", ![w].audio = a],
               session' = TaskForgotten(w)
        PROVE  PrefetchInv'
    <3>1. body[w].task # 0
      BY <1>7 DEF AwaitPrefetch, PipelineInv, Fits, BodiesFit
    <3>2. payload[n].sid = body[w].sid => payload[n].part = body[w].part
      BY <1>1, <2>2, <3>1 DEF PrefetchInv, AwaitedTasks
    <3>3. (a.sid = body[w].sid => a.part = body[w].part) /\ (a.prefetch # 0 => a.prefetch = n)
      BY <1>2, <1>5, <3>2
    <3> QED
      BY <1>4, <2>2, <2>3, <3>3
  <2>4. \/ GoTo(w, "generating") /\ UNCHANGED session
        \/ /\ body' = [body EXCEPT ![w].at = "resolved",
                                   ![w].audio = IF future[n] = "empty" THEN NoAudio
                                                ELSE [sid |-> payload[n].sid,
                                                      part |-> payload[n].part,
                                                      prefetch |-> n]]
           /\ session' = TaskForgotten(w)
    BY <1>7, <2>2 DEF AwaitPrefetch
  <2>5. PICK a : a = IF future[n] = "empty" THEN NoAudio
                     ELSE [sid |-> payload[n].sid, part |-> payload[n].part, prefetch |-> n]
    OBVIOUS
  <2>6. a \in {NoAudio, [sid |-> payload[n].sid, part |-> payload[n].part, prefetch |-> n]}
    BY <2>5
  <2>7. \/ GoTo(w, "generating") /\ UNCHANGED session
        \/ /\ body' = [body EXCEPT ![w].at = "resolved", ![w].audio = a]
           /\ session' = TaskForgotten(w)
    BY <2>4, <2>5
  <2> QED
    BY <2>1, <2>3, <2>6, <2>7
<1> QED
  BY <1>6, <1>7

\* The index that moves on is that of a session without a task.
LEMMA AdvanceKeepsPrefetch ==
    ASSUME PipelineInv, ReadingInv, PrefetchInv, NEW w \in Workers, Advance(w)
    PROVE  PrefetchInv'
<1>1. /\ UNCHANGED <<job, payload, next_id, heard>> /\ body[w].at = "resolved"
      /\ Sends(w) /\ Carries(w)
  BY DEF Advance, vars, workerVars, Sends, Carries
<1>2. CASE UNCHANGED session /\ (GoTo(w, "closing") \/ GoTo(w, "returning"))
  BY <1>1, <1>2, JobsKeepPrefetch
<1>3. CASE IsSame(User(w), body[w].sid) /\ GoTo(w, "sending")
           /\ session' = [session EXCEPT ![User(w)].index = body[w].part + 1]
  <2>1. PICK u, n, p : u = User(w) /\ n = body[w].sid /\ p = body[w].part
    OBVIOUS
  <2>2. /\ SessionsFit /\ BodiesFit /\ u \in Users /\ session[u].sid = n
        /\ body[w] \in Bodies
    BY <1>1, <1>3, <2>1, JobFacts DEF IsSame, PipelineInv, Fits
  <2>3. \A y \in Users : /\ session'[y].sid = session[y].sid
                         /\ session'[y].prefetch_task = session[y].prefetch_task
                         /\ session'[y].index = IF y = u THEN p + 1 ELSE session[y].index
    <3>1. [session[u] EXCEPT !.index = p + 1].sid = session[u].sid
          /\ [session[u] EXCEPT !.index = p + 1].index = p + 1
          /\ [session[u] EXCEPT !.index = p + 1].prefetch_task = session[u].prefetch_task
      BY <2>2 DEF SessionsFit, Sessions
    <3>2. session' = [session EXCEPT ![u] = [session[u] EXCEPT !.index = p + 1]]
      BY <1>3, <2>1
    <3> HIDE <1>3
    <3> QED
      BY <2>2, <3>1, <3>2 DEF SessionsFit
  <2>4. \A v \in Workers : /\ body'[v].sid = body[v].sid /\ body'[v].part = body[v].part
                           /\ body'[v].task = body[v].task /\ body'[v].audio = body[v].audio
                           /\ body'[v].at = IF v = w THEN "sending" ELSE body[v].at
    <3>1. [body[w] EXCEPT !.at = "sending"].at = "sending"
          /\ [body[w] EXCEPT !.at = "sending"].sid = body[w].sid
          /\ [body[w] EXCEPT !.at = "sending"].part = body[w].part
          /\ [body[w] EXCEPT !.at = "sending"].task = body[w].task
          /\ [body[w] EXCEPT !.at = "sending"].audio = body[w].audio
      BY <2>2 DEF Bodies
    <3>2. body' = [body EXCEPT ![w] = [body[w] EXCEPT !.at = "sending"]]
      BY <1>3 DEF GoTo
    <3> QED
      BY <2>2, <3>1, <3>2 DEF BodiesFit
  <2>5. \A v \in Workers : (Awaits(v)' <=> Awaits(v)) /\ (Carries(v)' <=> Carries(v))
    BY <1>1, <2>4 DEF Awaits, Carries
  <2>6. session[u].prefetch_task = 0
    BY <1>1, <2>1, <2>2 DEF PrefetchInv, CarriedAudio
  <2>7. SessionTasks'
    <3>1. \A y \in Users : session'[y].prefetch_task # 0 => session'[y].index = session[y].index
      BY <2>3, <2>6
    <3> HIDE <1>3
    <3> QED
      BY <1>1, <2>3, <2>4, <2>5, <3>1 DEF PrefetchInv, SessionTasks, Unheard, User
  <2>8. AwaitedTasks'
    <3> HIDE <1>3
    <3> QED
      BY <1>1, <2>3, <2>4, <2>5 DEF PrefetchInv, AwaitedTasks, Unheard
  <2>9. CarriedAudio'
    <3>1. ASSUME NEW v \in Workers, Carries(v), NEW y \in Users, session[y].sid = body[v].sid,
                 body'[v].at = "sending"
          PROVE  session'[y].index = body[v].part + 1
      <4>1. Sends(v) /\ y = User(v)
        BY <3>1, PrefetchTypes DEF ReadingInv, JobsOwn
      <4>2. CASE v = w
        BY <2>1, <2>3, <4>1, <4>2
      <4>3. CASE v # w
        <5>1. y # u
          BY <1>1, <2>1, <2>2, <3>1, <4>1, <4>3 DEF ReadingInv, JobsOwn
        <5> QED
          BY <2>3, <2>4, <3>1, <4>3, <5>1 DEF PrefetchInv, CarriedAudio
      <4> QED
        BY <4>2, <4>3
    <3> HIDE <1>3
    <3> QED
      BY <1>1, <2>3, <2>4, <2>5, <3>1 DEF PrefetchInv, CarriedAudio, Unheard
  <2>10. HeardKnown' /\ PrefetchUsedOnce' /\ PrefetchFitsPart'
    BY <1>1 DEF PrefetchInv, HeardKnown, PrefetchUsedOnce, PrefetchFitsPart
  <2> QED
    BY <2>7, <2>8, <2>9, <2>10 DEF PrefetchInv
<1> QED
  BY <1>2, <1>3 DEF Advance

\* A job that starts takes over the task of its session.
LEMMA TurnKeepsPrefetch ==
    ASSUME PipelineInv, ReadingInv, PrefetchInv, NEW w \in Workers, WorkerTurn(w)
    PROVE  PrefetchInv'
<1>0. PICK b : b = StartOf(job'[w])
  OBVIOUS
<1>1. QueueInv /\ SessionsFit /\ BodiesFit /\ LoadsFit
  BY DEF PipelineInv, Fits
<1>2. Turn(w)
  BY DEF WorkerTurn, Turn
<1>3. /\ QueueInv' /\ next_id' = next_id
      /\ job' \in [Workers -> Job \cup {NoJob}]
      /\ \A v \in Workers \ {w} : job'[v] = job[v]
  BY <1>1, <1>2, TurnJob
<1>4. UNCHANGED <<payload, heard>>
  BY DEF WorkerTurn
<1>5. \A v \in Workers : body'[v] = IF v = w THEN b ELSE body[v]
  BY <1>0, <1>1 DEF WorkerTurn, BodiesFit
<1>6. \A v \in Workers \ {w} : (Awaits(v)' <=> Awaits(v)) /\ (Carries(v)' <=> Carries(v))
  BY <1>5 DEF Awaits, Carries
<1>7. CASE b.at \notin {"settings", "generating", "awaiting", "resolved", "sending"}
  <2>1. ~Awaits(w)' /\ ~Carries(w)'
    BY <1>5, <1>7 DEF Awaits, Carries
  <2>2. JobsStay
    BY <1>3, <1>5, <1>6, <2>1 DEF JobsStay
  <2>3. SessionsStay
    <3>1. CASE IsExhausted(job'[w])
      <4>1. job'[w].user \in Users
        BY <1>1, <1>3, <3>1, NextJobFits DEF IsExhausted
      <4>2. session' = CleanedUp(job'[w].user)
        BY <3>1 DEF WorkerTurn
      <4> QED
        BY <1>1, <4>1, <4>2, RepositoryStays
    <3>2. CASE ~IsExhausted(job'[w])
      BY <3>2 DEF WorkerTurn, SessionsStay
    <3> QED
      BY <3>1, <3>2
  <2>4. LoadsStay /\ next_id' \in Nat
    BY <1>3, <1>4, PrefetchTypes DEF LoadsStay
  <2> QED
    BY <1>4, <2>2, <2>3, <2>4, StayKeepsPrefetch
<1>8. CASE b.at \in {"settings", "generating", "awaiting", "resolved", "sending"}
  <2>1. job'[w] # NoJob
    BY <1>0, <1>8 DEF StartOf, NoBody
  <2>2. PICK u \in Users : u = job'[w].user
    BY <1>1, <1>3, <2>1, NextJobFits
  <2>3. /\ b.at = "settings" /\ session[u].sid # 0
        /\ b.sid = session[u].sid /\ b.part = session[u].index /\ b.part < Parts
    <3>1. job'[w] \in Job /\ payload[job'[w].id] \in Loads
      BY <1>1, <1>3, <2>1, NextJobFits
    <3>2. b.at = "settings" /\ IsSame(u, payload[job'[w].id].sid)
          /\ b.sid = session[u].sid /\ b.part = session[u].index /\ b.part < Parts
      BY <1>0, <1>1, <1>8, <2>2, <3>1, StartFits
    <3> QED
      BY <3>2 DEF IsSame, Exists
  <2>4. b.task = session[u].prefetch_task
    <3>1. job'[w] \in Job /\ payload[job'[w].id] \in Loads
      BY <1>1, <1>3, <2>1, NextJobFits
    <3> QED
      BY <1>0, <1>1, <1>8, <2>2, <3>1, StartFits
  <2>5. session' = session
    <3>1. ~IsExhausted(job'[w])
      BY <1>1, <2>2, <2>3, Numbers, ReadingTypes DEF IsExhausted
    <3> QED
      BY <3>1 DEF WorkerTurn
  <2>6. \A v \in Workers \ {w} : Awaits(v) \/ Carries(v) => User(v) # u
    <3> SUFFICES ASSUME NEW v \in Workers \ {w}, Awaits(v) \/ Carries(v)
                 PROVE  User(v) # u
      OBVIOUS
    <3>1. job[v] # NoJob
      BY <1>1 DEF BodiesFit, Awaits, Carries
    <3>2. v \in Running' /\ w \in Running'
      BY <1>3, <2>1, <3>1 DEF QueueInv, TypeOK, Running
    <3>3. job'[v].user # job'[w].user
      BY <1>3, <3>2 DEF QueueInv, OneJobPerUser
    <3> QED
      BY <1>3, <2>2, <3>3 DEF User
  <2>7. Awaits(w)' /\ ~Carries(w)'
    BY <1>5, <2>3 DEF Awaits, Carries
  <2>8. \A y \in Users : session[y].sid = b.sid => y = u
    BY <2>2, <2>3 DEF ReadingInv, SessionsOwned
  <2>9. b.task # 0 =>
           /\ Unheard(b.task)
           /\ payload[b.task].sid = b.sid => payload[b.task].part = b.part
           /\ \A y \in Users : session[y].prefetch_task = b.task => y = u
           /\ \A v \in Workers \ {w} :
                 /\ Awaits(v) => body[v].task # b.task
                 /\ Carries(v) => body[v].audio.prefetch # b.task
    BY <2>3, <2>4, <2>6 DEF PrefetchInv, SessionTasks
  <2>10. SessionTasks'
    <3> SUFFICES ASSUME NEW y \in Users, session[y].prefetch_task # 0
                 PROVE  LET k == session[y].prefetch_task
                        IN  /\ session[y].sid # 0
                            /\ \A s \in DOMAIN heard : \A i \in DOMAIN heard[s] :
                                  heard[s][i].audio.prefetch # k
                            /\ payload[k].sid = session[y].sid => payload[k].part = session[y].index
                            /\ \A v \in Users : session[v].prefetch_task = k => v = y
                            /\ \A v \in Workers :
                                  /\ Awaits(v)' /\ body'[v].task = k => job'[v].user = y
                                  /\ Carries(v)' => body'[v].audio.prefetch # k
      BY <1>4, <2>5 DEF SessionTasks, Unheard, User
    <3> DEFINE k == session[y].prefetch_task
    <3>1. /\ session[y].sid # 0
          /\ \A s \in DOMAIN heard : \A i \in DOMAIN heard[s] : heard[s][i].audio.prefetch # k
          /\ payload[k].sid = session[y].sid => payload[k].part = session[y].index
          /\ \A v \in Users : session[v].prefetch_task = k => v = y
          /\ \A v \in Workers :
                /\ Awaits(v) /\ body[v].task = k => job[v].user = y
                /\ Carries(v) => body[v].audio.prefetch # k
      BY DEF PrefetchInv, SessionTasks, Unheard, User
    <3>2. b.task = k => y = u
      BY <2>9
    <3> HIDE DEF k
    <3>3. \A v \in Workers :
             /\ Awaits(v)' /\ body'[v].task = k => job'[v].user = y
             /\ Carries(v)' => body'[v].audio.prefetch # k
      BY <1>3, <1>5, <1>6, <2>2, <2>7, <3>1, <3>2
    <3> QED
      BY <3>1, <3>3 DEF k
  <2>11. AwaitedTasks'
    <3>1. ASSUME NEW v \in Workers \ {w}, Awaits(v)
          PROVE  LET k == body[v].task
                 IN  /\ \A y \in Users :
                           session[y].sid = body[v].sid => session[y].prefetch_task = k
                     /\ k # 0 =>
                         /\ \A s \in DOMAIN heard : \A i \in DOMAIN heard[s] :
                               heard[s][i].audio.prefetch # k
                         /\ payload[k].sid = body[v].sid => payload[k].part = body[v].part
                         /\ \A x \in Workers :
                               /\ Awaits(x)' /\ body'[x].task = k => x = v
                               /\ Carries(x)' => body'[x].audio.prefetch # k
      <4> DEFINE k == body[v].task
      <4>1. /\ \A y \in Users : session[y].sid = body[v].sid => session[y].prefetch_task = k
            /\ k # 0 =>
                /\ \A s \in DOMAIN heard : \A i \in DOMAIN heard[s] :
                      heard[s][i].audio.prefetch # k
                /\ payload[k].sid = body[v].sid => payload[k].part = body[v].part
                /\ \A x \in Workers :
                      /\ Awaits(x) /\ body[x].task = k => x = v
                      /\ Carries(x) => body[x].audio.prefetch # k
        BY <3>1 DEF PrefetchInv, AwaitedTasks, Unheard
      <4>2. k # 0 => b.task # k
        BY <2>9, <3>1
      <4> HIDE DEF k
      <4>3. k # 0 => \A x \in Workers :
               /\ Awaits(x)' /\ body'[x].task = k => x = v
               /\ Carries(x)' => body'[x].audio.prefetch # k
        BY <1>5, <1>6, <2>7, <4>1, <4>2
      <4> QED
        BY <4>1, <4>3 DEF k
    <3>2. /\ \A y \in Users : session[y].sid = b.sid => session[y].prefetch_task = b.task
          /\ b.task # 0 =>
                /\ \A s \in DOMAIN heard : \A i \in DOMAIN heard[s] :
                      heard[s][i].audio.prefetch # b.task
                /\ payload[b.task].sid = b.sid => payload[b.task].part = b.part
                /\ \A x \in Workers :
                      /\ Awaits(x)' /\ body'[x].task = b.task => x = w
                      /\ Carries(x)' => body'[x].audio.prefetch # b.task
      BY <1>5, <1>6, <2>4, <2>7, <2>8, <2>9 DEF Unheard
    <3> QED
      BY <1>4, <1>5, <1>6, <2>5, <3>1, <3>2 DEF AwaitedTasks, Unheard
  <2>12. CarriedAudio'
    BY <1>3, <1>4, <1>5, <1>6, <2>5, <2>7 DEF PrefetchInv, CarriedAudio, Unheard
  <2>13. HeardKnown' /\ PrefetchUsedOnce' /\ PrefetchFitsPart'
    BY <1>3, <1>4 DEF PrefetchInv, HeardKnown, PrefetchUsedOnce, PrefetchFitsPart
  <2> QED
    BY <2>10, <2>11, <2>12, <2>13 DEF PrefetchInv
<1> QED
  BY <1>7, <1>8

\* The voice is sent, or not: the job that carried the audio ends, and the session may have
\* the task of the next part.
LEMMA SentKeepsPrefetch ==
    ASSUME PipelineInv, ReadingInv, PrefetchInv, NEW w \in Workers, body[w].at = "sending",
           NEW u \in Users, u = User(w), job' = job,
           MaybeHeard(w), ~Awaits(w)', ~Carries(w)',
           \A v \in Workers \ {w} : body'[v] = body[v],
           LoadsStay, next_id' \in Nat,
           \A y \in Users \ {u} : session'[y] = session[y],
           session'[u].sid = session[u].sid, session'[u].index = session[u].index,
           session'[u].prefetch_task # session[u].prefetch_task =>
              /\ session'[u].prefetch_task = next_id /\ next_id < next_id'
              /\ session[u].sid # 0
              /\ payload'[next_id] = NextPrefetch(w)
    PROVE  PrefetchInv'
<1>0. PICK n, p, a : n = body[w].sid /\ p = body[w].part /\ a = body[w].audio
  OBVIOUS
<1>1. /\ Sends(w) /\ Carries(w) /\ body[w].at # "none"
      /\ \A v \in Workers \ {w} : (Awaits(v)' <=> Awaits(v)) /\ (Carries(v)' <=> Carries(v))
  BY DEF Sends, Awaits, Carries
<1>2. n \in 1..MaxSessions /\ a.prefetch \in Nat /\ next_id \in Nat \ {0} /\ next_id <= next_id'
  <2>1. n \in 1..opened
    BY <1>0, <1>1 DEF ReadingInv, JobsOwn
  <2>2. next_id \in Nat \ {0}
    BY Numbers DEF PipelineInv
  <2> QED
    BY <1>0, <2>1, <2>2, ReadingTypes, PrefetchTypes DEF LoadsStay
<1>3. /\ a.sid = n => a.part = p
      /\ \A y \in Users : session[y].sid = n =>
            session[y].prefetch_task = 0 /\ session[y].index = p + 1
      /\ a.prefetch # 0 =>
            /\ a.prefetch < next_id
            /\ \A s \in DOMAIN heard : \A i \in DOMAIN heard[s] :
                  heard[s][i].audio.prefetch # a.prefetch
            /\ \A v \in Workers : Carries(v) /\ body[v].audio.prefetch = a.prefetch => v = w
  BY <1>0, <1>1 DEF PrefetchInv, CarriedAudio, Unheard
<1>17. PICK tries \in 1..SendAttempts :
          /\ \A s \in 1..MaxSessions : s # n => heard'[s] = heard[s]
          /\ heard'[n] = heard[n] \/ heard'[n] = Append(heard[n], Voice(w, tries))
          /\ DOMAIN heard' = DOMAIN heard /\ DOMAIN heard = 1..MaxSessions
  BY <1>0, <1>2, HeardGrows, ReadingTypes
<1>18. PICK e : e = Voice(w, tries)
  OBVIOUS
<1>4. /\ \A s \in 1..MaxSessions : s # n => heard'[s] = heard[s]
      /\ heard'[n] = heard[n] \/ heard'[n] = Append(heard[n], e)
      /\ DOMAIN heard' = DOMAIN heard /\ DOMAIN heard = 1..MaxSessions
  BY <1>17, <1>18
\* An entry is an old one, or the last of this session.
<1>5. \A s \in DOMAIN heard' : \A i \in DOMAIN heard'[s] :
         \/ i \in DOMAIN heard[s] /\ heard'[s][i] = heard[s][i]
         \/ s = n /\ i = Len(heard[n]) + 1 /\ heard'[s][i] = e
  <2> SUFFICES ASSUME heard'[n] = Append(heard[n], e)
               PROVE  \A i \in DOMAIN heard'[n] :
                         \/ i \in DOMAIN heard[n] /\ heard'[n][i] = heard[n][i]
                         \/ i = Len(heard[n]) + 1 /\ heard'[n][i] = e
    BY <1>4
  <2>1. e \in Voices
    BY <1>1, <1>18, JobFacts DEF Voice, Voices
  <2>2. heard[n] \in Seq(Voices) /\ Len(heard[n]) \in Nat /\ DOMAIN heard[n] = 1..Len(heard[n])
    BY <1>2, ReadingTypes
  <2>3. /\ Append(heard[n], e) \in Seq(Voices) /\ Len(Append(heard[n], e)) = Len(heard[n]) + 1
        /\ \A i \in 1..Len(heard[n]) : Append(heard[n], e)[i] = heard[n][i]
        /\ Append(heard[n], e)[Len(heard[n]) + 1] = e
    BY <2>1, <2>2, AppendProperties
  <2>4. DOMAIN Append(heard[n], e) = 1..(Len(heard[n]) + 1)
    BY <2>3, LenProperties
  <2>5. \A i \in 1..(Len(heard[n]) + 1) : i \in 1..Len(heard[n]) \/ i = Len(heard[n]) + 1
    BY <2>2
  <2> QED
    BY <2>2, <2>3, <2>4, <2>5
<1>6. e.audio = a /\ e.part = p
  BY <1>0, <1>18 DEF Voice
<1>7. \A k : /\ k # a.prefetch
             /\ \A s \in DOMAIN heard : \A i \in DOMAIN heard[s] : heard[s][i].audio.prefetch # k
             => \A s \in DOMAIN heard' : \A i \in DOMAIN heard'[s] :
                   heard'[s][i].audio.prefetch # k
  BY <1>4, <1>5, <1>6
<1>8. \A v \in Workers \ {w} : Awaits(v) \/ Carries(v) =>
         /\ Sends(v)
         /\ \A y \in Users : session'[y].sid = body[v].sid =>
               /\ session[y].sid = body[v].sid
               /\ session'[y] = session[y]
  <2> SUFFICES ASSUME NEW v \in Workers \ {w}, Awaits(v) \/ Carries(v),
                      NEW y \in Users, session'[y].sid = body[v].sid
               PROVE  y # u
    BY PrefetchTypes
  <2>1. Sends(v) /\ session[y].sid = body[v].sid /\ body[v].at # "none"
    BY PrefetchTypes DEF Awaits, Carries
  <2>2. y = User(v)
    BY <2>1 DEF ReadingInv, JobsOwn
  <2> QED
    BY <1>1, <2>1, <2>2, UsersDiffer
<1>9. \A s \in DOMAIN heard : \A i \in DOMAIN heard[s] :
         heard[s][i].audio.prefetch < next_id /\ heard[s][i].audio.prefetch \in Nat
  BY PrefetchTypes DEF PrefetchInv, HeardKnown
<1>10. a.prefetch < next_id
  BY <1>2, <1>3
<1>11. SessionTasks'
  <2> SUFFICES ASSUME NEW y \in Users, session'[y].prefetch_task # 0
               PROVE  LET k == session'[y].prefetch_task
                      IN  /\ session[y].sid # 0
                          /\ \A s \in DOMAIN heard' : \A i \in DOMAIN heard'[s] :
                                heard'[s][i].audio.prefetch # k
                          /\ payload'[k].sid = session[y].sid => payload'[k].part = session[y].index
                          /\ \A v \in Users : session'[v].prefetch_task = k => v = y
                          /\ \A v \in Workers \ {w} :
                                /\ Awaits(v) /\ body[v].task = k => job[v].user = y
                                /\ Carries(v) => body[v].audio.prefetch # k
    BY <1>1 DEF SessionTasks, Unheard, User
  <2>0. PICK k : k = session'[y].prefetch_task
    OBVIOUS
  <2>1. CASE k = session[y].prefetch_task
    <3>1. k \in 1..(next_id - 1)
      BY <2>0, <2>1, PrefetchTypes
    <3>2. /\ session[y].sid # 0
          /\ \A s \in DOMAIN heard : \A i \in DOMAIN heard[s] : heard[s][i].audio.prefetch # k
          /\ payload[k].sid = session[y].sid => payload[k].part = session[y].index
          /\ \A v \in Users : session[v].prefetch_task = k => v = y
          /\ \A v \in Workers :
                /\ Awaits(v) /\ body[v].task = k => job[v].user = y
                /\ Carries(v) => body[v].audio.prefetch # k
      BY <2>0, <2>1 DEF PrefetchInv, SessionTasks, Unheard, User
    <3>3. k # a.prefetch
      BY <1>0, <1>1, <3>2
    <3>4. payload'[k] = payload[k]
      BY <3>1 DEF LoadsStay
    <3>5. \A v \in Users : session'[v].prefetch_task = k => v = y
      <4>1. session'[u].prefetch_task = k => session[u].prefetch_task = k
        BY <1>2, <3>1
      <4> QED
        BY <3>2, <4>1
    <3> QED
      BY <1>7, <2>0, <3>2, <3>3, <3>4, <3>5
  <2>2. CASE k # session[y].prefetch_task
    <3>1. /\ y = u /\ k = next_id /\ session[u].sid # 0
          /\ payload'[k] = NextPrefetch(w)
      BY <2>0, <2>2
    <3>2. \A s \in DOMAIN heard : \A i \in DOMAIN heard[s] : heard[s][i].audio.prefetch # k
      BY <1>2, <1>9, <3>1
    <3>3. k # a.prefetch
      BY <1>2, <1>10, <3>1
    <3>4. payload'[k].sid = session[y].sid => payload'[k].part = session[y].index
      BY <1>0, <1>3, <3>1 DEF NextPrefetch
    <3>5. \A v \in Users \ {u} : session'[v].prefetch_task # k
      BY <1>2, <3>1, PrefetchTypes
    <3>6. \A v \in Workers \ {w} :
             /\ Awaits(v) => body[v].task # k
             /\ Carries(v) => body[v].audio.prefetch # k
      <4>1. \A v \in Workers : body[v].task # k
        BY <1>2, <3>1, PrefetchTypes
      <4>2. \A v \in Workers : Carries(v) /\ body[v].audio.prefetch # 0 =>
               body[v].audio.prefetch < next_id
        BY DEF PrefetchInv, CarriedAudio
      <4>3. \A v \in Workers : Carries(v) => body[v].audio.prefetch # k
        BY <1>2, <3>1, <4>2, PrefetchTypes
      <4> QED
        BY <4>1, <4>3
    <3> QED
      BY <1>7, <2>0, <3>1, <3>2, <3>3, <3>4, <3>5, <3>6
  <2> QED
    BY <2>1, <2>2
<1>12. AwaitedTasks'
  <2> SUFFICES ASSUME NEW v \in Workers \ {w}, Awaits(v)
               PROVE  LET k == body[v].task
                      IN  /\ \A y \in Users :
                                session'[y].sid = body[v].sid => session'[y].prefetch_task = k
                          /\ k # 0 =>
                              /\ \A s \in DOMAIN heard' : \A i \in DOMAIN heard'[s] :
                                    heard'[s][i].audio.prefetch # k
                              /\ payload'[k].sid = body[v].sid => payload'[k].part = body[v].part
                              /\ \A x \in Workers \ {w} :
                                    /\ Awaits(x) /\ body[x].task = k => x = v
                                    /\ Carries(x) => body[x].audio.prefetch # k
    BY <1>1 DEF AwaitedTasks, Unheard
  <2>0. PICK k : k = body[v].task
    OBVIOUS
  <2>1. /\ \A y \in Users : session[y].sid = body[v].sid => session[y].prefetch_task = k
        /\ k # 0 =>
              /\ \A s \in DOMAIN heard : \A i \in DOMAIN heard[s] : heard[s][i].audio.prefetch # k
              /\ payload[k].sid = body[v].sid => payload[k].part = body[v].part
              /\ \A x \in Workers :
                    /\ Awaits(x) /\ body[x].task = k => x = v
                    /\ Carries(x) => body[x].audio.prefetch # k
    BY <2>0 DEF PrefetchInv, AwaitedTasks, Unheard
  <2>2. \A y \in Users : session'[y].sid = body[v].sid => session'[y].prefetch_task = k
    BY <1>8, <2>1
  <2>3. k # 0 => payload'[k] = payload[k]
    <3>1. k # 0 => k \in 1..(next_id - 1)
      BY <2>0, PrefetchTypes
    <3> QED
      BY <3>1 DEF LoadsStay
  <2>4. k # 0 => k # a.prefetch
    BY <1>0, <1>1, <2>1
  <2> QED
    BY <1>7, <2>0, <2>1, <2>2, <2>3, <2>4
<1>13. CarriedAudio'
  <2> SUFFICES ASSUME NEW v \in Workers \ {w}, Carries(v)
               PROVE  LET c == body[v].audio
                      IN  /\ c.sid = body[v].sid => c.part = body[v].part
                          /\ \A y \in Users : session'[y].sid = body[v].sid =>
                                /\ session'[y].prefetch_task = 0
                                /\ body[v].at = "sending" => session'[y].index = body[v].part + 1
                          /\ c.prefetch # 0 =>
                                /\ c.prefetch < next_id'
                                /\ \A s \in DOMAIN heard' : \A i \in DOMAIN heard'[s] :
                                      heard'[s][i].audio.prefetch # c.prefetch
                                /\ \A x \in Workers \ {w} :
                                      Carries(x) /\ body[x].audio.prefetch = c.prefetch => x = v
    BY <1>1 DEF CarriedAudio, Unheard
  <2>0. PICK c : c = body[v].audio
    OBVIOUS
  <2>1. /\ c.sid = body[v].sid => c.part = body[v].part
        /\ \A y \in Users : session[y].sid = body[v].sid =>
              /\ session[y].prefetch_task = 0
              /\ body[v].at = "sending" => session[y].index = body[v].part + 1
        /\ c.prefetch # 0 =>
              /\ c.prefetch < next_id
              /\ \A s \in DOMAIN heard : \A i \in DOMAIN heard[s] :
                    heard[s][i].audio.prefetch # c.prefetch
              /\ \A x \in Workers : Carries(x) /\ body[x].audio.prefetch = c.prefetch => x = v
    BY <2>0 DEF PrefetchInv, CarriedAudio, Unheard
  <2>2. c.prefetch # 0 => c.prefetch # a.prefetch /\ c.prefetch < next_id'
    <3>1. c.prefetch \in Nat
      BY <2>0, PrefetchTypes
    <3> QED
      BY <1>0, <1>1, <1>2, <2>1, <3>1
  <2>3. \A y \in Users : session'[y].sid = body[v].sid =>
           /\ session'[y].prefetch_task = 0
           /\ body[v].at = "sending" => session'[y].index = body[v].part + 1
    BY <1>8, <2>1
  <2> QED
    BY <1>7, <2>0, <2>1, <2>2, <2>3
<1>14. HeardKnown'
  <2> SUFFICES ASSUME NEW s \in DOMAIN heard', NEW i \in DOMAIN heard'[s]
               PROVE  heard'[s][i].audio.prefetch < next_id'
    BY DEF HeardKnown
  <2>1. CASE i \in DOMAIN heard[s] /\ heard'[s][i] = heard[s][i]
    <3>1. /\ heard[s][i].audio.prefetch < next_id
          /\ heard[s][i].audio.prefetch \in Nat
      BY <1>4, <1>9, <2>1
    <3> QED
      BY <1>2, <2>1, <3>1
  <2>2. CASE heard'[s][i] = e
    BY <1>2, <1>6, <1>10, <2>2
  <2> QED
    BY <1>5, <2>1, <2>2
<1>15. PrefetchFitsPart'
  BY <1>3, <1>4, <1>5, <1>6 DEF PrefetchInv, PrefetchFitsPart
<1>16. PrefetchUsedOnce'
  BY <1>3, <1>4, <1>5, <1>6 DEF PrefetchInv, PrefetchUsedOnce
<1> QED
  BY <1>11, <1>12, <1>13, <1>14, <1>15, <1>16 DEF PrefetchInv

\* Sending, with the prefetch of the next part or without it, is such a step.
LEMMA SendKeepsPrefetch ==
    ASSUME PipelineInv, ReadingInv, PrefetchInv, NEW w \in Workers, SendVoice(w) \/ SendRaises(w)
    PROVE  PrefetchInv'
<1>0. PICK u : u = User(w)
  OBVIOUS
<1>1. body[w].at = "sending" /\ body[w].at # "none" /\ MaybeHeard(w)
  BY DEF SendVoice, SendRaises
<1>2. /\ QueueInv /\ SessionsFit /\ BodiesFit /\ LoadsFit /\ u \in Users
      /\ body[w].part \in 0..Parts /\ body[w].sid \in Sids /\ body[w].at = "sending"
      /\ body[w].part < Parts
  <2>1. Sends(w)
    BY <1>1 DEF Sends
  <2> QED
    BY <1>0, <1>1, <2>1, JobFacts
<1>3. PICK a \in {"closing", "returning"} : GoTo(w, a)
  BY DEF SendVoice, SendRaises
<1>4. /\ ~Awaits(w)' /\ ~Carries(w)'
      /\ \A v \in Workers \ {w} : body'[v] = body[v]
  <2> DEFINE b == [body[w] EXCEPT !.at = a]
  <2>1. b.at = a
    BY <1>2 DEF BodiesFit, Bodies
  <2>2. body' = [body EXCEPT ![w] = b]
    BY <1>2, <1>3 DEF BodiesFit, GoTo
  <2> HIDE DEF b
  <2>3. \A v \in Workers : body'[v] = IF v = w THEN b ELSE body[v]
    BY <1>2, <2>2 DEF BodiesFit
  <2> QED
    BY <1>3, <2>1, <2>3 DEF Awaits, Carries
<1>5. next_id \in Nat
  BY PrefetchTypes
<1>6. CASE UNCHANGED <<job, payload, next_id>> /\
           (UNCHANGED session \/ session' = FinishedIfSession(u, body[w].sid))
  <2>1. LoadsStay /\ next_id' \in Nat
    BY <1>5, <1>6 DEF LoadsStay
  <2>2. \A r \in Sessions : LET q == [r EXCEPT !.is_generating = FALSE]
                            IN  /\ q.sid = r.sid /\ q.index = r.index
                                /\ q.prefetch_task = r.prefetch_task
    BY DEF Sessions
  <2> DEFINE q == [session[u] EXCEPT !.is_generating = FALSE]
  <2>3. /\ q.sid = session[u].sid /\ q.index = session[u].index
        /\ q.prefetch_task = session[u].prefetch_task
    BY <1>2, <2>2 DEF SessionsFit
  <2>4. session' = session \/ session' = [session EXCEPT ![u] = q]
    BY <1>6 DEF FinishedIfSession, GenerationFinished, Updated
  <2> HIDE DEF q
  <2>5. /\ \A y \in Users \ {u} : session'[y] = session[y]
        /\ session'[u].sid = session[u].sid /\ session'[u].index = session[u].index
        /\ session'[u].prefetch_task = session[u].prefetch_task
    BY <1>2, <2>3, <2>4 DEF SessionsFit
  <2> QED
    BY <1>0, <1>1, <1>2, <1>4, <1>6, <2>1, <2>5, SentKeepsPrefetch
<1>7. CASE /\ body[w].part + 1 < Parts
           /\ Accept(u, "prefetch", NextPrefetch(w))
           /\ \E b : session' = Updated(u, [session[u] EXCEPT !.prefetch_task = next_id,
                                                              !.is_generating = b])
  <2>1. PICK b : session' = Updated(u, [session[u] EXCEPT !.prefetch_task = next_id,
                                                          !.is_generating = b])
    BY <1>7
  <2>2. NextPrefetch(w) \in Loads
    <3>1. body[w].part + 1 \in 0..Parts
      BY <1>2, <1>7, Numbers
    <3> QED
      BY <1>2, <3>1 DEF NextPrefetch, Loads
  <2>3. /\ next_id' = next_id + 1 /\ job' = job
        /\ \A n \in 1..(next_id - 1) : payload'[n] = payload[n]
    BY <1>2, <1>7, <2>2, AcceptFits DEF Priorities
  <2>4. payload'[next_id] = NextPrefetch(w)
    <3>1. payload \in Seq(Loads) /\ Len(payload) + 1 = next_id
      BY <1>2 DEF LoadsFit
    <3>2. payload' = Append(payload, NextPrefetch(w))
      BY <1>7 DEF Accept
    <3> QED
      BY <2>2, <3>1, <3>2, AppendProperties
  <2>5. \A r \in Sessions : \A k :
           LET q == [r EXCEPT !.prefetch_task = k, !.is_generating = b]
           IN  q.sid = r.sid /\ q.index = r.index /\ q.prefetch_task = k
    BY DEF Sessions
  <2> DEFINE q == [session[u] EXCEPT !.prefetch_task = next_id, !.is_generating = b]
  <2>6. q.sid = session[u].sid /\ q.index = session[u].index /\ q.prefetch_task = next_id
    BY <1>2, <2>5 DEF SessionsFit
  <2>7. session' = IF session[u].sid # 0 THEN [session EXCEPT ![u] = q] ELSE session
    BY <2>1 DEF Updated, Exists
  <2> HIDE DEF q
  <2>8. /\ \A y \in Users \ {u} : session'[y] = session[y]
        /\ session'[u].sid = session[u].sid /\ session'[u].index = session[u].index
        /\ session'[u].prefetch_task # session[u].prefetch_task =>
              session'[u].prefetch_task = next_id /\ session[u].sid # 0
    BY <1>2, <2>6, <2>7 DEF SessionsFit
  <2>9. LoadsStay /\ next_id' \in Nat /\ next_id < next_id'
    BY <1>5, <2>3 DEF LoadsStay
  <2> HIDE <1>7, <2>1
  <2> QED
    BY <1>0, <1>1, <1>2, <1>4, <2>3, <2>4, <2>8, <2>9, SentKeepsPrefetch
<1>8. CASE SendRaises(w)
  <2>1. UNCHANGED <<job, payload, next_id>> /\ UNCHANGED session
    BY <1>8 DEF SendRaises, vars, workerVars
  <2> QED
    BY <1>6, <2>1
<1>9. CASE SendVoice(w)
  <2>1. \/ UNCHANGED <<vars, payload>> /\
           (UNCHANGED session \/ session' = FinishedIfSession(u, body[w].sid))
        \/ /\ body[w].part + 1 < Parts
           /\ Accept(u, "prefetch", NextPrefetch(w))
           /\ session' = Updated(u, [session[u] EXCEPT
                            !.prefetch_task = next_id,
                            !.is_generating = @ /\ ~IsSame(u, body[w].sid)])
    BY <1>0, <1>9 DEF SendVoice
  <2>2. PICK b : b = (session[u].is_generating /\ ~IsSame(u, body[w].sid))
    OBVIOUS
  <2>3. \/ UNCHANGED <<job, payload, next_id>> /\
           (UNCHANGED session \/ session' = FinishedIfSession(u, body[w].sid))
        \/ /\ body[w].part + 1 < Parts
           /\ Accept(u, "prefetch", NextPrefetch(w))
           /\ session' = Updated(u, [session[u] EXCEPT !.prefetch_task = next_id,
                                                       !.is_generating = b])
    BY <2>1, <2>2 DEF vars, workerVars
  <2> QED
    BY <1>6, <1>7, <2>3
<1> QED
  BY <1>8, <1>9

\* The jobs' other steps end the job, or leave what it has alone.
LEMMA JobsEndKeepPrefetch ==
    ASSUME PipelineInv, ReadingInv, PrefetchInv, NEW w \in Workers,
           Leave(w) \/ ReadSettings(w) \/ EndJob(w) \/ Prefetch(w)
    PROVE  PrefetchInv'
<1>1. UNCHANGED <<job, payload, next_id, heard>> /\ body[w].at # "none"
  BY DEF Leave, ReadSettings, EndJob, Prefetch, vars, workerVars
<1>2. session' = session \/ \E sid : session' = FinishedIfSession(User(w), sid)
  BY DEF Leave, ReadSettings, EndJob, Prefetch
<1>3. \E a : /\ GoTo(w, a)
             /\ a \in {"settings", "generating", "awaiting"} => Awaits(w)
             /\ a \notin {"resolved", "sending"}
  <2>1. CASE Leave(w) \/ EndJob(w) \/ Prefetch(w)
    <3>1. GoTo(w, "returning")
      BY <2>1 DEF Leave, EndJob, Prefetch
    <3> QED
      BY <3>1
  <2>2. CASE ReadSettings(w)
    <3>1. Awaits(w)
      BY <2>2 DEF ReadSettings, Awaits
    <3>2. GoTo(w, "generating") \/ GoTo(w, "awaiting") \/ GoTo(w, "returning")
      BY <2>2 DEF ReadSettings
    <3> QED
      BY <3>1, <3>2
  <2> QED
    BY <2>1, <2>2
<1> QED
  BY <1>1, <1>2, <1>3, JobsKeepPrefetch

\* Every step keeps a single holder of what a prefetch job makes.
LEMMA PrefetchStep ==
    PipelineInv /\ ReadingInv /\ PrefetchInv /\ [PipelineNext]_allVars => PrefetchInv'
<1> SUFFICES ASSUME PipelineInv, ReadingInv, PrefetchInv, [PipelineNext]_allVars
             PROVE  PrefetchInv'
  OBVIOUS
<1>1. ASSUME NEW u \in Users, RecoverStale(u) \/ Stop(u)
      PROVE  PrefetchInv'
  BY <1>1, UsersKeepPrefetch
<1>2. ASSUME NEW h \in Handlers, NEW u \in Users, Open(h, u) \/ PressNext(h, u)
      PROVE  PrefetchInv'
  BY <1>2, UsersKeepPrefetch
<1>3. ASSUME NEW h \in Handlers, HandlerStep(h)
      PROVE  PrefetchInv'
  BY <1>3, CreateKeepsPrefetch, HandlersKeepPrefetch, EnqueueKeepsPrefetch DEF HandlerStep
<1>4. ASSUME NEW w \in Workers, WorkerTurn(w) \/ JobStep(w)
      PROVE  PrefetchInv'
  BY <1>4, TurnKeepsPrefetch, GenerateKeepsPrefetch, AdvanceKeepsPrefetch, SendKeepsPrefetch,
     JobsEndKeepPrefetch DEF JobStep
<1>5. CASE UNCHANGED allVars
  <2>1. UNCHANGED <<body, job, payload, next_id, heard, session>>
    BY <1>5 DEF allVars, pipelineVars, vars, workerVars
  <2> QED
    BY <2>1, QuietKeepsPrefetch DEF SessionsStay
<1> QED
  BY <1>1, <1>2, <1>3, <1>4, <1>5 DEF PipelineNext

\* There are no tasks in the beginning.
LEMMA PrefetchInitially == PipelineInit => PrefetchInv
<1> SUFFICES ASSUME PipelineInit PROVE PrefetchInv
  OBVIOUS
<1>1. \A u \in Users : session[u].prefetch_task = 0
  BY DEF PipelineInit, NoSession
<1>2. \A w \in Workers : ~Awaits(w) /\ ~Carries(w)
  BY DEF PipelineInit, NoBody, Awaits, Carries
<1>3. \A s \in DOMAIN heard : DOMAIN heard[s] = {}
  BY DEF PipelineInit
<1> QED
  BY <1>1, <1>2, <1>3
     DEF PrefetchInv, SessionTasks, AwaitedTasks, CarriedAudio, HeardKnown, PrefetchUsedOnce,
         PrefetchFitsPart

\* The three invariants together.
LEMMA PrefetchInvariant == PipelineSpec => [](PipelineInv /\ ReadingInv /\ PrefetchInv)
<1>1. PipelineInv /\ ReadingInv /\ PrefetchInv /\ [PipelineNext]_allVars
        => PipelineInv' /\ ReadingInv' /\ PrefetchInv'
  BY PipelineStep, ReadingStep, PrefetchStep
<1>2. PipelineInit => PipelineInv /\ ReadingInv /\ PrefetchInv
  BY PipelineInitially, ReadingInitially, PrefetchInitially
<1> QED
  BY <1>1, <1>2, PTL DEF PipelineSpec

\* The audio of a prefetch job is sent at most once, whatever sessions are stopped, replaced or
\* found stale meanwhile.
THEOREM PrefetchUsedOnceHolds == PipelineSpec => []PrefetchUsedOnce
<1>1. PrefetchInv => PrefetchUsedOnce
  BY DEF PrefetchInv
<1> QED
  BY <1>1, PrefetchInvariant, PTL

\* Audio prefetched for a session is sent as the part it was made for, although the job that
\* sends it compares nothing.
THEOREM PrefetchFitsPartHolds == PipelineSpec => []PrefetchFitsPart
<1>1. PrefetchInv => PrefetchFitsPart
  BY DEF PrefetchInv
<1> QED
  BY <1>1, PrefetchInvariant, PTL

------------------------------------------------------------------------------
(* Who still has to release a generation lock.                             *)

HoldingStages == {"settings", "generating", "awaiting", "resolved", "sending", "closing"}

HandlerHolds(h, u, s) == IsBusyHandler(h, u) /\ handler[h].sid = s
JobHolds(j, u, s) == j.user = u /\ j.priority = "user_visible" /\ payload[j.id].sid = s
BodyHolds(w, u, s) == body[w].at \in HoldingStages /\ User(w) = u /\ body[w].sid = s

\* A handler of the session, a job of it that waits, one that runs, or one that raised.
Held(u, s) ==
    \/ \E h \in Handlers : HandlerHolds(h, u, s)
    \/ \E j \in WaitingJobs : JobHolds(j, u, s)
    \/ \E w \in Workers : BodyHolds(w, u, s)
    \/ s \in crashed

LocksHeld == \A u \in Users : session[u].is_generating =>
                session[u].sid # 0 /\ Held(u, session[u].sid)

\* A running send_chunk job works for the session that it was enqueued for.
BodiesTied == \A w \in Workers : body[w].at \in HoldingStages =>
                 job[w].priority = "user_visible" /\ payload[job[w].id].sid = body[w].sid

OpeningsNumbered == \A h \in Handlers : handler[h].at = "opening" => handler[h].sid # 0

HolderInv == LocksHeld /\ BodiesTied

\* A session that is being opened has a number.
LEMMA OpeningsAreNumbered ==
    ASSUME PipelineInv, ReadingInv
    PROVE  OpeningsNumbered
<1>1. opened \in Nat
  BY Numbers DEF PipelineInv, Fits, RestFits, Sids
<1> QED
  BY <1>1 DEF ReadingInv, OpeningsFresh, OpeningsNumbered

\* What was locked stays held, or is locked by a step that holds it.
LEMMA LocksHeldOn ==
    ASSUME LocksHeld,
           \A u \in Users : session'[u].is_generating =>
              \/ session'[u].sid # 0 /\ Held(u, session[u].sid)'
              \/ /\ session[u].is_generating /\ session'[u].sid = session[u].sid
                 /\ Held(u, session[u].sid) => Held(u, session[u].sid)'
    PROVE  LocksHeld'
  BY DEF LocksHeld

\* A handler's step disturbs no other handler and no job.
LEMMA OthersHold ==
    ASSUME NEW h \in Handlers, UNCHANGED <<vars, body, payload>>, crashed \subseteq crashed',
           \A g \in Handlers : g # h => handler'[g] = handler[g],
           NEW u, NEW s, Held(u, s), HandlerHolds(h, u, s) => Held(u, s)'
    PROVE  Held(u, s)'
<1>1. UNCHANGED <<WaitingJobs, job>>
  BY DEF vars, jobVars, workerVars, WaitingJobs
<1> QED
  BY <1>1 DEF Held, HandlerHolds, IsBusyHandler, JobHolds, BodyHolds, User

\* A job's step disturbs no other job and no handler; jobs may be added.
LEMMA OthersWork ==
    ASSUME NEW w \in Workers, UNCHANGED <<handler, job>>, crashed \subseteq crashed',
           \A v \in Workers : v # w => body'[v] = body[v],
           \A j \in WaitingJobs : j \in WaitingJobs' /\ payload'[j.id] = payload[j.id],
           NEW u, NEW s, Held(u, s), BodyHolds(w, u, s) => Held(u, s)'
    PROVE  Held(u, s)'
<1>1. CASE \E h \in Handlers : HandlerHolds(h, u, s)
  BY <1>1 DEF Held, HandlerHolds, IsBusyHandler
<1>2. CASE \E j \in WaitingJobs : JobHolds(j, u, s)
  BY <1>2 DEF Held, JobHolds
<1>3. CASE \E v \in Workers : BodyHolds(v, u, s)
  BY <1>3 DEF Held, BodyHolds, User
<1> QED
  BY <1>1, <1>2, <1>3 DEF Held

\* What a repository operation leaves locked was locked, for the same session.
LEMMA LockShrinks ==
    ASSUME SessionsFit, LocksHeld, NEW u \in Users, NEW sid,
           \/ session' = session
           \/ session' = CleanedUp(u)
           \/ session' = GenerationFinished(u)
           \/ session' = FinishedIfSession(u, sid)
    PROVE  /\ \A v \in Users : session'[v].is_generating =>
                 session[v].is_generating /\ session'[v].sid = session[v].sid
           /\ session' \in {CleanedUp(u), GenerationFinished(u)} => ~session'[u].is_generating
           /\ session' = FinishedIfSession(u, sid) =>
                 (session'[u].is_generating => session[u].sid # sid)
<1> DEFINE f == [session[u] EXCEPT !.is_generating = FALSE]
<1>1. session \in [Users -> Sessions] /\ ~f.is_generating /\ f.sid = session[u].sid
      /\ ~NoSession.is_generating
  BY DEF SessionsFit, Sessions, NoSession
<1>2. CleanedUp(u) = [session EXCEPT ![u] = NoSession]
      /\ GenerationFinished(u) = IF Exists(u) THEN [session EXCEPT ![u] = f] ELSE session
  BY DEF CleanedUp, GenerationFinished, Updated
<1>3. session[u].is_generating => Exists(u)
  BY DEF LocksHeld, Exists
<1> HIDE DEF f
<1> QED
  BY <1>1, <1>2, <1>3 DEF FinishedIfSession, IsSame

\* A handler's step that takes no lock: whoever held a lock that stays still does.
LEMMA HandlerPassesOn ==
    ASSUME LocksHeld, NEW h \in Handlers, UNCHANGED <<vars, body, payload>>,
           crashed \subseteq crashed', \A g \in Handlers : g # h => handler'[g] = handler[g],
           \A u \in Users : session'[u].is_generating =>
              /\ session[u].is_generating /\ session'[u].sid = session[u].sid
              /\ HandlerHolds(h, u, session[u].sid) => Held(u, session[u].sid)'
    PROVE  LocksHeld'
<1> SUFFICES ASSUME NEW u \in Users, session'[u].is_generating
             PROVE  session'[u].sid # 0 /\ Held(u, session[u].sid)'
  BY LocksHeldOn
<1>1. PICK s : s = session[u].sid
  OBVIOUS
<1>2. /\ s # 0 /\ session'[u].sid = s /\ Held(u, s)
      /\ HandlerHolds(h, u, s) => Held(u, s)'
  BY <1>1 DEF LocksHeld
<1>3. Held(u, s)'
  BY <1>2, OthersHold
<1> QED
  BY <1>2, <1>3

\* The same for a step of a job.
LEMMA JobPassesOn ==
    ASSUME LocksHeld, NEW w \in Workers, UNCHANGED <<handler, job>>, crashed \subseteq crashed',
           \A v \in Workers : v # w => body'[v] = body[v],
           \A j \in WaitingJobs : j \in WaitingJobs' /\ payload'[j.id] = payload[j.id],
           \A u \in Users : session'[u].is_generating =>
              /\ session[u].is_generating /\ session'[u].sid = session[u].sid
              /\ BodyHolds(w, u, session[u].sid) => Held(u, session[u].sid)'
    PROVE  LocksHeld'
<1> SUFFICES ASSUME NEW u \in Users, session'[u].is_generating
             PROVE  session'[u].sid # 0 /\ Held(u, session[u].sid)'
  BY LocksHeldOn
<1>1. PICK s : s = session[u].sid
  OBVIOUS
<1>2. /\ s # 0 /\ session'[u].sid = s /\ Held(u, s)
      /\ BodyHolds(w, u, s) => Held(u, s)'
  BY <1>1 DEF LocksHeld
<1>3. Held(u, s)'
  BY <1>2, OthersWork
<1> QED
  BY <1>2, <1>3

\* A step of a user alone: nobody who holds a lock moves.
LEMMA HeldStays ==
    ASSUME UNCHANGED <<vars, body, payload, handler, crashed>>, NEW u, NEW s, Held(u, s)
    PROVE  Held(u, s)'
<1>1. UNCHANGED <<WaitingJobs, job>>
  BY DEF vars, jobVars, workerVars, WaitingJobs
<1> QED
  BY <1>1 DEF Held, HandlerHolds, IsBusyHandler, JobHolds, BodyHolds, User

\* A handler moves and keeps its user and its session.
LEMMA HandlerAt ==
    ASSUME PipelineInv, NEW h \in Handlers, NEW a, handler' = [handler EXCEPT ![h].at = a]
    PROVE  /\ handler'[h].at = a /\ handler'[h].user = handler[h].user
           /\ handler'[h].sid = handler[h].sid
           /\ \A g \in Handlers : g # h => handler'[g] = handler[g]
<1> DEFINE r == [handler[h] EXCEPT !.at = a]
<1>1. handler \in [Handlers -> HandlerRecords]
  BY DEF PipelineInv, Fits, HandlersFit
<1>2. r.at = a /\ r.user = handler[h].user /\ r.sid = handler[h].sid
  BY <1>1 DEF HandlerRecords
<1>3. handler' = [handler EXCEPT ![h] = r]
  OBVIOUS
<1> HIDE DEF r
<1> QED
  BY <1>1, <1>2, <1>3

\* An excuse leaves the others alone.
LEMMA ExcuseAt ==
    ASSUME PipelineInv, NEW h \in Handlers, handler' \in Excuse(h)
    PROVE  \A g \in Handlers : g # h => handler'[g] = handler[g]
<1>1. handler \in [Handlers -> HandlerRecords]
  BY DEF PipelineInv, Fits, HandlersFit
<1>2. \/ handler' = [handler EXCEPT ![h] = IdleHandler]
      \/ handler' = [handler EXCEPT ![h].at = "apologising"]
  BY DEF Excuse
<1> QED
  BY <1>1, <1>2, HandlerAt

\* Steps of the user, and of a handler before it has a session.
LEMMA UsersKeepHolders ==
    ASSUME PipelineInv, LocksHeld, NEW u \in Users,
           \/ RecoverStale(u) \/ Stop(u)
           \/ \E h \in Handlers : Open(h, u) \/ PressNext(h, u)
    PROVE  LocksHeld'
<1>0. SessionsFit /\ handler \in [Handlers -> HandlerRecords]
  BY DEF PipelineInv, Fits, HandlersFit
<1>1. CASE RecoverStale(u) \/ Stop(u)
  <2> SUFFICES ASSUME NEW v \in Users, session'[v].is_generating
               PROVE  session'[v].sid # 0 /\ Held(v, session[v].sid)'
    BY LocksHeldOn
  <2>1. session[v].is_generating /\ session'[v].sid = session[v].sid
    BY <1>0, <1>1, LockShrinks DEF RecoverStale, Stop
  <2>2. PICK s : s = session[v].sid
    OBVIOUS
  <2>3. s # 0 /\ Held(v, s)
    BY <2>1, <2>2 DEF LocksHeld
  <2>4. Held(v, s)'
    BY <1>1, <2>3, HeldStays DEF RecoverStale, Stop
  <2> QED
    BY <2>1, <2>2, <2>3, <2>4
<1>2. ASSUME NEW h \in Handlers, Open(h, u) PROVE LocksHeld'
  <2>1. /\ handler[h].at = "idle" /\ UNCHANGED <<vars, body, payload, crashed>>
        /\ \A g \in Handlers : g # h => handler'[g] = handler[g]
        /\ session' = session \/ session' = CleanedUp(u)
    BY <1>0, <1>2 DEF Open
  <2>2. \A v, s : ~HandlerHolds(h, v, s)
    BY <2>1 DEF HandlerHolds, IsBusyHandler
  <2> QED
    BY <1>0, <2>1, <2>2, LockShrinks, HandlerPassesOn
<1>3. ASSUME NEW h \in Handlers, PressNext(h, u) PROVE LocksHeld'
  <2> DEFINE r == [at |-> "answering", user |-> u, sid |-> session[u].sid, origin |-> "next"]
             locked == [session[u] EXCEPT !.is_generating = TRUE]
  <2>1. /\ handler[h].at = "idle" /\ UNCHANGED <<vars, body, payload, crashed>>
        /\ handler' = [handler EXCEPT ![h] = r] /\ session' = [session EXCEPT ![u] = locked]
        /\ session[u].sid # 0
    BY <1>3 DEF PressNext, Exists
  <2>2. locked.sid = session[u].sid
    BY <1>0 DEF SessionsFit, Sessions
  <2>3. r.at = "answering" /\ r.user = u /\ r.sid = session[u].sid
    OBVIOUS
  <2> HIDE DEF r, locked
  <2>4. /\ handler'[h] = r /\ \A g \in Handlers : g # h => handler'[g] = handler[g]
        /\ session'[u] = locked /\ \A v \in Users : v # u => session'[v] = session[v]
    BY <1>0, <2>1 DEF SessionsFit
  <2> SUFFICES ASSUME NEW v \in Users, session'[v].is_generating
               PROVE  session'[v].sid # 0 /\ Held(v, session[v].sid)'
    BY LocksHeldOn
  <2>5. CASE v = u
    BY <2>1, <2>2, <2>3, <2>4, <2>5 DEF Held, HandlerHolds, IsBusyHandler
  <2>6. CASE v # u
    <3>1. PICK s : s = session[v].sid
      OBVIOUS
    <3>2. session'[v].sid = s /\ s # 0 /\ Held(v, s)
      BY <2>4, <2>6, <3>1 DEF LocksHeld
    <3>3. ~HandlerHolds(h, v, s)
      BY <2>1 DEF HandlerHolds, IsBusyHandler
    <3>4. Held(v, s)'
      BY <2>1, <2>4, <3>2, <3>3, OthersHold
    <3> QED
      BY <3>2, <3>4
  <2> QED
    BY <2>5, <2>6
<1> QED
  BY <1>1, <1>2, <1>3

\* Steps of a handler that end it, or release what it holds.
LEMMA EndingsKeepHolders ==
    ASSUME PipelineInv, LocksHeld, NEW h \in Handlers,
           AbandonOpen(h) \/ GiveUp(h) \/ HandlerRaises(h) \/ ReleaseLock(h)
    PROVE  LocksHeld'
<1>0. SessionsFit /\ handler \in [Handlers -> HandlerRecords]
      /\ (handler[h].at # "idle" => handler[h].user \in Users)
      /\ UNCHANGED <<vars, body, payload>>
  BY DEF PipelineInv, Fits, HandlersFit, AbandonOpen, GiveUp, HandlerRaises, ReleaseLock
<1>1. CASE AbandonOpen(h)
  <2>1. \A g \in Handlers : g # h => handler'[g] = handler[g]
    BY <1>0, <1>1 DEF AbandonOpen
  <2>2. \A v, s : ~HandlerHolds(h, v, s)
    BY <1>1 DEF AbandonOpen, HandlerHolds, IsBusyHandler
  <2>3. UNCHANGED <<session, crashed>>
    BY <1>1 DEF AbandonOpen
  <2> QED
    BY <1>0, <2>1, <2>2, <2>3, HandlerPassesOn
<1>2. CASE GiveUp(h)
  <2>1. \A g \in Handlers : g # h => handler'[g] = handler[g]
    BY <1>2, ExcuseAt DEF GiveUp
  <2>2. /\ session' = FinishedIfSession(handler[h].user, handler[h].sid)
        /\ handler[h].user \in Users /\ UNCHANGED crashed
    BY <1>0, <1>2 DEF GiveUp
  <2>3. /\ \A v \in Users : session'[v].is_generating =>
              session[v].is_generating /\ session'[v].sid = session[v].sid
        /\ session'[handler[h].user].is_generating => session[handler[h].user].sid # handler[h].sid
    BY <1>0, <2>2, LockShrinks
  <2>4. \A v \in Users : session'[v].is_generating => ~HandlerHolds(h, v, session[v].sid)
    BY <2>3 DEF HandlerHolds, IsBusyHandler
  <2> QED
    BY <1>0, <2>1, <2>2, <2>3, <2>4, HandlerPassesOn
<1>3. CASE HandlerRaises(h)
  <2>0. UNCHANGED session
    BY <1>3 DEF HandlerRaises
  <2>1. CASE handler' = [handler EXCEPT ![h].at = "apologising"] /\ UNCHANGED crashed
    <3>1. /\ handler'[h].at = "apologising" /\ handler'[h].user = handler[h].user
          /\ handler'[h].sid = handler[h].sid
          /\ \A g \in Handlers : g # h => handler'[g] = handler[g]
      BY <2>1, HandlerAt
    <3>2. \A v, s : HandlerHolds(h, v, s) => HandlerHolds(h, v, s)'
      BY <3>1 DEF HandlerHolds, IsBusyHandler
    <3>3. \A v \in Users : HandlerHolds(h, v, session[v].sid) => Held(v, session[v].sid)'
      BY <2>0, <3>2 DEF Held
    <3> QED
      BY <1>0, <2>0, <2>1, <3>1, <3>3, HandlerPassesOn
  <2>2. CASE handler' = [handler EXCEPT ![h] = IdleHandler] /\ crashed' = crashed \cup {handler[h].sid}
    <3>1. \A g \in Handlers : g # h => handler'[g] = handler[g]
      BY <1>0, <2>2
    <3>2. \A v \in Users : HandlerHolds(h, v, session[v].sid) => Held(v, session[v].sid)'
      BY <2>0, <2>2 DEF HandlerHolds, Held
    <3> QED
      BY <1>0, <2>0, <2>2, <3>1, <3>2, HandlerPassesOn
  <2> QED
    BY <1>3, <2>1, <2>2 DEF HandlerRaises
<1>4. CASE ReleaseLock(h)
  <2>1. /\ \A g \in Handlers : g # h => handler'[g] = handler[g]
        /\ session' = GenerationFinished(handler[h].user)
        /\ handler[h].user \in Users /\ UNCHANGED crashed
    BY <1>0, <1>4 DEF ReleaseLock
  <2>2. /\ \A v \in Users : session'[v].is_generating =>
              session[v].is_generating /\ session'[v].sid = session[v].sid
        /\ ~session'[handler[h].user].is_generating
    BY <1>0, <2>1, LockShrinks
  <2>3. \A v \in Users : session'[v].is_generating => ~HandlerHolds(h, v, session[v].sid)
    BY <2>2 DEF HandlerHolds, IsBusyHandler
  <2> QED
    BY <1>0, <2>1, <2>2, <2>3, HandlerPassesOn
<1> QED
  BY <1>1, <1>2, <1>3, <1>4

\* A handler's step that takes a lock and holds it.
LEMMA HandlerTakesOn ==
    ASSUME SessionsFit, LocksHeld, NEW h \in Handlers, UNCHANGED <<vars, body, payload, crashed>>,
           \A g \in Handlers : g # h => handler'[g] = handler[g],
           NEW u \in Users, NEW r, session' = [session EXCEPT ![u] = r], r.sid # 0,
           handler'[h].user = u, handler'[h].sid = r.sid,
           handler'[h].at \in {"announcing", "answering", "enqueuing"},
           IsBusyHandler(h, handler[h].user) => handler[h].user = u
    PROVE  LocksHeld'
<1>1. session'[u] = r /\ \A v \in Users : v # u => session'[v] = session[v]
  BY DEF SessionsFit
<1> SUFFICES ASSUME NEW v \in Users, session'[v].is_generating
             PROVE  session'[v].sid # 0 /\ Held(v, session[v].sid)'
  BY LocksHeldOn
<1>2. CASE v = u
  BY <1>1, <1>2 DEF Held, HandlerHolds, IsBusyHandler
<1>3. CASE v # u
  <2>1. PICK s : s = session[v].sid
    OBVIOUS
  <2>2. session'[v].sid = s /\ s # 0 /\ Held(v, s)
    BY <1>1, <1>3, <2>1 DEF LocksHeld
  <2>3. ~HandlerHolds(h, v, s)
    BY <1>3 DEF HandlerHolds, IsBusyHandler
  <2>4. Held(v, s)'
    BY <2>2, <2>3, OthersHold
  <2> QED
    BY <2>2, <2>4
<1> QED
  BY <1>2, <1>3

\* The handler that creates a session announces it.
LEMMA CreateKeepsHolders ==
    ASSUME PipelineInv, LocksHeld, OpeningsNumbered, NEW h \in Handlers, Create(h)
    PROVE  LocksHeld'
<1> DEFINE r == [NoSession EXCEPT !.sid = handler[h].sid, !.is_generating = TRUE]
           u == handler[h].user
<1>1. /\ handler[h].at = "opening" /\ handler[h].sid # 0 /\ u \in Users /\ SessionsFit
      /\ UNCHANGED <<vars, body, payload, crashed>> /\ session' = [session EXCEPT ![u] = r]
  BY HandlerUser DEF Create, OpeningsNumbered, PipelineInv, Fits
<1>2. r.sid = handler[h].sid
  BY DEF NoSession
<1>3. /\ handler'[h].at = "announcing" /\ handler'[h].user = handler[h].user
      /\ handler'[h].sid = handler[h].sid
      /\ \A g \in Handlers : g # h => handler'[g] = handler[g]
  BY HandlerAt DEF Create
<1>4. ~IsBusyHandler(h, handler[h].user)
  BY <1>1 DEF IsBusyHandler
<1> HIDE DEF r
<1> QED
  BY <1>1, <1>2, <1>3, <1>4, HandlerTakesOn

\* send_audio_chunk works for the session that the user has now.
LEMMA SendChunkKeepsHolders ==
    ASSUME PipelineInv, LocksHeld, NEW h \in Handlers, SendChunk(h)
    PROVE  LocksHeld'
<1> DEFINE u == handler[h].user
<1>1. /\ handler[h].at \in {"announcing", "answering"} /\ u \in Users /\ SessionsFit
      /\ UNCHANGED <<vars, body, payload, crashed>>
  BY HandlerUser DEF SendChunk, PipelineInv, Fits
<1>2. CASE /\ handler' \in Excuse(h)
           /\ \/ session' = session /\ ~Exists(u)
              \/ session' = CleanedUp(u)
              \/ session' = FinishedIfSession(u, session[u].sid)
  <2>1. \A g \in Handlers : g # h => handler'[g] = handler[g]
    BY <1>2, ExcuseAt
  <2>2. /\ \A v \in Users : session'[v].is_generating =>
              session[v].is_generating /\ session'[v].sid = session[v].sid
        /\ ~session'[u].is_generating
    BY <1>1, <1>2, LockShrinks DEF Exists, LocksHeld
  <2>3. \A v \in Users : session'[v].is_generating => ~HandlerHolds(h, v, session[v].sid)
    BY <2>2 DEF HandlerHolds, IsBusyHandler
  <2> QED
    BY <1>1, <2>1, <2>2, <2>3, HandlerPassesOn
<1>3. CASE /\ Exists(u)
           /\ handler' = [handler EXCEPT ![h].at = "enqueuing", ![h].sid = session[u].sid]
           /\ session' = [session EXCEPT ![u].is_generating = TRUE]
  <2> DEFINE r == [session[u] EXCEPT !.is_generating = TRUE]
             k == [handler[h] EXCEPT !.at = "enqueuing", !.sid = session[u].sid]
  <2>1. handler' = [handler EXCEPT ![h] = k] /\ session' = [session EXCEPT ![u] = r]
    BY <1>3
  <2>2. r.sid = session[u].sid /\ session[u].sid # 0
    BY <1>1, <1>3 DEF SessionsFit, Sessions, Exists
  <2>3. /\ k.at = "enqueuing" /\ k.user = u /\ k.sid = session[u].sid
        /\ handler \in [Handlers -> HandlerRecords]
    BY <1>1, HandlerUser DEF HandlerRecords, PipelineInv, Fits, HandlersFit
  <2> HIDE DEF r, k
  <2>4. handler'[h] = k /\ \A g \in Handlers : g # h => handler'[g] = handler[g]
    BY <2>1, <2>3
  <2> QED
    BY <1>1, <2>1, <2>2, <2>3, <2>4, HandlerTakesOn
<1> QED
  BY <1>2, <1>3 DEF SendChunk

\* A job accepted leaves the jobs there were where they are.
LEMMA AcceptKeepsJobs ==
    ASSUME PipelineInv, NEW u \in Users, NEW p \in Priorities, NEW load \in Loads,
           Accept(u, p, load)
    PROVE  /\ \A j \in WaitingJobs : j \in WaitingJobs' /\ payload'[j.id] = payload[j.id]
           /\ \A w \in Workers : job[w] # NoJob => payload'[job[w].id] = payload[job[w].id]
           /\ job' = job
           /\ \E j \in WaitingJobs' : j.user = u /\ j.priority = p /\ payload'[j.id] = load
<1>0. QueueInv /\ LoadsFit /\ Enqueue(u, p) /\ TypeOK /\ Apart
  BY DEF PipelineInv, Fits, Accept, QueueInv
<1>1. /\ job' = job /\ \A n \in 1..(next_id - 1) : payload'[n] = payload[n]
      /\ next_id \in 1..MaxJobs
  BY <1>0, AcceptFits
<1> DEFINE k == [id |-> next_id, user |-> u, priority |-> p]
<1>2. WaitingJobs' = WaitingJobs \cup {k}
  BY <1>0, EnqueueMoves
<1>3. ASSUME NEW j \in WaitingJobs \cup RunningJobs PROVE j.id \in 1..(next_id - 1)
  <2>1. j.id < next_id /\ j.id \in 1..MaxJobs
    BY <1>0, JobsTyped DEF Apart, Job
  <2> QED
    BY <1>0, <2>1, Numbers
<1>4. payload'[next_id] = load
  <2>1. payload \in Seq(Loads) /\ Len(payload) + 1 = next_id /\ Len(payload) \in Nat
    BY <1>0, LenProperties DEF LoadsFit
  <2>2. payload' = Append(payload, load)
    BY DEF Accept
  <2> QED
    BY <2>1, <2>2, AppendProperties
<1>5. ASSUME NEW w \in Workers, job[w] # NoJob PROVE payload'[job[w].id] = payload[job[w].id]
  <2>1. w \in Running
    BY <1>0, <1>5, RunningJobFits
  <2> QED
    BY <1>1, <1>3, <2>1 DEF RunningJobs
<1>6. k.user = u /\ k.priority = p /\ k.id = next_id
  OBVIOUS
<1> HIDE DEF k
<1> QED
  BY <1>1, <1>2, <1>3, <1>4, <1>5, <1>6

\* The accepted job takes the lock over from its handler.
LEMMA EnqueueKeepsHolders ==
    ASSUME PipelineInv, LocksHeld, NEW h \in Handlers, EnqueueChunk(h)
    PROVE  LocksHeld'
<1>0. /\ handler[h].at = "enqueuing" /\ handler[h].user \in Users /\ handler[h].sid \in Sids
      /\ UNCHANGED <<session, body, crashed>> /\ handler \in [Handlers -> HandlerRecords]
  BY HandlerUser DEF EnqueueChunk, PipelineInv, Fits, HandlersFit
<1>1. CASE UNCHANGED <<vars, payload>> /\ handler' = [handler EXCEPT ![h].at = "giving_up"]
  <2>1. /\ handler'[h].at = "giving_up" /\ handler'[h].user = handler[h].user
        /\ handler'[h].sid = handler[h].sid
        /\ \A g \in Handlers : g # h => handler'[g] = handler[g]
    BY <1>1, HandlerAt
  <2>2. \A v, s : HandlerHolds(h, v, s) => HandlerHolds(h, v, s)'
    BY <2>1 DEF HandlerHolds, IsBusyHandler
  <2>3. \A v \in Users : HandlerHolds(h, v, session[v].sid) => Held(v, session[v].sid)'
    BY <1>0, <2>2 DEF Held
  <2> QED
    BY <1>0, <1>1, <2>1, <2>3, HandlerPassesOn
<1>2. CASE /\ Accept(handler[h].user, "user_visible", [sid |-> handler[h].sid, part |-> 0])
           /\ handler' = [handler EXCEPT ![h] = IdleHandler]
  <2> DEFINE load == [sid |-> handler[h].sid, part |-> 0]
  <2>1. load \in Loads /\ "user_visible" \in Priorities /\ load.sid = handler[h].sid
    BY <1>0, Numbers DEF Loads, Priorities, PipelineInv
  <2>2. Accept(handler[h].user, "user_visible", load)
    BY <1>2
  <2> HIDE DEF load
  <2>3. /\ \A j \in WaitingJobs : j \in WaitingJobs' /\ payload'[j.id] = payload[j.id]
        /\ job' = job
        /\ \E j \in WaitingJobs' : /\ j.user = handler[h].user /\ j.priority = "user_visible"
                                   /\ payload'[j.id] = load
    BY <1>0, <2>1, <2>2, AcceptKeepsJobs
  <2>4. \A g \in Handlers : g # h => handler'[g] = handler[g]
    BY <1>0, <1>2
  <2> SUFFICES ASSUME NEW v \in Users, session'[v].is_generating
               PROVE  session'[v].sid # 0 /\ Held(v, session[v].sid)'
    BY LocksHeldOn
  <2>5. PICK s : s = session[v].sid
    OBVIOUS
  <2>6. session'[v].sid = s /\ s # 0 /\ Held(v, s)
    BY <1>0, <2>5 DEF LocksHeld
  <2>7. CASE HandlerHolds(h, v, s)
    BY <2>1, <2>3, <2>6, <2>7 DEF Held, HandlerHolds, IsBusyHandler, JobHolds
  <2>8. CASE \E g \in Handlers : g # h /\ HandlerHolds(g, v, s)
    BY <2>4, <2>6, <2>8 DEF Held, HandlerHolds, IsBusyHandler
  <2>9. CASE \E j \in WaitingJobs : JobHolds(j, v, s)
    BY <2>3, <2>6, <2>9 DEF Held, JobHolds
  <2>10. CASE (\E w \in Workers : BodyHolds(w, v, s)) \/ s \in crashed
    BY <1>0, <2>3, <2>6, <2>10 DEF Held, BodyHolds, User
  <2> QED
    BY <2>6, <2>7, <2>8, <2>9, <2>10 DEF Held
<1> QED
  BY <1>1, <1>2 DEF EnqueueChunk

\* A job moves on for the session it works for, or gets its audio.
LEMMA BodyAt ==
    ASSUME PipelineInv, NEW w \in Workers, NEW a, NEW x,
           GoTo(w, a) \/ body' = [body EXCEPT ![w].at = a, ![w].audio = x]
    PROVE  /\ body'[w].at = a /\ body'[w].sid = body[w].sid
           /\ \A v \in Workers : v # w => body'[v] = body[v]
<1> DEFINE b == [body[w] EXCEPT !.at = a]
           c == [body[w] EXCEPT !.at = a, !.audio = x]
<1>1. body \in [Workers -> Bodies]
  BY DEF PipelineInv, Fits, BodiesFit
<1>2. b.at = a /\ b.sid = body[w].sid /\ c.at = a /\ c.sid = body[w].sid
  BY <1>1 DEF Bodies
<1>3. body' = [body EXCEPT ![w] = b] \/ body' = [body EXCEPT ![w] = c]
  BY DEF GoTo
<1> HIDE DEF b, c
<1> QED
  BY <1>1, <1>2, <1>3

\* The jobs that hold a lock go on with the payload they were built with.
LEMMA BodiesStayTied ==
    ASSUME BodiesTied, job' = job,
           \A v \in Workers : body'[v].at \in HoldingStages =>
              /\ body[v].at \in HoldingStages /\ body'[v].sid = body[v].sid
              /\ payload'[job[v].id] = payload[job[v].id]
    PROVE  BodiesTied'
  BY DEF BodiesTied

\* A step of a job that goes on holding, or holds no lock that stays taken.
LEMMA JobGoesOnHolding ==
    ASSUME LocksHeld, BodiesTied, NEW w \in Workers, UNCHANGED <<handler, job>>,
           crashed \subseteq crashed',
           \A v \in Workers : v # w => body'[v] = body[v],
           \A j \in WaitingJobs : j \in WaitingJobs' /\ payload'[j.id] = payload[j.id],
           \A v \in Workers : body[v].at \in HoldingStages => payload'[job[v].id] = payload[job[v].id],
           body'[w].at \in HoldingStages => body[w].at \in HoldingStages /\ body'[w].sid = body[w].sid,
           \A u \in Users : session'[u].is_generating =>
              /\ session[u].is_generating /\ session'[u].sid = session[u].sid
              /\ BodyHolds(w, u, session[u].sid) =>
                    body'[w].at \in HoldingStages \/ body[w].sid \in crashed'
    PROVE  LocksHeld' /\ BodiesTied'
<1>1. BodiesTied'
  BY BodiesStayTied
<1>2. ASSUME NEW u \in Users, session'[u].is_generating, BodyHolds(w, u, session[u].sid)
      PROVE  Held(u, session[u].sid)'
  BY <1>2 DEF BodyHolds, Held, User
<1>3. LocksHeld'
  BY <1>2, JobPassesOn
<1> QED
  BY <1>1, <1>3

\* Inside the process nothing is accepted: jobs and payloads are as they were.
LEMMA JobsThere ==
    ASSUME UNCHANGED <<vars, payload>>
    PROVE  /\ job' = job
           /\ \A j \in WaitingJobs : j \in WaitingJobs' /\ payload'[j.id] = payload[j.id]
           /\ \A v \in Workers : payload'[job[v].id] = payload[job[v].id]
<1>1. UNCHANGED <<WaitingJobs, job>>
  BY DEF vars, jobVars, workerVars, WaitingJobs
<1> QED
  BY <1>1

\* The index and the prefetch task of a session change without its lock.
LEMMA LockUntouched ==
    ASSUME SessionsFit, NEW u \in Users, NEW x,
           \/ session' = Updated(u, [session[u] EXCEPT !.prefetch_task = x])
           \/ session' = [session EXCEPT ![u].index = x]
           \/ session' = session
    PROVE  \A v \in Users : session'[v].is_generating =>
              session[v].is_generating /\ session'[v].sid = session[v].sid
<1> DEFINE b == [session[u] EXCEPT !.prefetch_task = x]
           c == [session[u] EXCEPT !.index = x]
<1>1. session \in [Users -> Sessions]
  BY DEF SessionsFit
<1>2. /\ b.is_generating = session[u].is_generating /\ b.sid = session[u].sid
      /\ c.is_generating = session[u].is_generating /\ c.sid = session[u].sid
  BY <1>1 DEF Sessions
<1>3. session' = session \/ session' = [session EXCEPT ![u] = b] \/ session' = [session EXCEPT ![u] = c]
  BY DEF Updated
<1> HIDE DEF b, c
<1> QED
  BY <1>1, <1>2, <1>3

\* The steps of a job that keep the lock, leave with a raise, or had none.
LEMMA JobsKeepHolders ==
    ASSUME PipelineInv, LocksHeld, BodiesTied, NEW w \in Workers,
           \/ Leave(w) \/ ReadSettings(w) \/ Generate(w) \/ AwaitPrefetch(w) \/ Advance(w)
           \/ SendRaises(w) \/ Prefetch(w)
    PROVE  LocksHeld' /\ BodiesTied'
<1>0. UNCHANGED <<vars, handler, payload>> /\ SessionsFit /\ crashed \subseteq crashed'
      /\ body[w].at # "none"
  BY DEF PipelineInv, Fits, Leave, ReadSettings, Generate, AwaitPrefetch, Advance, SendRaises,
     Prefetch
<1>1. User(w) \in Users
  BY <1>0, JobFacts
<1>2. PICK a, x : GoTo(w, a) \/ body' = [body EXCEPT ![w].at = a, ![w].audio = x]
  BY DEF Leave, ReadSettings, Generate, AwaitPrefetch, Advance, SendRaises, Prefetch
<1>3. /\ body'[w].at = a /\ body'[w].sid = body[w].sid
      /\ \A v \in Workers : v # w => body'[v] = body[v]
  BY <1>2, BodyAt
<1>4. \A v \in Users : session'[v].is_generating =>
         session[v].is_generating /\ session'[v].sid = session[v].sid
  BY <1>0, <1>1, LockUntouched DEF Leave, ReadSettings, Generate, AwaitPrefetch, Advance,
     SendRaises, Prefetch, TaskForgotten
<1>5. /\ body'[w].at \in HoldingStages => body[w].at \in HoldingStages
      /\ \A v \in Users : BodyHolds(w, v, session[v].sid) /\ session[v].is_generating =>
            body'[w].at \in HoldingStages \/ body[w].sid \in crashed'
  <2>1. CASE Leave(w) \/ Prefetch(w)
    <3>1. GoTo(w, "returning") /\ body[w].at \in {"leaving", "prefetching"}
      BY <2>1 DEF Leave, Prefetch
    <3>2. body'[w].at = "returning"
      BY <3>1, BodyAt
    <3> QED
      BY <3>1, <3>2 DEF HoldingStages, BodyHolds
  <2>2. CASE ReadSettings(w)
    <3>1. CASE GoTo(w, "returning") /\ crashed' = crashed \cup {body[w].sid}
      <4>1. body'[w].at = "returning"
        BY <3>1, BodyAt
      <4> QED
        BY <3>1, <4>1 DEF HoldingStages
    <3>2. CASE GoTo(w, "generating") \/ GoTo(w, "awaiting")
      <4>1. body'[w].at \in {"generating", "awaiting"}
        BY <3>2, BodyAt
      <4> QED
        BY <2>2, <4>1 DEF HoldingStages, ReadSettings
    <3> QED
      BY <2>2, <3>1, <3>2 DEF ReadSettings
  <2>3. CASE Generate(w) \/ AwaitPrefetch(w)
    <3>1. body'[w].at \in {"resolved", "closing", "generating"}
      <4>1. CASE Generate(w)
        <5>1. PICK y : GoTo(w, "closing") \/ body' = [body EXCEPT ![w].at = "resolved", ![w].audio = y]
          BY <4>1 DEF Generate
        <5>2. CASE GoTo(w, "closing")
          BY <5>2, BodyAt
        <5>3. CASE body' = [body EXCEPT ![w].at = "resolved", ![w].audio = y]
          BY <5>3, BodyAt
        <5> QED
          BY <5>1, <5>2, <5>3
      <4>2. CASE AwaitPrefetch(w)
        <5> DEFINE n == body[w].task
                   fetched == IF future[n] = "empty" THEN NoAudio
                              ELSE [sid |-> payload[n].sid, part |-> payload[n].part, prefetch |-> n]
        <5>1. \/ GoTo(w, "generating")
              \/ body' = [body EXCEPT ![w].at = "resolved", ![w].audio = fetched]
          BY <4>2 DEF AwaitPrefetch
        <5> HIDE DEF fetched
        <5>2. CASE GoTo(w, "generating")
          BY <5>2, BodyAt
        <5>3. CASE body' = [body EXCEPT ![w].at = "resolved", ![w].audio = fetched]
          BY <5>3, BodyAt
        <5> QED
          BY <5>1, <5>2, <5>3
      <4> QED
        BY <2>3, <4>1, <4>2
    <3> QED
      BY <2>3, <3>1 DEF HoldingStages, Generate, AwaitPrefetch
  <2>4. CASE SendRaises(w)
    <3>1. body'[w].at = "closing"
      BY <2>4, BodyAt DEF SendRaises
    <3> QED
      BY <2>4, <3>1 DEF HoldingStages, SendRaises
  <2>5. CASE Advance(w)
    <3>1. \/ body'[w].at \in {"closing", "sending"}
          \/ body'[w].at = "returning" /\ ~IsSame(User(w), body[w].sid)
      BY <2>5, BodyAt DEF Advance
    <3>2. body[w].at = "resolved"
      BY <2>5 DEF Advance
    <3>3. ASSUME NEW v \in Users, BodyHolds(w, v, session[v].sid), session[v].is_generating
          PROVE  IsSame(User(w), body[w].sid)
      BY <3>3 DEF BodyHolds, IsSame, Exists, LocksHeld
    <3> QED
      BY <3>1, <3>2, <3>3 DEF HoldingStages
  <2> QED
    BY <2>1, <2>2, <2>3, <2>4, <2>5
<1>6. /\ job' = job
      /\ \A j \in WaitingJobs : j \in WaitingJobs' /\ payload'[j.id] = payload[j.id]
      /\ \A v \in Workers : payload'[job[v].id] = payload[job[v].id]
  BY <1>0, JobsThere
<1> HIDE DEF HoldingStages
<1> QED
  BY <1>0, <1>3, <1>4, <1>5, <1>6, JobGoesOnHolding

\* The end of a job releases the lock of the session it worked for.
LEMMA EndKeepsHolders ==
    ASSUME PipelineInv, LocksHeld, BodiesTied, NEW w \in Workers, EndJob(w) \/ SendVoice(w)
    PROVE  LocksHeld' /\ BodiesTied'
<1> DEFINE u == User(w)
<1>0. /\ UNCHANGED <<handler, crashed>> /\ SessionsFit /\ BodiesFit /\ body[w].at \in {"closing", "sending"}
      /\ u \in Users /\ body[w].sid \in Sids
  BY JobFacts DEF PipelineInv, Fits, EndJob, SendVoice
<1>1. ASSUME GoTo(w, "returning"), job' = job,
             \A j \in WaitingJobs : j \in WaitingJobs' /\ payload'[j.id] = payload[j.id],
             \A v \in Workers : job[v] # NoJob => payload'[job[v].id] = payload[job[v].id],
             \A v \in Users : session'[v].is_generating =>
                session[v].is_generating /\ session'[v].sid = session[v].sid,
             session'[u].is_generating => session[u].sid # body[w].sid
      PROVE  LocksHeld' /\ BodiesTied'
  <2>1. body'[w].at = "returning" /\ \A v \in Workers : v # w => body'[v] = body[v]
    BY <1>1, BodyAt
  <2>2. \A v \in Workers : body[v].at \in HoldingStages => job[v] # NoJob
    BY <1>0 DEF BodiesFit, HoldingStages
  <2>3. \A v \in Users : session'[v].is_generating => ~BodyHolds(w, v, session[v].sid)
    BY <1>1 DEF BodyHolds
  <2>4. "returning" \notin HoldingStages
    BY DEF HoldingStages
  <2> QED
    BY <1>0, <1>1, <2>1, <2>2, <2>3, <2>4, JobGoesOnHolding
<1>2. CASE GoTo(w, "returning") /\ UNCHANGED <<vars, payload>>
           /\ session' = FinishedIfSession(u, body[w].sid)
  <2>1. /\ job' = job
        /\ \A j \in WaitingJobs : j \in WaitingJobs' /\ payload'[j.id] = payload[j.id]
        /\ \A v \in Workers : payload'[job[v].id] = payload[job[v].id]
    BY <1>2, JobsThere
  <2>2. /\ \A v \in Users : session'[v].is_generating =>
              session[v].is_generating /\ session'[v].sid = session[v].sid
        /\ session'[u].is_generating => session[u].sid # body[w].sid
    BY <1>0, <1>2, LockShrinks
  <2> QED
    BY <1>1, <1>2, <2>1, <2>2
<1>3. CASE /\ SendVoice(w) /\ body[w].part + 1 = Parts /\ GoTo(w, "closing")
           /\ UNCHANGED <<vars, payload, session>>
  <2>1. body'[w].at = "closing" /\ body'[w].sid = body[w].sid
        /\ \A v \in Workers : v # w => body'[v] = body[v]
    BY <1>3, BodyAt
  <2>2. /\ job' = job
        /\ \A j \in WaitingJobs : j \in WaitingJobs' /\ payload'[j.id] = payload[j.id]
        /\ \A v \in Workers : payload'[job[v].id] = payload[job[v].id]
    BY <1>3, JobsThere
  <2>3. {"closing", "sending"} \subseteq HoldingStages
    BY DEF HoldingStages
  <2> QED
    BY <1>0, <1>3, <2>1, <2>2, <2>3, JobGoesOnHolding
<1>4. CASE /\ GoTo(w, "returning") /\ Accept(u, "prefetch", NextPrefetch(w)) /\ SendVoice(w)
           /\ body[w].part + 1 < Parts
           /\ session' = Updated(u, [session[u] EXCEPT
                            !.prefetch_task = next_id,
                            !.is_generating = @ /\ ~IsSame(u, body[w].sid)])
  <2>1. NextPrefetch(w) \in Loads /\ "prefetch" \in Priorities
    <3>1. body[w].part \in 0..Parts
      BY <1>0, JobFacts
    <3>2. body[w].part + 1 \in 0..Parts
      BY <1>4, <3>1, Numbers DEF PipelineInv
    <3> QED
      BY <1>0, <3>2 DEF NextPrefetch, Loads, Priorities
  <2>2. /\ job' = job
        /\ \A j \in WaitingJobs : j \in WaitingJobs' /\ payload'[j.id] = payload[j.id]
        /\ \A v \in Workers : job[v] # NoJob => payload'[job[v].id] = payload[job[v].id]
    BY <1>0, <1>4, <2>1, AcceptKeepsJobs
  <2> DEFINE r == [session[u] EXCEPT !.prefetch_task = next_id,
                      !.is_generating = session[u].is_generating /\ ~IsSame(u, body[w].sid)]
  <2>3. session' = [session EXCEPT ![u] = r] \/ (session' = session /\ ~Exists(u))
    BY <1>4 DEF Updated
  <2>4. /\ r.sid = session[u].sid
        /\ r.is_generating <=> (session[u].is_generating /\ ~IsSame(u, body[w].sid))
        /\ session \in [Users -> Sessions]
    BY <1>0 DEF SessionsFit, Sessions
  <2> HIDE DEF r
  <2>5. /\ \A v \in Users : session'[v].is_generating =>
              session[v].is_generating /\ session'[v].sid = session[v].sid
        /\ session'[u].is_generating => session[u].sid # body[w].sid
    BY <1>0, <2>3, <2>4 DEF IsSame, Exists, LocksHeld
  <2> QED
    BY <1>1, <1>4, <2>2, <2>5
<1> QED
  BY <1>2, <1>3, <1>4 DEF EndJob, SendVoice

\* The job that takes a session's lock over begins by reading the settings.
LEMMA StartHolds ==
    ASSUME QueueInv, NEW j \in Job \cup {NoJob}
    PROVE  /\ StartOf(j).at \in HoldingStages =>
                 /\ j.priority = "user_visible" /\ IsSame(j.user, payload[j.id].sid)
                 /\ StartOf(j).sid = session[j.user].sid
           /\ (/\ j # NoJob /\ j.priority = "user_visible"
               /\ IsSame(j.user, payload[j.id].sid) /\ ~IsExhausted(j)) =>
                 /\ StartOf(j).at \in HoldingStages
                 /\ StartOf(j).sid = session[j.user].sid
<1> DEFINE q == [NoBody EXCEPT !.at = "prefetching", !.sid = payload[j.id].sid,
                               !.part = payload[j.id].part]
           l == [NoBody EXCEPT !.at = "leaving"]
           s == [NoBody EXCEPT !.at = "settings", !.sid = session[j.user].sid,
                               !.part = session[j.user].index,
                               !.task = session[j.user].prefetch_task]
<1>1. /\ q.at = "prefetching" /\ l.at = "leaving" /\ NoBody.at = "none"
      /\ s.at = "settings" /\ s.sid = session[j.user].sid
  BY DEF NoBody
<1>2. /\ "prefetching" \notin HoldingStages /\ "leaving" \notin HoldingStages
      /\ "none" \notin HoldingStages /\ "settings" \in HoldingStages
  BY DEF HoldingStages
<1> HIDE DEF HoldingStages
<1>3. CASE j = NoJob
  BY <1>1, <1>2, <1>3 DEF StartOf
<1>4. CASE j # NoJob
  <2>1. j.priority = "prefetch" \/ j.priority = "user_visible"
    BY <1>4 DEF Job, Priorities
  <2>2. CASE j.priority = "prefetch"
    <3>1. StartOf(j) = q
      BY <1>4, <2>2 DEF StartOf
    <3> HIDE DEF q
    <3> QED
      BY <1>1, <1>2, <2>2, <3>1
  <2>3. CASE j.priority = "user_visible" /\ (~IsSame(j.user, payload[j.id].sid) \/ IsExhausted(j))
    <3>1. StartOf(j) = l
      BY <1>4, <2>3 DEF StartOf
    <3> HIDE DEF l
    <3> QED
      BY <1>1, <1>2, <2>3, <3>1
  <2>4. CASE j.priority = "user_visible" /\ IsSame(j.user, payload[j.id].sid) /\ ~IsExhausted(j)
    <3>1. StartOf(j) = s
      BY <1>4, <2>4 DEF StartOf
    <3> HIDE DEF s
    <3> QED
      BY <1>1, <1>2, <2>4, <3>1
  <2> QED
    BY <2>1, <2>2, <2>3, <2>4
<1> QED
  BY <1>3, <1>4

\* A turn takes a job out of the queue only to run it: its lock passes to the worker.
LEMMA TurnKeepsHolders ==
    ASSUME PipelineInv, LocksHeld, BodiesTied, NEW w \in Workers, WorkerTurn(w)
    PROVE  LocksHeld' /\ BodiesTied'
<1>0. PICK b : b = StartOf(job'[w])
  OBVIOUS
<1>1. QueueInv /\ SessionsFit /\ BodiesFit /\ LoadsFit
  BY DEF PipelineInv, Fits
<1>2. Turn(w)
  BY DEF WorkerTurn, Turn
<1>3. /\ QueueInv' /\ next_id' = next_id
      /\ job' \in [Workers -> Job \cup {NoJob}]
      /\ \A v \in Workers \ {w} : job'[v] = job[v]
  BY <1>1, <1>2, TurnJob
<1>4. UNCHANGED <<handler, payload, crashed>>
  BY DEF WorkerTurn
<1>5. \A v \in Workers : body'[v] = IF v = w THEN b ELSE body[v]
  BY <1>0, <1>1 DEF WorkerTurn, BodiesFit
<1>6. body[w].at \notin HoldingStages
  <2>1. CASE body[w].at = "returning"
    BY <2>1 DEF HoldingStages
  <2>2. CASE Begin(w) \/ Wake(w) \/ Resume(w)
    <3>1. pc[w] # "running"
      BY <2>2 DEF Begin, Wake, Resume
    <3>2. body[w].at = "none"
      BY <3>1, JobFacts DEF Running
    <3> QED
      BY <3>2 DEF HoldingStages
  <2> QED
    BY <2>1, <2>2 DEF WorkerTurn
<1>7. /\ b.at \in HoldingStages =>
           /\ job'[w].priority = "user_visible"
           /\ IsSame(job'[w].user, payload[job'[w].id].sid)
           /\ b.sid = session[job'[w].user].sid
      /\ (/\ job'[w] # NoJob /\ job'[w].priority = "user_visible"
          /\ IsSame(job'[w].user, payload[job'[w].id].sid) /\ ~IsExhausted(job'[w])) =>
           b.at \in HoldingStages /\ b.sid = session[job'[w].user].sid
  BY <1>0, <1>1, <1>3, StartHolds
<1>8. /\ \A u \in Users : session'[u].is_generating =>
            session[u].is_generating /\ session'[u].sid = session[u].sid
      /\ IsExhausted(job'[w]) => ~session'[job'[w].user].is_generating
  <2>1. CASE IsExhausted(job'[w])
    <3>1. job'[w].user \in Users
      BY <1>1, <1>3, <2>1, NextJobFits DEF IsExhausted
    <3>2. session' = CleanedUp(job'[w].user)
      BY <2>1 DEF WorkerTurn
    <3> QED
      BY <1>1, <3>1, <3>2, LockShrinks
  <2>2. CASE ~IsExhausted(job'[w])
    BY <2>2 DEF WorkerTurn
  <2> QED
    BY <2>1, <2>2
<1>9. BodiesTied'
  BY <1>3, <1>4, <1>5, <1>7 DEF BodiesTied, IsSame
<1>10. StartsNone(w) \/ \E j \in Job : StartsJob(w, j)
  BY <1>1, <1>2, TurnMoves DEF QueueInv
<1>11. ASSUME NEW u \in Users, session'[u].is_generating
       PROVE  Held(u, session[u].sid)'
  <2>1. PICK s : s = session[u].sid
    OBVIOUS
  <2>2. /\ s # 0 /\ Held(u, s) /\ session'[u].sid = s
    BY <1>8, <1>11, <2>1 DEF LocksHeld
  <2>3. ASSUME \E h \in Handlers : HandlerHolds(h, u, s)
        PROVE  Held(u, s)'
    BY <1>4, <2>2, <2>3 DEF Held, HandlerHolds, IsBusyHandler
  <2>4. ASSUME NEW j \in WaitingJobs, JobHolds(j, u, s)
        PROVE  Held(u, s)'
    <3>1. CASE j \in WaitingJobs'
      BY <1>4, <2>4, <3>1 DEF Held, JobHolds
    <3>2. CASE j \notin WaitingJobs'
      <4>1. job'[w] = j /\ w \in Running' /\ j \in Job
        BY <1>10, <3>2 DEF StartsNone, StartsJob
      <4>2. j # NoJob
        BY <4>1, QueueAssumption
      <4>3. IsSame(j.user, payload[j.id].sid) /\ ~IsExhausted(j) /\ j.priority = "user_visible"
        BY <1>8, <1>11, <2>1, <2>2, <2>4, <4>1 DEF JobHolds, IsSame, Exists
      <4>4. b.at \in HoldingStages /\ b.sid = s
        BY <1>7, <2>1, <2>4, <4>1, <4>2, <4>3 DEF JobHolds
      <4>5. BodyHolds(w, u, s)'
        BY <1>5, <2>4, <4>1, <4>4 DEF BodyHolds, User, JobHolds
      <4> QED
        BY <4>5 DEF Held
    <3> QED
      BY <3>1, <3>2
  <2>5. ASSUME NEW v \in Workers, BodyHolds(v, u, s)
        PROVE  Held(u, s)'
    <3>1. v # w
      BY <1>6, <2>5 DEF BodyHolds
    <3>2. BodyHolds(v, u, s)'
      BY <1>3, <1>5, <2>5, <3>1 DEF BodyHolds, User
    <3> QED
      BY <3>2 DEF Held
  <2>6. ASSUME s \in crashed
        PROVE  Held(u, s)'
    BY <1>4, <2>6 DEF Held
  <2>7. \/ \E h \in Handlers : HandlerHolds(h, u, s)
        \/ \E j \in WaitingJobs : JobHolds(j, u, s)
        \/ \E v \in Workers : BodyHolds(v, u, s)
        \/ s \in crashed
    BY <2>2 DEF Held
  <2>8. Held(u, s)'
    BY <2>3, <2>4, <2>5, <2>6, <2>7
  <2> QED
    BY <2>2, <2>8
<1>12. \A u \in Users : session'[u].is_generating =>
          session'[u].sid # 0 /\ Held(u, session[u].sid)'
  BY <1>8, <1>11 DEF LocksHeld
<1> QED
  BY <1>9, <1>12, LocksHeldOn

\* The steps of users and handlers change no job that runs.
LEMMA BodiesOfOthersTied ==
    ASSUME PipelineInv, BodiesTied,
           \/ \E u \in Users : RecoverStale(u) \/ Stop(u)
           \/ \E h \in Handlers : \E u \in Users : Open(h, u) \/ PressNext(h, u)
           \/ \E h \in Handlers : HandlerStep(h)
    PROVE  BodiesTied'
<1>1. CASE UNCHANGED <<vars, body, payload>>
  BY <1>1, JobsThere, BodiesStayTied
<1>2. ASSUME NEW h \in Handlers, EnqueueChunk(h), ~UNCHANGED <<vars, payload>>
      PROVE  BodiesTied'
  <2> DEFINE load == [sid |-> handler[h].sid, part |-> 0]
  <2>1. /\ handler[h].user \in Users /\ handler[h].sid \in Sids /\ UNCHANGED body
        /\ BodiesFit
    BY <1>2, HandlerUser DEF EnqueueChunk, PipelineInv, Fits
  <2>2. load \in Loads /\ "user_visible" \in Priorities
    BY <2>1, Numbers DEF Loads, Priorities, PipelineInv
  <2>3. Accept(handler[h].user, "user_visible", load)
    BY <1>2 DEF EnqueueChunk
  <2> HIDE DEF load
  <2>4. /\ \A v \in Workers : job[v] # NoJob => payload'[job[v].id] = payload[job[v].id]
        /\ job' = job
    BY <2>1, <2>2, <2>3, AcceptKeepsJobs
  <2>5. \A v \in Workers : body[v].at \in HoldingStages => job[v] # NoJob
    BY <2>1 DEF BodiesFit, HoldingStages
  <2> QED
    BY <2>1, <2>4, <2>5, BodiesStayTied
<1>3. ASSUME NEW u \in Users, RecoverStale(u) \/ Stop(u)
      PROVE  UNCHANGED <<vars, body, payload>>
  BY <1>3 DEF RecoverStale, Stop
<1>4. ASSUME NEW h \in Handlers, NEW u \in Users, Open(h, u) \/ PressNext(h, u)
      PROVE  UNCHANGED <<vars, body, payload>>
  BY <1>4 DEF Open, PressNext
<1>5. ASSUME NEW h \in Handlers,
             \/ AbandonOpen(h) \/ Create(h) \/ SendChunk(h)
             \/ GiveUp(h) \/ HandlerRaises(h) \/ ReleaseLock(h)
      PROVE  UNCHANGED <<vars, body, payload>>
  BY <1>5 DEF AbandonOpen, Create, SendChunk, GiveUp, HandlerRaises, ReleaseLock
<1>6. ASSUME NEW h \in Handlers, EnqueueChunk(h)
      PROVE  UNCHANGED body
  BY <1>6 DEF EnqueueChunk
<1> QED
  BY <1>1, <1>2, <1>3, <1>4, <1>5, <1>6 DEF HandlerStep

\* Every step leaves each lock with one who has it to release.
LEMMA HolderStep ==
    PipelineInv /\ ReadingInv /\ HolderInv /\ [PipelineNext]_allVars => HolderInv'
<1> SUFFICES ASSUME PipelineInv, ReadingInv, LocksHeld, BodiesTied, [PipelineNext]_allVars
             PROVE  LocksHeld' /\ BodiesTied'
  BY DEF HolderInv
<1>1. ASSUME NEW u \in Users, RecoverStale(u) \/ Stop(u)
      PROVE  LocksHeld' /\ BodiesTied'
  BY <1>1, UsersKeepHolders, BodiesOfOthersTied
<1>2. ASSUME NEW h \in Handlers, NEW u \in Users, Open(h, u) \/ PressNext(h, u)
      PROVE  LocksHeld' /\ BodiesTied'
  BY <1>2, UsersKeepHolders, BodiesOfOthersTied
<1>3. ASSUME NEW h \in Handlers, HandlerStep(h)
      PROVE  LocksHeld' /\ BodiesTied'
  <2>1. LocksHeld'
    BY <1>3, OpeningsAreNumbered, CreateKeepsHolders, SendChunkKeepsHolders,
       EnqueueKeepsHolders, EndingsKeepHolders DEF HandlerStep
  <2> QED
    BY <1>3, <2>1, BodiesOfOthersTied
<1>4. ASSUME NEW w \in Workers, WorkerTurn(w) \/ JobStep(w)
      PROVE  LocksHeld' /\ BodiesTied'
  BY <1>4, TurnKeepsHolders, JobsKeepHolders, EndKeepsHolders DEF JobStep
<1>5. CASE UNCHANGED allVars
  <2>1. UNCHANGED <<vars, session, handler, body, payload, crashed>>
    BY <1>5 DEF allVars, pipelineVars
  <2>2. \A u \in Users : Held(u, session[u].sid) => Held(u, session[u].sid)'
    <3> SUFFICES ASSUME NEW u \in Users, Held(u, session[u].sid)
                 PROVE  Held(u, session[u].sid)'
      OBVIOUS
    <3>1. PICK s : s = session[u].sid
      OBVIOUS
    <3>2. Held(u, s)' /\ session'[u].sid = s
      BY <2>1, <3>1, HeldStays
    <3> QED
      BY <3>2
  <2>3. LocksHeld'
    BY <2>1, <2>2, LocksHeldOn
  <2> QED
    BY <2>1, <2>3, JobsThere, BodiesStayTied
<1> QED
  BY <1>1, <1>2, <1>3, <1>4, <1>5 DEF PipelineNext

\* No lock is taken in the beginning.
LEMMA HolderInitially == PipelineInit => HolderInv
<1> SUFFICES ASSUME PipelineInit PROVE HolderInv
  OBVIOUS
<1>1. \A u \in Users : ~session[u].is_generating
  BY DEF PipelineInit, NoSession
<1>2. \A w \in Workers : body[w].at \notin HoldingStages
  BY DEF PipelineInit, NoBody, HoldingStages
<1> QED
  BY <1>1, <1>2 DEF HolderInv, LocksHeld, BodiesTied

\* No generation lock is left behind: while a session is locked, a handler of its user or
\* a job of the session is still to release it, or one of them raised outside the code that
\* catches errors; for any number of handlers, workers, stale locks, parts and sessions.
THEOREM LockHasHolderHolds == PipelineSpec => []LockHasHolder
<1>1. PipelineInv /\ ReadingInv /\ [PipelineNext]_allVars => ReadingInv'
  BY ReadingStep
<1>2. PipelineInv /\ ReadingInv /\ HolderInv /\ [PipelineNext]_allVars => HolderInv'
  BY HolderStep
<1>3. PipelineInv /\ HolderInv => LockHasHolder
  <2> SUFFICES ASSUME PipelineInv, LocksHeld, BodiesTied, NEW u \in Users,
                      session[u].is_generating, Held(u, session[u].sid)
               PROVE  \/ \E h \in Handlers : IsBusyHandler(h, u)
                      \/ \E j \in WaitingJobs \cup RunningJobs : IsChunkJobOf(j, u)
                      \/ session[u].sid \in crashed
    BY DEF HolderInv, LocksHeld, LockHasHolder
  <2>1. ASSUME NEW w \in Workers, BodyHolds(w, u, session[u].sid)
        PROVE  job[w] \in RunningJobs /\ IsChunkJobOf(job[w], u)
    <3>1. body[w].at # "none" /\ body[w].at \in HoldingStages
      BY <2>1 DEF BodyHolds, HoldingStages
    <3>2. w \in Running
      BY <3>1, JobFacts
    <3>3. job[w] \in RunningJobs
      BY <3>2 DEF RunningJobs
    <3> QED
      BY <2>1, <3>1, <3>3 DEF BodyHolds, User, BodiesTied, IsChunkJobOf
  <2>2. \A j : JobHolds(j, u, session[u].sid) => IsChunkJobOf(j, u)
    BY DEF JobHolds, IsChunkJobOf
  <2> QED
    BY <2>1, <2>2 DEF Held, HandlerHolds
<1> QED
  BY <1>1, <1>2, <1>3, ReadingInitially, HolderInitially, PipelineInvariant, PTL
     DEF PipelineSpec
=============================================================================
