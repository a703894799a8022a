---------------------------- MODULE RedisReading ----------------------------
(***************************************************************************)
(* One user's reading with the Redis backends: the session repository, the *)
(* prefetch protocol that runs over the session's fields, the chunk,       *)
(* prefetch and export jobs, and the deletion of private data.             *)
(*                                                                         *)
(* Every command to Redis is a step of its own, and any number of actors   *)
(* (handlers of the bot, workers of any process) interleave between two.   *)
(* A get is two commands: it reads the session and stores it back whole.   *)
(* The queue hands a pending job to any free actor; its order and its own  *)
(* failures are RedisAudioQueue's.                                         *)
(***************************************************************************)
EXTENDS Integers, FiniteSets, Bags

CONSTANTS Actors,         \* handlers and workers that may run at once
          Parts,          \* length of a text
          MaxSessions,    \* bound: sessions ever opened
          MaxEvents,      \* bound: buttons, messages, failures, lost workers, lapses of time
          MaxCauses,      \* bound: kinds of trouble in one behaviour
          Commands        \* what the user does, out of AllCommands

AllCommands == {"open", "next", "stop", "export", "erase"}
ASSUME RedisReadingAssumption ==
    /\ IsFiniteSet(Actors) /\ Commands \subseteq AllCommands
    /\ Parts \in Nat \ {0} /\ MaxSessions \in Nat \ {0}
    /\ {MaxEvents, MaxCauses} \subseteq Nat

VARIABLES
    store,      \* reading:session:<user>
    disk,       \* audio files in the temporary directory
    actor,      \* where each handler or worker is suspended, and its locals
    pending,    \* jobs in the queue, a bag
    marked,     \* deletions of private data asked for
    marker,     \* reading:privacy_delete:<user>, as the number of that deletion
    opened, events,
    causes,     \* history: the races and failures that happened
    heard,      \* history: the last part of each session the user heard
    misheard,   \* history: how a voice differed from what was due
    ended,      \* history: sessions that were deleted
    lost,       \* history: files that a step left without an owner
    sending     \* history: sessions with a voice on its way when the marker was set

sessionVars == <<store, ended>>
boundVars == <<opened, events>>
voiceVars == <<heard, misheard>>
markVars == <<marked, marker, sending>>
readingVars == <<store, disk, actor, pending, boundVars, causes, voiceVars,
                 ended, lost, markVars>>

Sids == 1..MaxSessions
Kinds == {"chunk", "prefetch", "export"}
Audio == [sid : Sids, part : 0..Parts, by : Kinds]    \* part 0: the export in one file
NoSession == [sid |-> 0, index |-> 0, generating |-> "no",
              prefetch |-> "none", pindex |-> -1, files |-> {}]
NoJob == [kind |-> "none", sid |-> 0, index |-> 0, born |-> 0]
Idle == [at |-> "idle", job |-> NoJob, index |-> 0, seen |-> NoSession,
         putting |-> FALSE, files |-> {}, then |-> "idle"]

ChunkJob(sid) == [NoJob EXCEPT !.kind = "chunk", !.sid = sid]

\* We start to look at a session that is at rest, at any part.
ReadingInit ==
    /\ store \in {[NoSession EXCEPT !.sid = 1, !.index = i] : i \in 0..Parts}
    /\ pending = EmptyBag
    /\ disk = {}
    /\ actor = [a \in Actors |-> Idle]
    /\ marked = 0 /\ marker = 0 /\ sending = {}
    /\ opened = 1 /\ events = 0
    /\ causes = {}
    /\ heard = [s \in Sids |-> IF s = 1 THEN store.index ELSE 0]
    /\ misheard = {}
    /\ ended = {}
    /\ lost = {}

------------------------------------------------------------------------------
\* The repository.

At(a, at) == actor[a].at = at /\ ~actor[a].putting
Job(a) == actor[a].job
Seen(a) == actor[a].seen
Moves(a, at) == actor' = [actor EXCEPT ![a].at = at]
Ends(a) == actor' = [actor EXCEPT ![a] = Idle]

\* A worker of the queue, and the handler of a text that was opened, are told from the
\* handler of a button by what comes after.
IsWorker(a) == actor[a].then = "job"
Opening(a) == actor[a].then = "create"

Reads == {"context", "current", "busy", "first", "wait", "again", "last", "unlock", "erasing"}

\* An old lock is released by whoever reads the session.
Recovered(s) == IF s.generating = "stale" THEN [s EXCEPT !.generating = "no"] ELSE s

\* get, first command.
ReadSession(a) ==
    /\ actor[a].at \in Reads
    /\ ~actor[a].putting
    /\ actor' = [actor EXCEPT ![a].seen = Recovered(store), ![a].putting = TRUE]
    /\ UNCHANGED <<store, disk, pending, boundVars, causes, voiceVars, ended, lost, markVars>>

\* send_audio_chunk goes on with a session that its button was not checked against.
Unchecked(a) ==
    /\ actor[a].at = "current" /\ Job(a).kind = "chunk"
    /\ Seen(a).sid \notin {0, Job(a).sid}

\* get, second command: what was read is stored, whatever is there by now.
WritesBack(a) ==
    LET s == Seen(a) IN
    IF s.sid = 0 THEN UNCHANGED <<store, causes, lost>>
    ELSE /\ store' = s
         /\ causes' = causes \cup
               (IF Recovered(store) = Recovered(s) THEN {} ELSE {"overlap"}) \cup
               (IF Unchecked(a) THEN {"replaced"} ELSE {})
         /\ lost' = lost \cup (store.files \ s.files)

Got(a, at) == actor[a].at = at /\ actor[a].putting /\ WritesBack(a)
Continues(a, at) == actor' = [actor EXCEPT ![a].putting = FALSE, ![a].at = at]

\* Slip: update creates the session.
MergedAlways(a, sid, s) ==
    /\ store' = [s EXCEPT !.sid = IF store.sid = 0 THEN sid ELSE @]
    /\ UNCHANGED causes

\* update: the fields are merged into the stored session, if there is one.
Merged(a, sid, s) ==
    /\ store' = IF store.sid = 0 THEN store ELSE s
    /\ causes' = IF store.sid \in {0, sid} THEN causes ELSE causes \cup {"replaced"}

Updates(a, s) == Merged(a, Job(a).sid, s)

\* cleanup: read, then delete; the files of the session that was read go.
ReadForCleanup(a) ==
    /\ At(a, "cleanup")
    /\ actor' = [actor EXCEPT ![a].seen = store, ![a].at = "delete"]
    /\ UNCHANGED <<store, disk, pending, boundVars, causes, voiceVars, ended, lost, markVars>>

DeleteSession(a) ==
    /\ At(a, "delete")
    /\ store' = NoSession
    /\ ended' = ended \cup ({store.sid} \ {0})
    /\ lost' = lost \cup (store.files \ Seen(a).files)
    /\ disk' = disk \ Seen(a).files
    /\ CASE actor[a].then = "reopen" ->
              actor' = [actor EXCEPT ![a].at = "cleanup", ![a].then = "create"]
         [] actor[a].then \in {"idle", "job"} -> Ends(a)
         [] OTHER -> Moves(a, actor[a].then)
    /\ UNCHANGED <<pending, boundVars, causes, voiceVars, markVars>>

CleansUp(a, then) ==
    actor' = [actor EXCEPT ![a].putting = FALSE, ![a].at = "cleanup", ![a].then = then]

------------------------------------------------------------------------------
\* What the user does: handlers of messages and buttons.

Event == events < MaxEvents /\ events' = events + 1 /\ UNCHANGED opened

Starts(a, command, at, job) ==
    /\ command \in Commands
    /\ actor[a] = Idle
    /\ Event
    /\ actor' = [actor EXCEPT ![a].at = at, ![a].job = job]

\* A button belongs to a session that was opened, maybe an earlier one.
Button(kind) == {[NoJob EXCEPT !.kind = kind, !.sid = s] : s \in 1..opened}

PressNext(a) == \E b \in Button("chunk") : Starts(a, "next", "context", b)
PressExport(a) == \E b \in Button("export") : Starts(a, "export", "context", b)
PressStop(a) == \E b \in Button("none") : Starts(a, "stop", "context", b)
SendText(a) == Starts(a, "open", "busy", NoJob)

Command(a) ==
    /\ PressNext(a) \/ PressExport(a) \/ PressStop(a) \/ SendText(a)
    /\ UNCHANGED <<store, disk, pending, causes, voiceVars, ended, lost, markVars>>

\* Slip: one part too many.
CompleteOffByOne(s) == s.index > Parts

Complete(s) == s.index >= Parts

SameSession(a) == Seen(a).sid = Job(a).sid

\* _get_reading_callback_context; Stop also cleans up when there is no session.
Context(a) ==
    /\ Got(a, "context")
    /\ IF Job(a).kind = "none"
       THEN IF Seen(a).sid \in {0, Job(a).sid} THEN CleansUp(a, "idle") ELSE Ends(a)
       ELSE IF Seen(a).sid = Job(a).sid /\ (Job(a).kind = "export" => Complete(Seen(a)))
            THEN Continues(a, "try") ELSE Ends(a)
    /\ UNCHANGED <<disk, pending, boundVars, voiceVars, ended, markVars>>

\* Slip: the flag is set without looking.
StartableAlways(s) == s.sid # 0

Startable(s) == s.sid # 0 /\ s.generating # "yes"

TryStart(a) ==
    /\ At(a, "try")
    /\ IF Startable(store)
       THEN Updates(a, [store EXCEPT !.generating = "yes"]) /\ Moves(a, "current")
       ELSE UNCHANGED <<store, causes>> /\ Ends(a)
    /\ UNCHANGED <<disk, pending, boundVars, voiceVars, ended, lost, markVars>>

\* The handler of a button ends with an apology, which process_read_next and
\* process_read_export_audio guard; other handlers, and jobs, just end.
Apologises(a) == IF actor[a].then = "idle" THEN Continues(a, "sorry") ELSE Ends(a)

\* send_audio_chunk takes the session it finds, export_reading_audio only its own.
Current(a) ==
    LET s == Seen(a) IN
    /\ Got(a, "current")
    /\ \/ /\ s.sid = 0 \/ (Job(a).kind = "export" /\ ~(SameSession(a) /\ Complete(s)))
          /\ Apologises(a)
       \/ /\ s.sid # 0 /\ Job(a).kind = "chunk" /\ Complete(s)
          /\ CleansUp(a, IF Opening(a) THEN "idle" ELSE "sorry")
       \/ /\ s.sid # 0
          /\ IF Job(a).kind = "chunk" THEN ~Complete(s) ELSE SameSession(a) /\ Complete(s)
          /\ actor' = [actor EXCEPT ![a].putting = FALSE, ![a].at = "flag", ![a].job.sid = s.sid]
    /\ UNCHANGED <<disk, pending, boundVars, voiceVars, ended, markVars>>

Flag(a) ==
    /\ At(a, "flag")
    /\ Updates(a, [store EXCEPT !.generating = "yes"])
    /\ actor' = [actor EXCEPT ![a].at = "enqueue", ![a].job.born = marked]
    /\ UNCHANGED <<disk, pending, boundVars, voiceVars, ended, lost, markVars>>

Enqueue(a) ==
    /\ At(a, "enqueue")
    /\ \/ /\ pending' = pending (+) SetToBag({Job(a)})
          /\ Ends(a)
          /\ UNCHANGED boundVars
          /\ UNCHANGED causes
       \/ /\ Event                                     \* the queue is full, or unreachable
          /\ Moves(a, "last")
          /\ UNCHANGED <<pending, causes>>
       \/ /\ Event                                     \* the job is there, the answer is lost
          /\ pending' = pending (+) SetToBag({Job(a)})
          /\ Moves(a, "last")
          /\ causes' = causes \cup {"unanswered"}
    /\ UNCHANGED <<store, disk, voiceVars, ended, lost, markVars>>

\* A call to Telegram raises where nothing catches it: callback.answer once the lock is
\* taken, the announcement of a new text, or the message of a job about to be queued.
HandlerRaises(a) ==
    /\ At(a, "current") \/ (At(a, "enqueue") /\ (Opening(a) \/ Job(a).kind = "chunk"))
    /\ Event
    /\ Ends(a)
    /\ causes' = causes \cup {"abandoned"}
    /\ UNCHANGED <<store, disk, pending, voiceVars, ended, lost, markVars>>

\* The callback has no message, or the error is caught: the lock is released.
TurnsBack(a) ==
    /\ At(a, "current") \/ At(a, "enqueue")
    /\ ~Opening(a)
    /\ Event
    /\ Moves(a, "unlock")
    /\ UNCHANGED <<store, disk, pending, causes, voiceVars, ended, lost, markVars>>

\* An apology that raises is such an error too, though the lock was released before it.
Sorry(a) ==
    /\ At(a, "sorry")
    /\ \/ Ends(a) /\ UNCHANGED <<boundVars, causes>>
       \/ Event /\ Moves(a, "unlock") /\ causes' = causes \cup {"released"}
    /\ UNCHANGED <<store, disk, pending, voiceVars, ended, lost, markVars>>

\* has_current_reading_session, then finish_reading_generation, whose session it may be.
Unlock(a) ==
    /\ Got(a, "unlock")
    /\ IF Seen(a).sid = 0 THEN Ends(a)
       ELSE actor' = [actor EXCEPT ![a].putting = FALSE, ![a].at = "release", ![a].then = "sorry"]
    /\ UNCHANGED <<disk, pending, boundVars, voiceVars, ended, markVars>>

\* handle_message: a busy session refuses the message, any other one is dropped; after
\* the extraction, unless that fails, it is dropped again and the new one is stored.
Busy(a) ==
    /\ Got(a, "busy")
    /\ IF Seen(a).generating # "no" \/ opened = MaxSessions THEN Ends(a)
       ELSE CleansUp(a, "reopen")
    /\ UNCHANGED <<disk, pending, boundVars, voiceVars, ended, markVars>>

Create(a) ==
    /\ At(a, "create")
    /\ \/ /\ opened < MaxSessions
          /\ opened' = opened + 1
          /\ store' = [NoSession EXCEPT !.sid = opened + 1, !.generating = "yes"]
          /\ lost' = lost \cup store.files
          /\ ended' = ended \cup ({store.sid} \ {0})
          /\ actor' = [actor EXCEPT ![a].at = "current", ![a].job = ChunkJob(opened + 1)]
       \/ Ends(a) /\ UNCHANGED <<store, opened, lost, ended>>
    /\ UNCHANGED <<disk, pending, events, causes, voiceVars, markVars>>

\* /delete_my_data: the marker, the session, the queue.
Erase(a) ==
    /\ Starts(a, "erase", "mark", NoJob)
    /\ marked = 0
    /\ marked' = 1
    /\ UNCHANGED <<store, disk, pending, causes, voiceVars, ended, lost, marker, sending>>

SetMarker(a) ==
    /\ At(a, "mark")
    /\ marker' = marked
    /\ sending' = {Job(b).sid : b \in {b \in Actors : actor[b].at = "send"}}
    /\ Moves(a, "erasing")
    /\ UNCHANGED <<store, disk, pending, boundVars, causes, voiceVars, ended, lost, marked>>

Erasing(a) ==
    /\ Got(a, "erasing")
    /\ CleansUp(a, "purge")
    /\ UNCHANGED <<disk, pending, boundVars, voiceVars, ended, markVars>>

Purge(a) ==
    /\ At(a, "purge")
    /\ pending' = EmptyBag
    /\ Ends(a)
    /\ UNCHANGED <<store, disk, boundVars, causes, voiceVars, ended, lost, markVars>>

------------------------------------------------------------------------------
\* Jobs. The executor's check of the marker and the job's own first one are one step.

Take(a) ==
    /\ actor[a] = Idle
    /\ \E j \in BagToSet(pending) :
         /\ pending' = pending (-) SetToBag({j})
         /\ actor' = [actor EXCEPT ![a].at = "check", ![a].job = j, ![a].index = j.index,
                                    ![a].then = "job"]
    /\ UNCHANGED <<store, disk, boundVars, causes, voiceVars, ended, lost, markVars>>

Skips(job) == job.born < marker

Started(a) == Job(a).kind = "export" /\ actor[a].index > 0

\* An export that has begun removes its files and releases the lock on every exit.
Check(a) ==
    /\ At(a, "check")
    /\ IF ~Skips(Job(a)) THEN Moves(a, "first") /\ UNCHANGED disk
       ELSE IF Started(a)
            THEN /\ disk' = disk \ actor[a].files
                 /\ actor' = [actor EXCEPT ![a].at = "last", ![a].files = {}]
            ELSE Ends(a) /\ UNCHANGED disk
    /\ UNCHANGED <<store, pending, boundVars, causes, voiceVars, ended, lost, markVars>>

\* get_audio_from_prefetch_or_generate: it waits while the prefetch of this part is on
\* its way, at most three seconds, and then decides with the last session it read.
OnItsWay(s) == s.prefetch \in {"queued", "running"}
Fits(index, s) == s.pindex = index

Decided(index, s) ==
    CASE Fits(index, s) /\ s.prefetch = "ready" /\ s.files # {} -> "claim"
      [] Fits(index, s) /\ s.prefetch = "failed" -> "reset"
      [] OTHER -> "generate"

Resolved(index, s) == IF Fits(index, s) /\ OnItsWay(s) THEN "wait" ELSE Decided(index, s)

First(a) ==
    LET s == Seen(a) k == Job(a).kind IN
    /\ Got(a, "first")
    /\ \/ /\ ~SameSession(a) /\ ~Started(a)
          /\ Ends(a) /\ UNCHANGED disk
       \/ /\ ~SameSession(a) /\ Started(a)
          /\ disk' = disk \ actor[a].files
          /\ actor' = [actor EXCEPT ![a].putting = FALSE, ![a].at = "last", ![a].files = {}]
       \/ /\ SameSession(a) /\ k = "chunk" /\ Complete(s)
          /\ CleansUp(a, "job") /\ UNCHANGED disk
       \/ /\ SameSession(a) /\ k = "export" /\ ~Started(a) /\ ~Complete(s)
          /\ Continues(a, "outside") /\ UNCHANGED disk
       \/ /\ SameSession(a) /\ k = "chunk" /\ ~Complete(s)
          /\ actor' = [actor EXCEPT ![a].putting = FALSE, ![a].index = s.index,
                                      ![a].at = "outside"]
          /\ UNCHANGED disk
       \/ /\ SameSession(a) /\ k = "prefetch"
          /\ Continues(a, "running") /\ UNCHANGED disk
       \/ /\ SameSession(a) /\ k = "export" /\ (Started(a) \/ Complete(s))
          /\ Continues(a, "generate") /\ UNCHANGED disk
    /\ UNCHANGED <<pending, boundVars, voiceVars, ended, markVars>>

\* Before its try block a chunk job reads the settings from SQLite, and a refused export
\* says so: an error there passes by the release of the lock.
Settings(a) ==
    /\ At(a, "outside")
    /\ \/ /\ Moves(a, IF Job(a).kind = "chunk" THEN Resolved(actor[a].index, Seen(a)) ELSE "last")
          /\ UNCHANGED <<boundVars, causes>>
       \/ /\ Event
          /\ Ends(a)
          /\ causes' = causes \cup {"abandoned"}
    /\ UNCHANGED <<store, disk, pending, voiceVars, ended, lost, markVars>>

Running(a) ==
    /\ At(a, "running")
    /\ Updates(a, [store EXCEPT !.prefetch = "running", !.pindex = actor[a].index])
    /\ Moves(a, "generate")
    /\ UNCHANGED <<disk, pending, boundVars, voiceVars, ended, lost, markVars>>

Waited(a) ==
    /\ Got(a, "wait")
    /\ \/ Continues(a, Decided(actor[a].index, Seen(a)))
       \/ OnItsWay(Seen(a)) /\ Continues(a, "wait")
    /\ UNCHANGED <<disk, pending, boundVars, voiceVars, ended, markVars>>

Claim(a) ==
    /\ At(a, "claim")
    /\ Updates(a, [store EXCEPT !.prefetch = "none", !.pindex = -1, !.files = {}])
    /\ lost' = lost \cup (store.files \ Seen(a).files)
    /\ actor' = [actor EXCEPT ![a].at = "again", ![a].files = Seen(a).files]
    /\ UNCHANGED <<disk, pending, boundVars, voiceVars, ended, markVars>>

Reset(a) ==
    /\ At(a, "reset")
    /\ Updates(a, [store EXCEPT !.prefetch = "none", !.pindex = -1, !.files = {}])
    /\ lost' = lost \cup store.files
    /\ Moves(a, "generate")
    /\ UNCHANGED <<disk, pending, boundVars, voiceVars, ended, markVars>>

Made(a) == [sid |-> Job(a).sid, part |-> actor[a].index + 1, by |-> Job(a).kind]

Drops(a, at) ==
    /\ disk' = disk \ actor[a].files
    /\ actor' = [actor EXCEPT ![a].putting = FALSE, ![a].at = at, ![a].files = {}]

\* Slip: a return that passes by the finally.
LeavesAtOnce(a) == Ends(a) /\ UNCHANGED disk

\* A prefetch ends where the other jobs release the lock.
Leaves(a) ==
    IF Job(a).kind = "prefetch"
    THEN disk' = disk \ actor[a].files /\ Ends(a)
    ELSE Drops(a, "last")

Generate(a) ==
    LET k == Job(a).kind IN
    /\ At(a, "generate")
    /\ \/ /\ disk' = disk \cup {Made(a)}
          /\ actor' = [actor EXCEPT ![a].files = @ \cup {Made(a)},
                                    ![a].at = IF k = "export" THEN "check2" ELSE "again"]
          /\ UNCHANGED boundVars
       \/ /\ Event                                      \* every provider failed
          /\ IF k = "prefetch" THEN Moves(a, "check3") /\ UNCHANGED disk ELSE Drops(a, "last")
    /\ UNCHANGED <<store, pending, causes, voiceVars, ended, lost, markVars>>

Again(a) ==
    /\ Got(a, "again")
    /\ IF ~SameSession(a) THEN Leaves(a)
       ELSE /\ Continues(a, IF Job(a).kind = "export" THEN "send" ELSE "check2")
            /\ UNCHANGED disk
    /\ UNCHANGED <<pending, boundVars, voiceVars, ended, markVars>>

\* Between two parts of an export, and after the last one the parts are joined.
Joined(a) == [sid |-> Job(a).sid, part |-> 0, by |-> "export"]
NextPart(a) ==
    \/ /\ actor[a].index + 1 < Parts
       /\ actor' = [actor EXCEPT ![a].index = @ + 1, ![a].at = "check"]
       /\ UNCHANGED <<disk, boundVars>>
    \/ /\ actor[a].index + 1 = Parts
       /\ disk' = disk \cup {Joined(a)}
       /\ actor' = [actor EXCEPT ![a].files = @ \cup {Joined(a)}, ![a].at = "check3"]
       /\ UNCHANGED boundVars
    \/ /\ actor[a].index + 1 = Parts
       /\ Event                                         \* ffmpeg failed, or the file is too large
       /\ Drops(a, "last")

SecondCheck(a) ==
    /\ At(a, "check2")
    /\ \/ Skips(Job(a)) /\ Leaves(a) /\ UNCHANGED boundVars
       \/ /\ ~Skips(Job(a)) /\ Job(a).kind # "export"
          /\ Moves(a, IF Job(a).kind = "chunk" THEN "advance" ELSE "ready")
          /\ UNCHANGED <<disk, boundVars>>
       \/ ~Skips(Job(a)) /\ Job(a).kind = "export" /\ NextPart(a)
    /\ UNCHANGED <<store, pending, causes, voiceVars, ended, lost, markVars>>

\* The index moves on before the voice is sent.
Advance(a) ==
    /\ At(a, "advance")
    /\ Updates(a, [store EXCEPT !.index = actor[a].index + 1])
    /\ Moves(a, "check3")
    /\ UNCHANGED <<disk, pending, boundVars, voiceVars, ended, lost, markVars>>

\* is_premium_user raises: the files stay, and the part is not sent.
PremiumFails(a) ==
    /\ At(a, "check3") /\ Job(a).kind = "chunk"
    /\ Event
    /\ actor' = [actor EXCEPT ![a].at = "last", ![a].files = {}]
    /\ lost' = lost \cup actor[a].files
    /\ causes' = causes \cup {"unsent"}
    /\ UNCHANGED <<store, disk, pending, voiceVars, ended, markVars>>

ThirdCheck(a) ==
    LET k == Job(a).kind IN
    /\ At(a, "check3")
    /\ IF Skips(Job(a))
       THEN Leaves(a) /\ causes' = IF k = "chunk" THEN causes \cup {"unsent"} ELSE causes
       ELSE /\ Moves(a, CASE k = "chunk" -> "send" [] k = "export" -> "again" [] OTHER -> "failed")
            /\ UNCHANGED <<disk, causes>>
    /\ UNCHANGED <<store, pending, boundVars, voiceVars, ended, lost, markVars>>

\* How the voice that arrives differs from the part that is due.
Faults(a, part) ==
    {f \in {"again", "skipped", "wrong", "late"} :
        CASE f = "again" -> part <= heard[Job(a).sid]
          [] f = "skipped" -> part > heard[Job(a).sid] + 1
          [] f = "wrong" -> \E file \in actor[a].files : <<file.sid, file.part>> # <<Job(a).sid, part>>
          [] f = "late" -> Job(a).born < marker /\ Job(a).sid \notin sending}

AfterVoice(a) == IF Job(a).kind = "chunk" /\ actor[a].index + 1 < Parts THEN "queue" ELSE "last"

Send(a) ==
    LET part == actor[a].index + 1 IN
    /\ At(a, "send")
    /\ actor[a].files \subseteq disk
    /\ \/ /\ Job(a).kind = "chunk"
          /\ misheard' = misheard \cup Faults(a, part)
          /\ heard' = [heard EXCEPT ![Job(a).sid] = part]
          /\ UNCHANGED <<boundVars, causes>>
       \/ /\ Job(a).kind = "chunk"
          /\ Event                              \* it arrived, the answer did not: sent again
          /\ misheard' = misheard \cup Faults(a, part) \cup {"repeated"}
          /\ heard' = [heard EXCEPT ![Job(a).sid] = part]
          /\ causes' = causes \cup {"resent"}
       \/ /\ Job(a).kind = "export"
          /\ UNCHANGED <<voiceVars, boundVars, causes>>
    /\ Drops(a, AfterVoice(a))
    /\ UNCHANGED <<store, pending, ended, lost, markVars>>

\* A voice that Telegram refuses, or whose file is gone, is given up without an error.
SendFails(a) ==
    /\ At(a, "send")
    /\ IF actor[a].files \subseteq disk THEN Event ELSE UNCHANGED boundVars
    /\ Drops(a, AfterVoice(a))
    /\ causes' = causes \cup {"unsent"}
    /\ UNCHANGED <<store, pending, voiceVars, ended, lost, markVars>>

\* start_prefetch_next_chunk: what was ready is forgotten.
Queue(a) ==
    /\ At(a, "queue")
    /\ Updates(a, [store EXCEPT !.prefetch = "queued", !.pindex = actor[a].index + 1, !.files = {}])
    /\ lost' = lost \cup store.files
    /\ Moves(a, "push")
    /\ UNCHANGED <<disk, pending, boundVars, voiceVars, ended, markVars>>

PrefetchJob(a) == [kind |-> "prefetch", sid |-> Job(a).sid, index |-> actor[a].index + 1,
                   born |-> marked]

Push(a) ==
    /\ At(a, "push")
    /\ \/ pending' = pending (+) SetToBag({PrefetchJob(a)}) /\ Moves(a, "last") /\ UNCHANGED boundVars
       \/ Event /\ Moves(a, "unqueued") /\ UNCHANGED pending
       \/ /\ Event                                     \* the job is there, the answer is lost
          /\ pending' = pending (+) SetToBag({PrefetchJob(a)})
          /\ Moves(a, "unqueued")
    /\ UNCHANGED <<store, disk, causes, voiceVars, ended, lost, markVars>>

Unqueued(a) ==
    /\ At(a, "unqueued")
    /\ Updates(a, [store EXCEPT !.prefetch = "failed", !.pindex = actor[a].index + 1, !.files = {}])
    /\ lost' = lost \cup store.files
    /\ Moves(a, "last")
    /\ UNCHANGED <<disk, pending, boundVars, voiceVars, ended, markVars>>

\* The end of a prefetch.
Ready(a) ==
    /\ At(a, "ready")
    /\ Updates(a, [store EXCEPT !.prefetch = "ready", !.pindex = actor[a].index,
                                !.files = actor[a].files])
    /\ lost' = lost \cup IF store.sid = 0 THEN actor[a].files ELSE store.files \ actor[a].files
    /\ Ends(a)
    /\ UNCHANGED <<disk, pending, boundVars, voiceVars, ended, markVars>>

Failed(a) ==
    /\ At(a, "failed")
    /\ Updates(a, [store EXCEPT !.prefetch = "failed", !.pindex = actor[a].index, !.files = {}])
    /\ lost' = lost \cup store.files
    /\ Ends(a)
    /\ UNCHANGED <<disk, pending, boundVars, voiceVars, ended, markVars>>

\* Slip: the lock is released when the session is another one.
LastInverted(a) ==
    /\ Got(a, "last")
    /\ IF SameSession(a) THEN Apologises(a) ELSE Continues(a, "release")
    /\ UNCHANGED <<disk, pending, boundVars, voiceVars, ended, markVars>>

\* _finish_generation_if_session.
Last(a) ==
    /\ Got(a, "last")
    /\ IF SameSession(a) THEN Continues(a, "release") ELSE Apologises(a)
    /\ UNCHANGED <<disk, pending, boundVars, voiceVars, ended, markVars>>

Release(a) ==
    /\ At(a, "release")
    /\ Updates(a, [store EXCEPT !.generating = "no"])
    /\ Apologises(a)
    /\ UNCHANGED <<disk, pending, boundVars, voiceVars, ended, lost, markVars>>

------------------------------------------------------------------------------
\* The world.

\* READING_GENERATION_STALE_SECONDS pass: the lock counts as abandoned.
Aged(s) == IF s.generating = "yes" THEN [s EXCEPT !.generating = "stale"] ELSE s
Elapse ==
    /\ store.generating = "yes"
    /\ Event
    /\ store' = Aged(store)
    /\ actor' = [a \in Actors |-> [actor[a] EXCEPT !.seen = Aged(@)]]
    /\ causes' = causes \cup {"stale"}
    /\ UNCHANGED <<disk, pending, voiceVars, ended, lost, markVars>>

\* A process dies; the queue hands the job of its worker to another one, and nobody
\* goes on with its handler.
Lose(a) ==
    /\ actor[a].at # "idle"
    /\ Event
    /\ \/ /\ IsWorker(a)
          /\ pending' = pending (+) SetToBag({Job(a)})
          /\ lost' = lost \cup actor[a].files
          /\ causes' = causes \cup {"crash"}
       \/ /\ ~IsWorker(a)
          /\ causes' = causes \cup {"abandoned"}
          /\ UNCHANGED <<pending, lost>>
    /\ Ends(a)
    /\ UNCHANGED <<store, disk, voiceVars, ended, markVars>>

SessionStep(a) == ReadSession(a) \/ ReadForCleanup(a) \/ DeleteSession(a)
HandlerStep(a) ==
    \/ Command(a) \/ Context(a) \/ TryStart(a) \/ Current(a) \/ Flag(a) \/ Enqueue(a)
    \/ HandlerRaises(a) \/ TurnsBack(a) \/ Sorry(a) \/ Unlock(a)
    \/ Busy(a) \/ Create(a) \/ Erase(a) \/ SetMarker(a) \/ Erasing(a) \/ Purge(a)
ChunkStep(a) ==
    \/ Waited(a) \/ Claim(a) \/ Reset(a) \/ Advance(a) \/ PremiumFails(a)
    \/ Send(a) \/ SendFails(a) \/ Queue(a) \/ Push(a) \/ Unqueued(a)
JobStep(a) ==
    \/ Take(a) \/ Check(a) \/ First(a) \/ Settings(a) \/ Running(a) \/ Generate(a) \/ Again(a)
    \/ SecondCheck(a) \/ ThirdCheck(a) \/ Ready(a) \/ Failed(a) \/ Last(a) \/ Release(a)

ReadingNext ==
    /\ Cardinality(causes) <= MaxCauses
    /\ \/ \E a \in Actors :
            SessionStep(a) \/ HandlerStep(a) \/ ChunkStep(a) \/ JobStep(a) \/ Lose(a)
       \/ Elapse

RedisReadingSpec == ReadingInit /\ [][ReadingNext]_readingVars

------------------------------------------------------------------------------
\* Properties.

\* Type invariant.
RedisReadingTypeOK ==
    /\ store.sid \in 0..MaxSessions /\ store.index \in 0..Parts
    /\ store.generating \in {"no", "yes", "stale"}
    /\ store.prefetch \in {"none", "queued", "running", "ready", "failed"}
    /\ store.pindex \in -1..Parts /\ store.files \subseteq Audio
    /\ disk \subseteq Audio /\ lost \subseteq Audio
    /\ \A a \in Actors : actor[a].files \subseteq Audio /\ actor[a].index \in 0..Parts
    /\ IsABag(pending)
    /\ opened \in 1..MaxSessions /\ events \in 0..MaxEvents
    /\ heard \in [Sids -> 0..Parts] /\ ended \subseteq Sids

Excused(kind) ==
    CASE kind = "again" -> {"overlap", "stale", "crash", "replaced", "released", "unanswered"}
      [] kind = "skipped" ->
            {"overlap", "stale", "crash", "unsent", "replaced", "released", "unanswered"}
      [] kind = "wrong" -> {"replaced", "overlap"}
      [] kind = "repeated" -> {"resent"}
      [] kind = "late" -> {}

\* The user hears the parts of each text in order, each once, with its own audio, and
\* none that was taken up after the data were deleted.  A part comes again only after a
\* get stored an older session over a newer one, a lock went stale or was released twice
\* by an apology that failed, a worker died, a job was queued without an answer, or a
\* session was replaced between a check and the update that followed it; it comes twice
\* in a row if Telegram lost its answer to the voice.  One is skipped only for the
\* reasons that bring one again, or because its job failed once the index had moved on.
PartsOnceInOrder ==
    \A kind \in misheard : Excused(kind) \cap causes # {}

\* A session that was stopped, replaced or erased never comes back, except when a get
\* stores back what it had read before.
StoppedStaysStopped ==
    store.sid \in ended => "overlap" \in causes

\* Every audio file is held by the job that made it, waits in the session, or was lost
\* where the code is known to lose it: a prefetch that ends after its session, an update
\* over files nobody fetched, a cleanup or a get that had read an older session, a worker
\* that died, an error between the move of the index and the sending of the voice.
FilesAccounted ==
    disk \subseteq store.files \cup lost \cup UNION {actor[a].files : a \in Actors}

\* While a session is marked as generating, some handler or job is about to release the
\* mark, even if a worker died or a voice could not be sent.  It is left behind only when
\* a handler died or failed where nothing catches the error, or a job did before its try
\* block; when a session was replaced between a check and the command that followed, a
\* get stored back an older mark, or the data were deleted; and when two jobs ran at
\* once, one of which takes back the end of a text that an export has just seen complete.
GenerationReleased ==
    \/ store.generating # "yes"
    \/ causes \cap {"abandoned", "replaced", "overlap", "stale", "released", "unanswered"} # {}
    \/ marked > 0
    \/ \E j \in BagToSet(pending) \cup {Job(a) : a \in Actors} :
          j.kind \in {"chunk", "export"} /\ j.sid = store.sid
==============================================================================
