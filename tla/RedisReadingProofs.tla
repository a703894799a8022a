------------------------- MODULE RedisReadingProofs -------------------------
(***************************************************************************)
(* Theorems about the readings kept in Redis for any processes, parts,     *)
(* events and number of sessions.                                          *)
(*                                                                         *)
(* One inductive invariant, ReadingInv, in parts that lean on one another: *)
(* ShapeInv says what may be found at each place of an actor; SessionsInv  *)
(* that a session is stored or was ended; LockInv that whoever is on the   *)
(* way with a chunk or an export of a session is alone and finds it        *)
(* marked; HeardInv how far behind the stored index the user is; AudioInv  *)
(* whose audio the files are that are held, stored or about to be sent;    *)
(* SendingInv which voice may still go out after a deletion.  Each part is *)
(* claimed only while the causes it is sensitive to (a get that stored an  *)
(* older session over a newer one, a session replaced before a write, a    *)
(* lock grown stale or released twice, a job queued without an answer, a   *)
(* crash, a handler that died, a voice left unsent) have not happened; the *)
(* theorems at the end state the same excuses.                             *)
(*                                                                         *)
(* Every step of the system changes one actor and what it writes: lemmas   *)
(* say for the patterns of the actions (to keep the store, to take the     *)
(* lock, to write the index, ...) what the invariant asks of that actor    *)
(* alone, and then there is one lemma for each action.                     *)
(***************************************************************************)
EXTENDS RedisReading, TLAPS

------------------------------------------------------------------------------
(* Types.                                                                  *)

Locking == {"chunk", "export"}
Places ==
    {"idle", "context", "try", "current", "flag", "enqueue", "busy", "create", "mark", "erasing",
     "purge", "cleanup", "delete", "check", "first", "outside", "running", "wait", "claim",
     "reset", "generate", "again", "check2", "advance", "check3", "send", "queue", "push",
     "unqueued", "ready", "failed", "last", "release", "unlock", "sorry"}
Afters == {"idle", "reopen", "create", "purge", "job", "sorry"}
Sessions ==
    [sid : 0..MaxSessions, index : 0..Parts, generating : {"no", "yes", "stale"},
     prefetch : {"none", "queued", "running", "ready", "failed"}, pindex : -1..Parts,
     files : SUBSET Audio]
Jobs == [kind : Kinds \cup {"none"}, sid : 0..MaxSessions, index : 0..(Parts - 1), born : 0..1]
ActorStates ==
    [at : Places, job : Jobs, index : 0..(Parts - 1), seen : Sessions, putting : BOOLEAN,
     files : SUBSET Audio, then : Afters]

------------------------------------------------------------------------------
(* What holds of the state r of one actor: the kinds of jobs that come to  *)
(* a place, and the files it may hold there.                               *)

KindsAt(at) ==
    CASE at = "context" -> {"chunk", "export", "none"}
      [] at \in {"try", "current", "flag", "enqueue", "outside", "send", "last", "release",
                 "unlock", "sorry"} -> Locking
      [] at \in {"cleanup", "delete"} -> {"chunk", "none"}
      [] at \in {"check", "first", "generate", "again", "check2", "check3"} -> Kinds
      [] at \in {"running", "ready", "failed"} -> {"prefetch"}
      [] at \in {"wait", "claim", "reset", "advance", "queue", "push", "unqueued"} -> {"chunk"}
      [] OTHER -> {"none"}

JobFits(j) ==
    /\ j \in Jobs
    /\ j.kind # "none" => j.sid \in 1..opened
    /\ j.kind # "prefetch" => j.index = 0
    /\ j.born <= marked

HasStarted(r) == r.job.kind = "export" /\ r.index > 0
HandsFit(r) ==
    /\ r.at \notin {"check", "first", "generate", "again", "check2", "advance", "check3", "send", "ready"}
          => r.files = {}
    /\ r.at \in {"check", "first", "generate"} /\ ~HasStarted(r) => r.files = {}
    /\ r.at = "check3" /\ r.job.kind = "prefetch" => r.files = {}

\* At these places there are only workers, and at those no worker comes.
WorkPlaces ==
    {"check", "first", "outside", "running", "wait", "claim", "reset", "generate", "again",
     "check2", "advance", "check3", "send", "queue", "push", "unqueued", "ready", "failed"}
WorkFits(r) ==
    /\ r.at \in WorkPlaces => r.then = "job"
    /\ r.then = "job" => r.job.kind \in Kinds
    /\ r.then = "job" => r.at \notin {"context", "try", "sorry"}

PlaceFits(r) ==
    /\ JobFits(r.job)
    /\ r.job.kind \in KindsAt(r.at)
    /\ r.at = "idle" => r = Idle
    /\ r.putting => r.at \in Reads
    /\ r.at \in {"cleanup", "delete"} =>
          IF r.job.kind = "none" THEN r.then # "sorry" ELSE r.then \in {"idle", "job", "sorry"}
    /\ WorkFits(r)
    /\ r.at \in {"queue", "push", "unqueued"} => r.index + 1 < Parts

\* A deletion of private data goes through its steps once.
ErasureFits(r) ==
    /\ r.at = "mark" => marked = 1 /\ marker = 0
    /\ r.at \in {"erasing", "purge"} \/ (r.at \in {"cleanup", "delete"} /\ r.then = "purge")
          => marked = 1

ShapeInv ==
    /\ store \in Sessions
    /\ store.sid = 0 => store = NoSession
    /\ opened \in 1..MaxSessions /\ store.sid <= opened
    /\ events \in 0..MaxEvents
    /\ disk \subseteq Audio /\ lost \subseteq Audio
    /\ heard \in [Sids -> 0..Parts]
    /\ ended \subseteq 1..opened
    /\ marked \in 0..1 /\ marker \in 0..marked
    /\ IsABag(pending)
    /\ \A j \in BagToSet(pending) : JobFits(j) /\ j.kind \in Kinds
    /\ actor \in [Actors -> ActorStates]
    /\ \A a \in Actors : PlaceFits(actor[a]) /\ HandsFit(actor[a]) /\ ErasureFits(actor[a])
    /\ \A a \in Actors : actor[a].seen.sid <= opened
    /\ \A a, b \in Actors : a # b => ~(actor[a].at = "mark" /\ actor[b].at = "mark")

------------------------------------------------------------------------------
(* Sessions: one that was opened is the stored one or was deleted, and who *)
(* reads another one than its own knows that its own was.                  *)

Past(r) ==
    (r.putting \/ r.at \in {"claim", "outside"}) /\ r.job.kind # "none" /\ r.seen.sid # r.job.sid
        => r.job.sid \in ended

SessionsInv ==
    /\ StoppedStaysStopped
    /\ "overlap" \notin causes =>
          /\ \A s \in 1..opened : s = store.sid \/ s \in ended
          /\ \A a \in Actors : Past(actor[a])

------------------------------------------------------------------------------
(* The lock: at most one chunk or export of a session is on its way, and   *)
(* while it is, the session is marked.                                     *)

Clean == causes \cap {"overlap", "replaced", "stale", "released", "unanswered"} = {}
Owns(r) == r.job.kind \in Locking /\ r.at \notin {"context", "try", "sorry"}

OwnerAlone ==
    /\ \A a, b \in Actors :
          a # b /\ Owns(actor[a]) /\ Owns(actor[b]) => Job(a).sid # Job(b).sid
    /\ \A a \in Actors, j \in BagToSet(pending) :
          Owns(actor[a]) /\ j.kind \in Locking => Job(a).sid # j.sid
    /\ \A i, j \in BagToSet(pending) :
          i # j /\ i.kind \in Locking /\ j.kind \in Locking => i.sid # j.sid
    /\ \A j \in BagToSet(pending) : j.kind \in Locking => pending[j] = 1

OwnerMarks(r) == Owns(r) /\ r.job.sid = store.sid => store.generating = "yes"
Position(r) ==
    r.job.sid = store.sid =>
        /\ r.job.kind = "chunk" =>
              /\ r.at \in {"outside", "wait", "claim", "reset", "generate", "again", "check2", "advance"}
                    => store.index = r.index
              /\ r.at \in {"check3", "send"} => store.index = r.index + 1
        /\ r.job.kind = "export" /\ r.at \in {"try", "current"} => store.index = Parts

\* Nobody dropped the lock, and no queue was purged.
Held == marked = 0 /\ "abandoned" \notin causes
Abandoned ==
    /\ store.generating = "yes"
    /\ \A a \in Actors : ~(Owns(actor[a]) /\ Job(a).sid = store.sid)
    /\ \A j \in BagToSet(pending) : ~(j.kind \in Locking /\ j.sid = store.sid)

LockInv ==
    Clean =>
        /\ OwnerAlone
        /\ \A a \in Actors : OwnerMarks(actor[a]) /\ Position(actor[a])
        /\ \A j \in BagToSet(pending) : j.kind \in Locking /\ j.sid = store.sid => store.generating = "yes"
        /\ Held => ~Abandoned

------------------------------------------------------------------------------
(* What the user has heard of a session.                                   *)

Between ==
    {"outside", "wait", "claim", "reset", "generate", "again", "check2", "advance", "check3", "send"}
Unsaid(r) == r.job.kind = "chunk" /\ r.at \in {"check3", "send"}
HeardBefore(r) ==
    r.job.kind = "chunk" /\ r.at \in Between =>
        /\ heard[r.job.sid] <= r.index
        /\ "unsent" \notin causes => heard[r.job.sid] = r.index

HeardInv ==
    /\ \A s \in Sids : s > opened => heard[s] = 0
    /\ Clean /\ "crash" \notin causes =>
          /\ \A a \in Actors : HeardBefore(actor[a])
          /\ store.sid # 0 =>
                /\ heard[store.sid] <= store.index
                /\ "unsent" \in causes \/ heard[store.sid] = store.index
                      \/ \E a \in Actors : Unsaid(actor[a]) /\ Job(a).sid = store.sid

------------------------------------------------------------------------------
(* Whose audio the files are.                                              *)

Of(files, sid, part) == \A f \in files : f.sid = sid /\ f.part = part
ReadyFits(s) == s.prefetch = "ready" => Of(s.files, s.sid, s.pindex + 1)
OwnAudio(r) == Of(r.files, r.job.sid, r.index + 1)

AudioFits(r) ==
    /\ ReadyFits(r.seen)
    /\ r.at = "claim" => r.seen.prefetch = "ready" /\ r.seen.pindex = r.index
    /\ r.job.kind \in {"chunk", "prefetch"} /\ r.at = "again" =>
          OwnAudio(r) \/ (r.job.sid \in ended /\ (r.putting => r.seen.sid # r.job.sid))
    /\ r.job.kind \in {"chunk", "prefetch"} /\ r.at \in {"check2", "advance", "check3", "send", "ready"}
          => OwnAudio(r)

AudioInv ==
    causes \cap {"overlap", "replaced"} = {} =>
        ReadyFits(store) /\ \A a \in Actors : AudioFits(actor[a])

------------------------------------------------------------------------------
(* A voice that goes out after the marker was on its way before.           *)

Sent(r) == r.job.kind = "chunk" /\ r.at = "send" => r.job.born >= marker \/ r.job.sid \in sending
SendingInv == \A a \in Actors : Sent(actor[a])

ReadingInv ==
    /\ ShapeInv /\ SessionsInv /\ LockInv /\ HeardInv /\ AudioInv /\ SendingInv
    /\ FilesAccounted /\ PartsOnceInOrder

------------------------------------------------------------------------------
(* What the patterns of the actions do to the actor that steps.            *)

\* Actor a steps to the given state, and no other moves.
Now(a, at, job, index, seen, putting, files, then) ==
    /\ actor' \in [Actors -> ActorStates]
    /\ \A b \in Actors \ {a} : actor'[b] = actor[b]
    /\ actor'[a].at = at /\ actor'[a].job = job /\ actor'[a].index = index
    /\ actor'[a].seen = seen /\ actor'[a].putting = putting
    /\ actor'[a].files = files /\ actor'[a].then = then

Goes(a, at) ==
    LET r == actor[a] IN Now(a, at, r.job, r.index, r.seen, r.putting, r.files, r.then)
GoesOn(a, at) ==
    LET r == actor[a] IN Now(a, at, r.job, r.index, r.seen, FALSE, r.files, r.then)
GoesEmpty(a, at) ==
    LET r == actor[a] IN Now(a, at, r.job, r.index, r.seen, FALSE, {}, r.then)
GoesClean(a, then) ==
    LET r == actor[a] IN Now(a, "cleanup", r.job, r.index, r.seen, FALSE, r.files, then)
GoesIdle(a) == Now(a, "idle", NoJob, 0, NoSession, FALSE, {}, "idle") /\ actor'[a] = Idle

LEMMA ActorMoved ==
    ASSUME actor \in [Actors -> ActorStates], NEW a \in Actors, NEW r \in ActorStates,
           actor' = [actor EXCEPT ![a] = r]
    PROVE  Now(a, r.at, r.job, r.index, r.seen, r.putting, r.files, r.then)
  BY DEF Now

LEMMA MovesTo ==
    ASSUME actor \in [Actors -> ActorStates], NEW a \in Actors, NEW at \in Places, Moves(a, at)
    PROVE  Goes(a, at)
<1> DEFINE r == [actor[a] EXCEPT !.at = at]
<1>1. actor[a] \in ActorStates
  OBVIOUS
<1>2. /\ r \in ActorStates /\ r.at = at
      /\ r.job = actor[a].job /\ r.index = actor[a].index /\ r.seen = actor[a].seen
      /\ r.putting = actor[a].putting /\ r.files = actor[a].files /\ r.then = actor[a].then
  BY <1>1 DEF ActorStates
<1>3. actor' = [actor EXCEPT ![a] = r]
  BY DEF Moves
<1> HIDE DEF r
<1> QED
  BY <1>2, <1>3, ActorMoved DEF Goes

LEMMA ContinuesTo ==
    ASSUME actor \in [Actors -> ActorStates], NEW a \in Actors, NEW at \in Places, Continues(a, at)
    PROVE  GoesOn(a, at)
<1> DEFINE r == [actor[a] EXCEPT !.putting = FALSE, !.at = at]
<1>1. actor[a] \in ActorStates
  OBVIOUS
<1>2. /\ r \in ActorStates /\ r.at = at
      /\ r.job = actor[a].job /\ r.index = actor[a].index /\ r.seen = actor[a].seen
      /\ r.putting = FALSE /\ r.files = actor[a].files /\ r.then = actor[a].then
  BY <1>1 DEF ActorStates
<1>3. actor' = [actor EXCEPT ![a] = r]
  BY DEF Continues
<1> HIDE DEF r
<1> QED
  BY <1>2, <1>3, ActorMoved DEF GoesOn

LEMMA CleansUpTo ==
    ASSUME actor \in [Actors -> ActorStates], NEW a \in Actors,
           NEW then \in Afters, CleansUp(a, then)
    PROVE  GoesClean(a, then)
<1> DEFINE r == [actor[a] EXCEPT !.putting = FALSE, !.at = "cleanup", !.then = then]
<1>1. actor[a] \in ActorStates
  OBVIOUS
<1>2. /\ r \in ActorStates /\ r.at = "cleanup"
      /\ r.job = actor[a].job /\ r.index = actor[a].index /\ r.seen = actor[a].seen
      /\ r.putting = FALSE /\ r.files = actor[a].files /\ r.then = then
  BY <1>1 DEF ActorStates, Places
<1>3. actor' = [actor EXCEPT ![a] = r]
  BY DEF CleansUp
<1> HIDE DEF r
<1> QED
  BY <1>2, <1>3, ActorMoved DEF GoesClean

LEMMA DropsTo ==
    ASSUME actor \in [Actors -> ActorStates], NEW a \in Actors, NEW at \in Places, Drops(a, at)
    PROVE  GoesEmpty(a, at)
<1> DEFINE r == [actor[a] EXCEPT !.putting = FALSE, !.at = at, !.files = {}]
<1>1. actor[a] \in ActorStates
  OBVIOUS
<1>2. /\ r \in ActorStates /\ r.at = at
      /\ r.job = actor[a].job /\ r.index = actor[a].index /\ r.seen = actor[a].seen
      /\ r.putting = FALSE /\ r.files = {} /\ r.then = actor[a].then
  BY <1>1 DEF ActorStates
<1>3. actor' = [actor EXCEPT ![a] = r]
  BY DEF Drops
<1> HIDE DEF r
<1> QED
  BY <1>2, <1>3, ActorMoved DEF GoesEmpty

LEMMA Blank ==
    /\ NoSession \in Sessions /\ NoSession.sid = 0 /\ NoSession.index = 0
    /\ NoSession.generating = "no" /\ NoSession.prefetch = "none" /\ NoSession.files = {}
    /\ NoJob \in Jobs /\ NoJob.kind = "none" /\ NoJob.sid = 0 /\ NoJob.index = 0 /\ NoJob.born = 0
    /\ Idle \in ActorStates /\ Idle.at = "idle" /\ Idle.job = NoJob /\ Idle.index = 0
    /\ Idle.seen = NoSession /\ Idle.putting = FALSE /\ Idle.files = {} /\ Idle.then = "idle"
<1>1. Parts \in Nat \ {0} /\ MaxSessions \in Nat
  BY RedisReadingAssumption
<1>2. NoSession \in Sessions /\ NoJob \in Jobs
  BY <1>1 DEF NoSession, Sessions, NoJob, Jobs
<1>3. Idle \in ActorStates
  BY <1>1, <1>2 DEF Idle, ActorStates, Places, Afters
<1> QED
  BY <1>2, <1>3 DEF NoSession, NoJob, Idle

LEMMA EndsTo ==
    ASSUME actor \in [Actors -> ActorStates], NEW a \in Actors, Ends(a)
    PROVE  GoesIdle(a)
<1>1. actor' = [actor EXCEPT ![a] = Idle]
  BY DEF Ends
<1>2. actor'[a] = Idle
  BY <1>1
<1>3. Now(a, Idle.at, Idle.job, Idle.index, Idle.seen, Idle.putting, Idle.files, Idle.then)
  BY <1>1, Blank, ActorMoved
<1> QED
  BY <1>2, <1>3, Blank DEF GoesIdle

------------------------------------------------------------------------------
(* The session after an update of some fields, and after a get.            *)

LEMMA RecoveredFields ==
    ASSUME NEW s \in Sessions
    PROVE  /\ Recovered(s) \in Sessions
           /\ Recovered(s).sid = s.sid /\ Recovered(s).index = s.index
           /\ Recovered(s).prefetch = s.prefetch /\ Recovered(s).pindex = s.pindex
           /\ Recovered(s).files = s.files
           /\ Recovered(s).generating = IF s.generating = "stale" THEN "no" ELSE s.generating
  BY DEF Recovered, Sessions

LEMMA AgedFields ==
    ASSUME NEW s \in Sessions
    PROVE  /\ Aged(s) \in Sessions
           /\ Aged(s).sid = s.sid /\ Aged(s).index = s.index
           /\ Aged(s).prefetch = s.prefetch /\ Aged(s).pindex = s.pindex
           /\ Aged(s).files = s.files
           /\ Aged(s).generating = IF s.generating = "yes" THEN "stale" ELSE s.generating
  BY DEF Aged, Sessions

LEMMA SameRecovered ==
    ASSUME NEW s \in Sessions, NEW t \in Sessions, Recovered(s) = Recovered(t)
    PROVE  /\ s.sid = t.sid /\ s.index = t.index /\ s.prefetch = t.prefetch
           /\ s.pindex = t.pindex /\ s.files = t.files
           /\ s.generating = "yes" <=> t.generating = "yes"
  BY RecoveredFields

\* The fields of the stored session after an update; it changes another session than
\* the actor's only as a replacement.
Stored(a, index, generating, prefetch, pindex, files) ==
    /\ store' \in Sessions /\ store'.sid = store.sid
    /\ store.sid = 0 => store' = store
    /\ store.sid # 0 =>
          /\ store'.index = index /\ store'.generating = generating
          /\ store'.prefetch = prefetch /\ store'.pindex = pindex /\ store'.files = files
    /\ causes \subseteq causes' /\ causes' \subseteq causes \cup {"replaced"}
    /\ "replaced" \notin causes' => store.sid \in {0, Job(a).sid}

LEMMA StoredAs ==
    ASSUME store \in Sessions, NEW a \in Actors, NEW s \in Sessions, s.sid = store.sid, Updates(a, s)
    PROVE  Stored(a, s.index, s.generating, s.prefetch, s.pindex, s.files)
<1>1. CASE store.sid = 0
  BY <1>1 DEF Updates, Merged, Stored
<1>2. CASE store.sid # 0
  <2>1. store' = s
    BY <1>2 DEF Updates, Merged
  <2>2. causes' = IF store.sid \in {0, Job(a).sid} THEN causes ELSE causes \cup {"replaced"}
    BY DEF Updates, Merged
  <2> QED
    BY <1>2, <2>1, <2>2 DEF Stored
<1> QED
  BY <1>1, <1>2

LEMMA StoredMark ==
    ASSUME store \in Sessions, NEW a \in Actors, NEW mark \in {"no", "yes"},
           Updates(a, [store EXCEPT !.generating = mark])
    PROVE  Stored(a, store.index, mark, store.prefetch, store.pindex, store.files)
<1> DEFINE s == [store EXCEPT !.generating = mark]
<1>1. /\ s \in Sessions /\ s.sid = store.sid /\ s.index = store.index /\ s.generating = mark
      /\ s.prefetch = store.prefetch /\ s.pindex = store.pindex /\ s.files = store.files
  BY DEF Sessions
<1>2. Updates(a, s)
  OBVIOUS
<1> HIDE DEF s
<1> QED
  BY <1>1, <1>2, StoredAs

LEMMA StoredIndex ==
    ASSUME store \in Sessions, NEW a \in Actors, NEW i \in 0..Parts,
           Updates(a, [store EXCEPT !.index = i])
    PROVE  Stored(a, i, store.generating, store.prefetch, store.pindex, store.files)
<1> DEFINE s == [store EXCEPT !.index = i]
<1>1. /\ s \in Sessions /\ s.sid = store.sid /\ s.index = i /\ s.generating = store.generating
      /\ s.prefetch = store.prefetch /\ s.pindex = store.pindex /\ s.files = store.files
  BY DEF Sessions
<1>2. Updates(a, s)
  OBVIOUS
<1> HIDE DEF s
<1> QED
  BY <1>1, <1>2, StoredAs

LEMMA StoredPrefetch ==
    ASSUME store \in Sessions, NEW a \in Actors, NEW files \in SUBSET Audio, NEW i \in -1..Parts,
           NEW state \in {"none", "queued", "running", "ready", "failed"},
           Updates(a, [store EXCEPT !.prefetch = state, !.pindex = i, !.files = files])
    PROVE  Stored(a, store.index, store.generating, state, i, files)
<1> DEFINE s == [store EXCEPT !.prefetch = state, !.pindex = i, !.files = files]
<1>1. /\ s \in Sessions /\ s.sid = store.sid /\ s.index = store.index
      /\ s.generating = store.generating /\ s.prefetch = state /\ s.pindex = i /\ s.files = files
  BY DEF Sessions
<1>2. Updates(a, s)
  OBVIOUS
<1> HIDE DEF s
<1> QED
  BY <1>1, <1>2, StoredAs

\* A get stores what it read: the same session, but for an old lock, or an overlap.
SameStored ==
    /\ store'.sid = store.sid /\ store'.index = store.index /\ store'.prefetch = store.prefetch
    /\ store'.pindex = store.pindex /\ store'.files = store.files
    /\ store'.generating = "yes" <=> store.generating = "yes"
SeenStored(a) ==
    LET s == Seen(a) IN
    /\ store.sid = s.sid /\ store.index = s.index /\ store.prefetch = s.prefetch
    /\ store.pindex = s.pindex /\ store.files = s.files
    /\ store.generating = "yes" <=> s.generating = "yes"

WroteBack(a) ==
    /\ store' \in Sessions /\ causes \subseteq causes' /\ causes' \subseteq causes \cup {"overlap", "replaced"}
    /\ store' = store \/ (store' = Seen(a) /\ Seen(a).sid # 0)
    /\ "overlap" \notin causes' => SameStored /\ (Seen(a).sid # 0 => SeenStored(a))
    /\ "replaced" \notin causes' => ~Unchecked(a)
    /\ lost' \subseteq lost \cup store.files /\ lost \subseteq lost'
    /\ store.files \subseteq store'.files \cup lost'

LEMMA WrittenBack ==
    ASSUME store \in Sessions, NEW a \in Actors, Seen(a) \in Sessions, WritesBack(a)
    PROVE  WroteBack(a)
<1>1. CASE Seen(a).sid = 0
  <2>1. UNCHANGED <<store, causes, lost>> /\ ~Unchecked(a)
    BY <1>1 DEF WritesBack, Unchecked
  <2> QED
    BY <1>1, <2>1 DEF WroteBack, SameStored
<1>2. CASE Seen(a).sid # 0
  <2>1. /\ store' = Seen(a)
        /\ "overlap" \notin causes' => Recovered(store) = Recovered(Seen(a))
        /\ "replaced" \notin causes' => ~Unchecked(a)
        /\ causes \subseteq causes' /\ causes' \subseteq causes \cup {"overlap", "replaced"}
        /\ lost' = lost \cup (store.files \ Seen(a).files)
    BY <1>2 DEF WritesBack
  <2>2. "overlap" \notin causes' => SameStored /\ SeenStored(a)
    BY <2>1, SameRecovered DEF SameStored, SeenStored
  <2> QED
    BY <1>2, <2>1, <2>2 DEF WroteBack
<1> QED
  BY <1>1, <1>2

\* A bag with one element more, and one with a copy less.
LEMMA BagAdded ==
    ASSUME NEW B, IsABag(B), NEW j, NEW C, C = B (+) SetToBag({j})
    PROVE  /\ IsABag(C)
           /\ BagToSet(C) = BagToSet(B) \cup {j}
           /\ j \notin BagToSet(B) => C[j] = 1
           /\ \A k \in BagToSet(B) \ {j} : C[k] = B[k]
  BY DEF IsABag, BagToSet, SetToBag, (+)

LEMMA BagTaken ==
    ASSUME NEW B, IsABag(B), NEW j \in BagToSet(B), NEW C, C = B (-) SetToBag({j})
    PROVE  /\ IsABag(C)
           /\ BagToSet(C) \subseteq BagToSet(B)
           /\ BagToSet(B) \subseteq BagToSet(C) \cup {j}
           /\ \A k \in BagToSet(B) \ {j} : C[k] = B[k]
           /\ B[j] = 1 => j \notin BagToSet(C)
  BY DEF IsABag, BagToSet, SetToBag, (-)

\* The queue after a job came in, and after one was taken.
LEMMA JobPushed ==
    ASSUME IsABag(pending), NEW j, pending' = pending (+) SetToBag({j})
    PROVE  /\ IsABag(pending') /\ BagToSet(pending') = BagToSet(pending) \cup {j}
           /\ j \notin BagToSet(pending) => pending'[j] = 1
           /\ \A k \in BagToSet(pending) \ {j} : pending'[k] = pending[k]
<1>1. PICK C : C = pending'
  OBVIOUS
<1>2. C = pending (+) SetToBag({j})
  BY <1>1
<1>3. IsABag(C)
  BY <1>2, BagAdded
<1>4. /\ BagToSet(C) = BagToSet(pending) \cup {j}
      /\ j \notin BagToSet(pending) => C[j] = 1
      /\ \A k \in BagToSet(pending) \ {j} : C[k] = pending[k]
  BY <1>2, BagAdded
<1> QED
  BY <1>1, <1>3, <1>4

LEMMA JobTaken ==
    ASSUME IsABag(pending), NEW j, j \in BagToSet(pending), pending' = pending (-) SetToBag({j})
    PROVE  /\ IsABag(pending') /\ BagToSet(pending') \subseteq BagToSet(pending)
           /\ BagToSet(pending) \subseteq BagToSet(pending') \cup {j}
           /\ \A k \in BagToSet(pending) \ {j} : pending'[k] = pending[k]
           /\ pending[j] = 1 => j \notin BagToSet(pending')
<1>1. PICK C : C = pending'
  OBVIOUS
<1>2. C = pending (-) SetToBag({j})
  BY <1>1
<1>3. /\ IsABag(C) /\ BagToSet(C) \subseteq BagToSet(pending)
      /\ BagToSet(pending) \subseteq BagToSet(C) \cup {j}
      /\ \A k \in BagToSet(pending) \ {j} : C[k] = pending[k]
      /\ pending[j] = 1 => j \notin BagToSet(C)
  BY <1>2, BagTaken
<1> QED
  BY <1>1, <1>3
LEMMA BagEmptied == IsABag(EmptyBag) /\ BagToSet(EmptyBag) = {}
  BY DEF IsABag, BagToSet, EmptyBag, SetToBag

------------------------------------------------------------------------------
(* What a step of one actor has to keep, part by part of the invariant.    *)

Others(a) ==
    /\ actor' \in [Actors -> ActorStates]
    /\ \A b \in Actors \ {a} : actor'[b] = actor[b]

StoreFits == store \in Sessions /\ (store.sid = 0 => store = NoSession) /\ store.sid <= opened
FitsPlace(a) ==
    /\ PlaceFits(actor[a]) /\ HandsFit(actor[a]) /\ ErasureFits(actor[a])
    /\ actor[a].seen.sid <= opened

\* The text that is stored stays the same one, or goes.
SameText ==
    /\ store'.sid \in {0, store.sid}
    /\ store'.sid # 0 => store'.index = store.index

KeepsSession(a) ==
    /\ opened' = opened /\ ended \subseteq ended'
    /\ "overlap" \notin causes' =>
          /\ \/ store'.sid = store.sid /\ ended' = ended
             \/ store'.sid = 0 /\ ended' = ended \cup ({store.sid} \ {0})
          /\ Past(actor[a])'

KeepsLock(a) ==
    Clean' =>
        /\ SameText
        /\ store'.sid # 0 => (store'.generating = "yes" <=> store.generating = "yes")
        /\ Owns(actor'[a]) => Owns(actor[a]) /\ actor'[a].job.sid = Job(a).sid
        /\ Position(actor[a])'
        /\ Held' /\ store'.sid # 0 /\ Owns(actor[a]) /\ Job(a).sid = store.sid
              => Owns(actor'[a])

\* The chunks and exports in the queue stay there, until the queue is purged.
SameLocks ==
    /\ \A j \in BagToSet(pending') :
          j.kind \in Locking => j \in BagToSet(pending) /\ pending'[j] = pending[j]
    /\ Held' =>
          \A j \in BagToSet(pending) : j.kind \in Locking => j \in BagToSet(pending')

KeepsHeard(a) ==
    Clean' /\ "crash" \notin causes' =>
        /\ SameText
        /\ HeardBefore(actor[a])'
        /\ Unsaid(actor[a]) /\ Job(a).sid = store'.sid =>
              "unsent" \in causes' \/ (Unsaid(actor'[a]) /\ actor'[a].job.sid = Job(a).sid)

KeepsAudio(a) ==
    causes' \cap {"overlap", "replaced"} = {} => ReadyFits(store') /\ AudioFits(actor[a])'

KeepsFiles(a) ==
    /\ lost \subseteq lost'
    /\ \A f \in disk' :
          \/ f \in store'.files \cup lost' \cup actor'[a].files
          \/ f \in disk /\ f \notin store.files /\ f \notin actor[a].files

LEMMA SessionsStep ==
    ASSUME ShapeInv, SessionsInv, NEW a \in Actors, Others(a), causes \subseteq causes',
           KeepsSession(a), store' \in Sessions
    PROVE  SessionsInv'
<1>1. StoppedStaysStopped'
  <2> SUFFICES ASSUME "overlap" \notin causes' PROVE store'.sid \notin ended'
    BY DEF StoppedStaysStopped
  <2>1. store.sid \notin ended /\ ended \subseteq 1..opened
    BY DEF SessionsInv, StoppedStaysStopped, ShapeInv
  <2>2. \/ store'.sid = store.sid /\ ended' = ended
        \/ store'.sid = 0 /\ ended' = ended \cup ({store.sid} \ {0})
    BY DEF KeepsSession
  <2> QED
    BY <2>1, <2>2
<1>2. ASSUME "overlap" \notin causes'
      PROVE  /\ \A s \in 1..opened' : s = store'.sid \/ s \in ended'
             /\ \A b \in Actors : Past(actor[b])'
  <2>1. /\ \A s \in 1..opened : s = store.sid \/ s \in ended
        /\ \A b \in Actors : Past(actor[b])
    BY <1>2 DEF SessionsInv
  <2>2. \/ store'.sid = store.sid /\ ended' = ended
        \/ store'.sid = 0 /\ ended' = ended \cup ({store.sid} \ {0})
    BY <1>2 DEF KeepsSession
  <2>3. \A s \in 1..opened' : s = store'.sid \/ s \in ended'
    BY <2>1, <2>2 DEF KeepsSession
  <2>4. \A b \in Actors : Past(actor[b])'
    BY <1>2, <2>1 DEF KeepsSession, Others, Past
  <2> QED
    BY <2>3, <2>4
<1> QED
  BY <1>1, <1>2 DEF SessionsInv

LEMMA LockStep ==
    ASSUME ShapeInv, ShapeInv', LockInv, NEW a \in Actors, Others(a), causes \subseteq causes',
           Held' => Held, KeepsLock(a), SameLocks
    PROVE  LockInv'
<1> SUFFICES ASSUME Clean'
             PROVE  /\ OwnerAlone'
                    /\ \A b \in Actors : OwnerMarks(actor[b])' /\ Position(actor[b])'
                    /\ \A j \in BagToSet(pending') :
                          j.kind \in Locking /\ j.sid = store'.sid => store'.generating = "yes"
                    /\ Held' => ~Abandoned'
  BY DEF LockInv
<1>1. Clean
  BY DEF Clean
<1>2. /\ SameText
      /\ store'.sid # 0 => (store'.generating = "yes" <=> store.generating = "yes")
      /\ Owns(actor'[a]) => Owns(actor[a]) /\ actor'[a].job.sid = Job(a).sid
      /\ Position(actor[a])'
      /\ Held' /\ store'.sid # 0 /\ Owns(actor[a]) /\ Job(a).sid = store.sid
            => Owns(actor'[a])
  BY DEF KeepsLock
<1>3. /\ OwnerAlone
      /\ \A b \in Actors : OwnerMarks(actor[b]) /\ Position(actor[b])
      /\ \A j \in BagToSet(pending) : j.kind \in Locking /\ j.sid = store.sid => store.generating = "yes"
      /\ Held => ~Abandoned
  BY <1>1 DEF LockInv
<1>4. /\ \A b \in Actors : Owns(actor'[b]) => actor'[b].job.sid # 0
      /\ \A b \in Actors : actor'[b].job.kind \in Locking => actor'[b].job.sid # 0
      /\ \A j \in BagToSet(pending') : j.kind \in Locking => j.sid # 0
  BY DEF ShapeInv, PlaceFits, JobFits, Owns, Locking
<1>5. \A b \in Actors : Owns(actor'[b]) => Owns(actor[b]) /\ actor'[b].job.sid = actor[b].job.sid
  BY <1>2 DEF Others, Job
<1>6. OwnerAlone'
  <2>1. \A b, c \in Actors : b # c /\ Owns(actor'[b]) /\ Owns(actor'[c])
            => actor'[b].job.sid # actor'[c].job.sid
    BY <1>3, <1>5 DEF OwnerAlone, Job
  <2>2. \A b \in Actors, j \in BagToSet(pending') :
            Owns(actor'[b]) /\ j.kind \in Locking => actor'[b].job.sid # j.sid
    BY <1>3, <1>5 DEF OwnerAlone, Job, SameLocks
  <2>3. /\ \A i, j \in BagToSet(pending') :
              i # j /\ i.kind \in Locking /\ j.kind \in Locking => i.sid # j.sid
        /\ \A j \in BagToSet(pending') : j.kind \in Locking => pending'[j] = 1
    BY <1>3 DEF OwnerAlone, SameLocks
  <2> QED
    BY <2>1, <2>2, <2>3 DEF OwnerAlone, Job
<1>7. ASSUME NEW b \in Actors PROVE OwnerMarks(actor[b])' /\ Position(actor[b])'
  <2>1. OwnerMarks(actor[b])'
    BY <1>2, <1>3, <1>4, <1>5 DEF OwnerMarks, SameText
  <2>2. Position(actor[b])'
    <3>1. CASE b = a
      BY <1>2, <3>1
    <3>2. CASE b # a
      <4>1. actor'[b] = actor[b] /\ Position(actor[b])
        BY <1>3, <3>2 DEF Others
      <4>2. actor'[b].job.kind \in Locking /\ actor'[b].job.sid = store'.sid
              => store'.sid = store.sid /\ store'.index = store.index
        BY <1>2, <1>4 DEF SameText
      <4> QED
        BY <4>1, <4>2 DEF Position, Locking
    <3> QED
      BY <3>1, <3>2
  <2> QED
    BY <2>1, <2>2
<1>8. \A j \in BagToSet(pending') :
          j.kind \in Locking /\ j.sid = store'.sid => store'.generating = "yes"
  BY <1>2, <1>3, <1>4 DEF SameLocks, SameText
<1>9. ASSUME Held' PROVE ~Abandoned'
  <2> SUFFICES ASSUME store'.generating = "yes"
               PROVE  \/ \E b \in Actors : Owns(actor'[b]) /\ actor'[b].job.sid = store'.sid
                      \/ \E j \in BagToSet(pending') : j.kind \in Locking /\ j.sid = store'.sid
    BY DEF Abandoned, Job
  <2>1. store'.sid # 0
    BY Blank DEF ShapeInv
  <2>2. store'.sid = store.sid /\ store.generating = "yes"
    BY <1>2, <2>1 DEF SameText
  <2>3. \/ \E b \in Actors : Owns(actor[b]) /\ Job(b).sid = store.sid
        \/ \E j \in BagToSet(pending) : j.kind \in Locking /\ j.sid = store.sid
    BY <1>3, <1>9, <2>2 DEF Abandoned
  <2>4. ASSUME NEW b \in Actors, Owns(actor[b]), Job(b).sid = store.sid
        PROVE  Owns(actor'[b]) /\ actor'[b].job.sid = store'.sid
    BY <1>2, <1>9, <2>1, <2>2, <2>4 DEF Others, Job
  <2> QED
    BY <1>9, <2>2, <2>3, <2>4 DEF SameLocks
<1> QED
  BY <1>6, <1>7, <1>8, <1>9

LEMMA HeardStep ==
    ASSUME HeardInv, NEW a \in Actors, Others(a), causes \subseteq causes', store' \in Sessions,
           opened' = opened, heard' = heard, KeepsHeard(a)
    PROVE  HeardInv'
<1>1. \A s \in Sids : s > opened' => heard'[s] = 0
  BY DEF HeardInv
<1>2. ASSUME Clean', "crash" \notin causes'
      PROVE  /\ \A b \in Actors : HeardBefore(actor[b])'
             /\ store'.sid # 0 =>
                   /\ heard'[store'.sid] <= store'.index
                   /\ \/ "unsent" \in causes' \/ heard'[store'.sid] = store'.index
                      \/ \E b \in Actors : Unsaid(actor'[b]) /\ actor'[b].job.sid = store'.sid
  <2>1. Clean /\ "crash" \notin causes
    BY <1>2 DEF Clean
  <2>2. /\ \A b \in Actors : HeardBefore(actor[b])
        /\ store.sid # 0 =>
              /\ heard[store.sid] <= store.index
              /\ "unsent" \in causes \/ heard[store.sid] = store.index
                    \/ \E b \in Actors : Unsaid(actor[b]) /\ Job(b).sid = store.sid
    BY <2>1 DEF HeardInv
  <2>3. /\ SameText
        /\ HeardBefore(actor[a])'
        /\ Unsaid(actor[a]) /\ Job(a).sid = store'.sid =>
              "unsent" \in causes' \/ (Unsaid(actor'[a]) /\ actor'[a].job.sid = Job(a).sid)
    BY <1>2 DEF KeepsHeard
  <2>4. ASSUME NEW b \in Actors PROVE HeardBefore(actor[b])'
    <3>1. CASE b = a
      BY <2>3, <3>1
    <3>2. CASE b # a
      BY <2>2, <3>2 DEF Others, HeardBefore
    <3> QED
      BY <3>1, <3>2
  <2>5. ASSUME store'.sid # 0
        PROVE  /\ heard'[store'.sid] <= store'.index
               /\ \/ "unsent" \in causes' \/ heard'[store'.sid] = store'.index
                  \/ \E b \in Actors : Unsaid(actor'[b]) /\ actor'[b].job.sid = store'.sid
    <3>1. store'.sid = store.sid /\ store'.index = store.index
      BY <2>3, <2>5 DEF SameText
    <3>2. ASSUME NEW b \in Actors, Unsaid(actor[b]), Job(b).sid = store.sid
          PROVE  "unsent" \in causes' \/ (Unsaid(actor'[b]) /\ actor'[b].job.sid = store'.sid)
      BY <2>3, <3>1, <3>2 DEF Others, Job
    <3> QED
      BY <2>2, <2>5, <3>1, <3>2
  <2> QED
    BY <2>4, <2>5
<1> QED
  BY <1>1, <1>2 DEF HeardInv, Job

LEMMA AudioStep ==
    ASSUME AudioInv, NEW a \in Actors, Others(a), causes \subseteq causes', ended \subseteq ended',
           KeepsAudio(a)
    PROVE  AudioInv'
<1> SUFFICES ASSUME causes' \cap {"overlap", "replaced"} = {}
             PROVE  ReadyFits(store') /\ \A b \in Actors : AudioFits(actor[b])'
  BY DEF AudioInv
<1>1. \A b \in Actors : AudioFits(actor[b])
  BY DEF AudioInv
<1>2. ReadyFits(store') /\ AudioFits(actor[a])'
  BY DEF KeepsAudio
<1>3. ASSUME NEW b \in Actors, b # a PROVE AudioFits(actor[b])'
  <2>1. actor'[b] = actor[b] /\ AudioFits(actor[b])
    BY <1>1, <1>3 DEF Others
  <2> QED
    BY <2>1 DEF AudioFits
<1> QED
  BY <1>2, <1>3

LEMMA SendingStep ==
    ASSUME SendingInv, NEW a \in Actors, Others(a), marker' = marker, sending' = sending,
           Sent(actor[a])'
    PROVE  SendingInv'
<1>1. \A b \in Actors \ {a} : Sent(actor[b]) /\ actor'[b] = actor[b]
  BY DEF SendingInv, Others
<1> QED
  BY <1>1 DEF SendingInv, Sent

LEMMA AllHands ==
    FilesAccounted <=> \A f \in disk : \/ f \in store.files \cup lost
                                       \/ \E a \in Actors : f \in actor[a].files
  BY DEF FilesAccounted, Seen

LEMMA FilesStep ==
    ASSUME FilesAccounted, NEW a \in Actors, Others(a), KeepsFiles(a)
    PROVE  FilesAccounted'
<1>1. FilesAccounted' <=>
          \A f \in disk' : \/ f \in store'.files \cup lost'
                           \/ \E b \in Actors : f \in actor'[b].files
  BY DEF FilesAccounted, Seen
<1> SUFFICES ASSUME NEW f \in disk', f \notin store'.files, f \notin lost', f \notin actor'[a].files
             PROVE  \E b \in Actors : f \in actor'[b].files
  BY <1>1
<1>2. f \in disk /\ f \notin store.files /\ f \notin actor[a].files /\ f \notin lost
  BY DEF KeepsFiles
<1>3. PICK b \in Actors : f \in actor[b].files
  BY <1>2, AllHands
<1>4. b # a /\ actor'[b] = actor[b]
  BY <1>2, <1>3 DEF Others
<1> QED
  BY <1>3, <1>4

LEMMA VoicesStep ==
    ASSUME PartsOnceInOrder, misheard' = misheard, causes \subseteq causes'
    PROVE  PartsOnceInOrder'
  BY DEF PartsOnceInOrder

------------------------------------------------------------------------------
(* The shape, after a step of one actor.                                   *)

LEMMA ShapeStep ==
    ASSUME ShapeInv, NEW a \in Actors, Others(a), StoreFits', FitsPlace(a)',
           opened' \in opened..MaxSessions, events' \in 0..MaxEvents,
           disk' \subseteq Audio, lost' \subseteq Audio, heard' \in [Sids -> 0..Parts],
           ended' \subseteq 1..opened', marked' \in marked..1, marker' \in marker..marked',
           IsABag(pending'),
           \A j \in BagToSet(pending') : j \in BagToSet(pending) \/ (JobFits(j)' /\ j.kind \in Kinds),
           \A b \in Actors \ {a} : actor[b].at = "mark" =>
                marked' = marked /\ marker' = marker /\ actor'[a].at # "mark"
    PROVE  ShapeInv'
<1>1. opened \in 1..MaxSessions /\ marked \in 0..1 /\ marker \in 0..marked
  BY DEF ShapeInv
<1>2. opened' \in 1..MaxSessions /\ marked' \in 0..1 /\ marker' \in 0..marked'
      /\ opened <= opened' /\ marked <= marked' /\ opened \in Int /\ opened' \in Int
  BY <1>1, RedisReadingAssumption
<1>3. ASSUME NEW j, JobFits(j) PROVE JobFits(j)'
  BY <1>1, <1>2, <1>3 DEF JobFits, Jobs
<1>4. \A j \in BagToSet(pending') : JobFits(j)' /\ j.kind \in Kinds
  BY <1>3 DEF ShapeInv
<1>5. ASSUME NEW b \in Actors
      PROVE  /\ PlaceFits(actor[b])' /\ HandsFit(actor'[b]) /\ ErasureFits(actor[b])'
             /\ actor'[b].seen.sid <= opened'
  <2>1. CASE b = a
    BY <2>1 DEF FitsPlace
  <2>2. CASE b # a
    <3>1. /\ actor'[b] = actor[b] /\ actor[b] \in ActorStates
          /\ PlaceFits(actor[b]) /\ HandsFit(actor[b]) /\ ErasureFits(actor[b])
          /\ actor[b].seen.sid <= opened
      BY <2>2 DEF Others, ShapeInv
    <3>2. PlaceFits(actor[b])'
      BY <1>3, <3>1 DEF PlaceFits
    <3>3. ErasureFits(actor[b])'
      BY <1>1, <1>2, <2>2, <3>1 DEF ErasureFits
    <3>4. actor'[b].seen.sid <= opened'
      BY <1>2, <3>1 DEF ActorStates, Sessions
    <3> QED
      BY <3>1, <3>2, <3>3, <3>4
  <2> QED
    BY <2>1, <2>2
<1>6. \A b, c \in Actors : b # c => ~(actor'[b].at = "mark" /\ actor'[c].at = "mark")
  BY DEF ShapeInv, Others
<1>7. actor' \in [Actors -> ActorStates]
  BY DEF Others
<1> QED
  BY <1>2, <1>4, <1>5, <1>6, <1>7 DEF ShapeInv, StoreFits

\* Most steps change neither what is opened, heard or marked nor the queue.
Framed ==
    /\ opened' = opened /\ heard' = heard /\ misheard' = misheard
    /\ marked' = marked /\ marker' = marker /\ sending' = sending

LEMMA FramedShape ==
    ASSUME ShapeInv, NEW a \in Actors, Others(a), StoreFits', FitsPlace(a)', Framed,
           events' \in 0..MaxEvents, disk' \subseteq Audio, lost' \subseteq Audio,
           ended' \subseteq 1..opened, pending' = pending, actor'[a].at # "mark"
    PROVE  ShapeInv'
<1>1. opened' \in opened..MaxSessions /\ marked' \in marked..1 /\ marker' \in marker..marked'
  BY RedisReadingAssumption DEF ShapeInv, Framed
<1>2. heard' \in [Sids -> 0..Parts] /\ ended' \subseteq 1..opened'
  BY DEF ShapeInv, Framed
<1>3. IsABag(pending')
      /\ \A j \in BagToSet(pending') : j \in BagToSet(pending) \/ (JobFits(j)' /\ j.kind \in Kinds)
  BY DEF ShapeInv
<1>4. \A b \in Actors \ {a} : actor[b].at = "mark" =>
          marked' = marked /\ marker' = marker /\ actor'[a].at # "mark"
  BY DEF Framed
<1> QED
  BY <1>1, <1>2, <1>3, <1>4, ShapeStep

LEMMA OrdinaryStep ==
    ASSUME ReadingInv, NEW a \in Actors, Others(a), Framed, causes \subseteq causes', ShapeInv',
           KeepsSession(a), KeepsLock(a), SameLocks, KeepsHeard(a), KeepsAudio(a), KeepsFiles(a),
           Sent(actor[a])'
    PROVE  ReadingInv'
<1>1. store' \in Sessions /\ ended \subseteq ended' /\ opened' = opened /\ heard' = heard
      /\ misheard' = misheard /\ marker' = marker /\ sending' = sending /\ (Held' => Held)
  BY DEF ShapeInv, KeepsSession, Framed, Held
<1>2. SessionsInv'
  BY <1>1, SessionsStep DEF ReadingInv
<1>3. LockInv'
  BY <1>1, LockStep DEF ReadingInv
<1>4. HeardInv'
  BY <1>1, HeardStep DEF ReadingInv
<1>5. AudioInv' /\ SendingInv' /\ FilesAccounted' /\ PartsOnceInOrder'
  BY <1>1, AudioStep, SendingStep, FilesStep, VoicesStep DEF ReadingInv
<1> QED
  BY <1>2, <1>3, <1>4, <1>5 DEF ReadingInv

------------------------------------------------------------------------------
(* Steps that keep the stored text and its mark.                           *)

Straight == causes' \cap {"overlap", "replaced"} = {}

KeptStore ==
    /\ StoreFits' /\ ended' = ended /\ causes \subseteq causes'
    /\ lost \subseteq lost' /\ lost' \subseteq Audio
    /\ "overlap" \notin causes' => store'.sid = store.sid
    /\ Clean' => store'.index = store.index /\ (store'.generating = "yes" <=> store.generating = "yes")
    /\ Straight => ReadyFits(store')

\* What the actor that steps has to keep.
ActorKeeps(a) ==
    /\ "overlap" \notin causes' => Past(actor[a])'
    /\ Clean' =>
          /\ Owns(actor'[a]) => Owns(actor[a]) /\ actor'[a].job.sid = Job(a).sid
          /\ Position(actor[a])'
          /\ Held' /\ Owns(actor[a]) /\ Job(a).sid = store.sid => Owns(actor'[a])
    /\ Clean' /\ "crash" \notin causes' =>
          /\ HeardBefore(actor[a])'
          /\ Unsaid(actor[a]) =>
                "unsent" \in causes' \/ (Unsaid(actor'[a]) /\ actor'[a].job.sid = Job(a).sid)
    /\ Straight => AudioFits(actor[a])'
    /\ Sent(actor[a])'

LEMMA CleanIsStraight == Clean' => Straight /\ "overlap" \notin causes' /\ "replaced" \notin causes'
  BY DEF Clean, Straight

LEMMA SameQueue ==
    ASSUME pending' = pending
    PROVE  SameLocks
  BY DEF SameLocks

LEMMA KeptParts ==
    ASSUME NEW a \in Actors, Framed, KeptStore, ActorKeeps(a)
    PROVE  KeepsSession(a) /\ KeepsLock(a) /\ KeepsHeard(a) /\ KeepsAudio(a) /\ Sent(actor[a])'
<1>1. KeepsSession(a)
  BY DEF KeepsSession, KeptStore, ActorKeeps, Framed
<1>2. KeepsLock(a)
  BY CleanIsStraight DEF KeepsLock, KeptStore, ActorKeeps, SameText
<1>3. KeepsHeard(a)
  BY CleanIsStraight DEF KeepsHeard, KeptStore, ActorKeeps, SameText
<1>4. KeepsAudio(a)
  BY DEF KeepsAudio, KeptStore, ActorKeeps, Straight
<1> QED
  BY <1>1, <1>2, <1>3, <1>4 DEF ActorKeeps

LEMMA KeptStep ==
    ASSUME ReadingInv, NEW a \in Actors, Others(a), Framed, pending' = pending, KeptStore,
           events' \in 0..MaxEvents, disk' \subseteq Audio, FitsPlace(a)', actor'[a].at # "mark",
           ActorKeeps(a), KeepsFiles(a)
    PROVE  ReadingInv'
<1>1. ShapeInv'
  <2>1. ended' \subseteq 1..opened /\ ShapeInv
    BY DEF ReadingInv, ShapeInv, KeptStore
  <2> QED
    BY <2>1, FramedShape DEF KeptStore
<1>2. causes \subseteq causes'
  BY DEF KeptStore
<1> QED
  BY <1>1, <1>2, KeptParts, SameQueue, OrdinaryStep

LEMMA IdleFits ==
    ASSUME opened' \in Nat, marked' \in Nat, NEW a \in Actors, GoesIdle(a)
    PROVE  /\ Others(a) /\ FitsPlace(a)' /\ actor'[a].at # "mark"
           /\ Past(actor[a])' /\ ~Owns(actor'[a]) /\ Position(actor[a])'
           /\ HeardBefore(actor[a])' /\ ~Unsaid(actor'[a]) /\ AudioFits(actor[a])'
           /\ Sent(actor[a])' /\ actor'[a].files = {}
<1>1. /\ actor'[a] = Idle /\ actor' \in [Actors -> ActorStates]
      /\ \A b \in Actors \ {a} : actor'[b] = actor[b]
  BY DEF GoesIdle, Now
<1>2. JobFits(NoJob)'
  BY Blank DEF JobFits
<1>3. FitsPlace(a)'
  BY <1>1, <1>2, Blank DEF FitsPlace, PlaceFits, WorkFits, WorkPlaces, HandsFit, ErasureFits, KindsAt
<1> QED
  BY <1>1, <1>3, Blank DEF Others, Past, Owns, Locking, Position, HeardBefore, Unsaid, AudioFits,
       ReadyFits, OwnAudio, Of, Sent

LEMMA IdleStep ==
    ASSUME ReadingInv, NEW a \in Actors, GoesIdle(a), Framed, pending' = pending, KeptStore,
           events' \in 0..MaxEvents, disk' \subseteq Audio, KeepsFiles(a),
           Clean' /\ Held' => ~(Owns(actor[a]) /\ Job(a).sid = store.sid),
           Unsaid(actor[a]) => "unsent" \in causes'
    PROVE  ReadingInv'
<1>1. opened' \in Nat /\ marked' \in Nat /\ marked' = marked
  BY RedisReadingAssumption DEF ReadingInv, ShapeInv, Framed
<1>2. /\ Others(a) /\ FitsPlace(a)' /\ actor'[a].at # "mark"
      /\ Past(actor[a])' /\ ~Owns(actor'[a]) /\ Position(actor[a])'
      /\ HeardBefore(actor[a])' /\ AudioFits(actor[a])' /\ Sent(actor[a])'
  BY <1>1, IdleFits
<1>3. ActorKeeps(a)
  BY <1>1, <1>2 DEF ActorKeeps
<1> QED
  BY <1>2, <1>3, KeptStep

------------------------------------------------------------------------------
(* The three ways in which the stored text stays the same.                 *)

LEMMA QuietStore ==
    ASSUME ReadingInv, Framed, store' = store, causes \subseteq causes', ended' = ended,
           lost \subseteq lost', lost' \subseteq Audio
    PROVE  KeptStore
<1>1. ShapeInv
  BY DEF ReadingInv
<1>2. StoreFits'
  BY <1>1 DEF ShapeInv, StoreFits, Framed
<1>3. Straight => ReadyFits(store')
  BY DEF ReadingInv, AudioInv, Straight
<1> QED
  BY <1>2, <1>3 DEF KeptStore

LEMMA WrittenStore ==
    ASSUME ReadingInv, NEW a \in Actors, Framed, WritesBack(a), ended' = ended
    PROVE  WroteBack(a) /\ KeptStore
<1>1. ShapeInv /\ actor[a] \in ActorStates /\ Seen(a).sid <= opened
  BY DEF ReadingInv, ShapeInv, Seen
<1>2. store \in Sessions /\ Seen(a) \in Sessions
  BY <1>1 DEF ShapeInv, ActorStates, Seen
<1>3. WroteBack(a)
  BY <1>2, WrittenBack
<1>4. StoreFits'
  BY <1>1, <1>2, <1>3 DEF WroteBack, StoreFits, ShapeInv, Framed
<1>5. ASSUME "overlap" \notin causes'
      PROVE  SameStored
  BY <1>3, <1>5 DEF WroteBack
<1>6. Straight => ReadyFits(store')
  <2> SUFFICES ASSUME Straight PROVE ReadyFits(store')
    OBVIOUS
  <2>1. SameStored /\ ReadyFits(store)
    BY <1>3, <1>5 DEF Straight, WroteBack, ReadingInv, AudioInv
  <2> QED
    BY <2>1 DEF SameStored, ReadyFits
<1>7. lost \subseteq lost' /\ lost' \subseteq Audio
  BY <1>1, <1>2, <1>3 DEF WroteBack, ShapeInv, Sessions
<1>8. "overlap" \notin causes' => store'.sid = store.sid
  BY <1>5 DEF SameStored
<1>9. Clean' => store'.index = store.index /\ (store'.generating = "yes" <=> store.generating = "yes")
  BY <1>5, CleanIsStraight DEF SameStored
<1> QED
  BY <1>3, <1>4, <1>6, <1>7, <1>8, <1>9 DEF KeptStore, WroteBack

LEMMA UpdatedStore ==
    ASSUME ReadingInv, NEW a \in Actors, Framed, ended' = ended,
           lost \subseteq lost', lost' \subseteq Audio,
           NEW mark, NEW state, NEW i, NEW files,
           Stored(a, store.index, mark, state, i, files),
           Clean' /\ store.sid # 0 => (mark = "yes" <=> store.generating = "yes"),
           Straight /\ store.sid # 0 /\ state = "ready" => Of(files, store.sid, i + 1)
    PROVE  KeptStore
<1>1. ShapeInv
  BY DEF ReadingInv
<1>2. StoreFits'
  BY <1>1 DEF ShapeInv, StoreFits, Framed, Stored
<1>3. Straight => ReadyFits(store')
  <2> SUFFICES ASSUME Straight PROVE ReadyFits(store')
    OBVIOUS
  <2>1. CASE store.sid = 0
    BY <1>1, <2>1, Blank DEF Stored, ShapeInv, ReadyFits
  <2>2. CASE store.sid # 0
    BY <2>2 DEF Stored, ReadyFits
  <2> QED
    BY <2>1, <2>2
<1>4. Clean' => store'.index = store.index /\ (store'.generating = "yes" <=> store.generating = "yes")
  BY DEF Stored
<1> QED
  BY <1>2, <1>3, <1>4 DEF KeptStore, Stored

------------------------------------------------------------------------------
(* The repository's steps.                                                 *)

LEMMA Basics ==
    ASSUME ReadingInv, NEW a \in Actors
    PROVE  /\ ShapeInv /\ actor \in [Actors -> ActorStates] /\ actor[a] \in ActorStates
           /\ Job(a) = actor[a].job /\ Seen(a) = actor[a].seen /\ Seen(a) \in Sessions
           /\ PlaceFits(actor[a]) /\ HandsFit(actor[a]) /\ ErasureFits(actor[a])
           /\ Seen(a).sid <= opened /\ store \in Sessions /\ StoreFits
           /\ opened \in Nat /\ marked \in Nat /\ marker \in Nat /\ events \in 0..MaxEvents
           /\ disk \subseteq Audio /\ lost \subseteq Audio /\ ended \subseteq 1..opened
           /\ Parts \in Nat \ {0} /\ MaxEvents \in Nat
  BY RedisReadingAssumption DEF ReadingInv, ShapeInv, ActorStates, Job, Seen, StoreFits

LEMMA ReadSessionStep ==
    ASSUME ReadingInv, NEW a \in Actors, ReadSession(a)
    PROVE  ReadingInv'
<1>1. /\ actor \in [Actors -> ActorStates] /\ actor[a] \in ActorStates /\ store \in Sessions
      /\ PlaceFits(actor[a]) /\ HandsFit(actor[a]) /\ ErasureFits(actor[a]) /\ StoreFits
      /\ events \in 0..MaxEvents /\ disk \subseteq Audio /\ lost \subseteq Audio
      /\ Job(a) = actor[a].job /\ opened \in Nat
  BY Basics
<1> DEFINE s == Recovered(store)
           r == [actor[a] EXCEPT !.seen = s, !.putting = TRUE]
<1>2. /\ s \in Sessions /\ s.sid = store.sid /\ s.prefetch = store.prefetch
      /\ s.pindex = store.pindex /\ s.files = store.files
  BY <1>1, RecoveredFields
<1>3. actor' = [actor EXCEPT ![a] = r]
  BY DEF ReadSession
<1> HIDE DEF s
<1>4. /\ r \in ActorStates /\ r.at = actor[a].at /\ r.job = actor[a].job
      /\ r.index = actor[a].index /\ r.seen = s /\ r.putting = TRUE
      /\ r.files = actor[a].files /\ r.then = actor[a].then
  BY <1>1, <1>2 DEF ActorStates
<1> HIDE DEF r
<1>5. /\ Others(a) /\ actor'[a] = r
  BY <1>1, <1>3, <1>4 DEF Others
<1>6. /\ actor[a].at \in Reads /\ store' = store /\ disk' = disk /\ pending' = pending
      /\ causes' = causes /\ ended' = ended /\ lost' = lost /\ Framed /\ events' = events
  BY DEF ReadSession, Framed, boundVars, voiceVars, markVars
<1>7. KeptStore
  BY <1>1, <1>6, QuietStore
<1>8. FitsPlace(a)' /\ actor'[a].at # "mark"
  <2>1. PlaceFits(actor[a])'
    BY <1>1, <1>4, <1>5, <1>6 DEF PlaceFits, WorkFits, JobFits, Framed, Reads
  <2>2. HandsFit(actor'[a]) /\ ErasureFits(actor[a])'
    BY <1>1, <1>4, <1>5, <1>6 DEF HandsFit, ErasureFits, Framed, HasStarted
  <2> QED
    BY <1>1, <1>2, <1>4, <1>5, <1>6, <2>1, <2>2 DEF FitsPlace, StoreFits, Framed, Reads
<1>9. ActorKeeps(a)
  <2>1. "overlap" \notin causes' => Past(actor[a])'
    <3>1. "overlap" \notin causes => \A sid \in 1..opened : sid = store.sid \/ sid \in ended
      BY DEF ReadingInv, SessionsInv
    <3>2. Job(a).kind # "none" => Job(a).sid \in 1..opened
      BY <1>1 DEF PlaceFits, JobFits
    <3> QED
      BY <1>1, <1>2, <1>4, <1>5, <1>6, <3>1, <3>2 DEF Past
  <2>2. Clean' => Position(actor[a])' /\ (Owns(actor'[a]) <=> Owns(actor[a]))
    BY <1>4, <1>5, <1>6 DEF Position, Owns, ReadingInv, LockInv, Clean
  <2>3. Clean' /\ "crash" \notin causes' => HeardBefore(actor[a])'
    BY <1>4, <1>5, <1>6 DEF HeardBefore, ReadingInv, HeardInv, Clean, Framed
  <2>4. Unsaid(actor[a]) => Unsaid(actor'[a])
    BY <1>4, <1>5 DEF Unsaid
  <2>5. Straight => AudioFits(actor[a])'
    <3> SUFFICES ASSUME Straight PROVE AudioFits(actor[a])'
      OBVIOUS
    <3>1. ReadyFits(store) /\ AudioFits(actor[a]) /\ (store.sid \notin ended)
      BY <1>6 DEF ReadingInv, AudioInv, Straight, SessionsInv, StoppedStaysStopped
    <3>2. ReadyFits(s)
      BY <1>2, <3>1 DEF ReadyFits
    <3>3. actor[a].at \notin {"claim", "check2", "advance", "check3", "send", "ready"}
      BY <1>6 DEF Reads
    <3> QED
      BY <1>2, <1>4, <1>5, <1>6, <3>1, <3>2, <3>3 DEF AudioFits, OwnAudio
  <2>6. Sent(actor[a])'
    BY <1>4, <1>5, <1>6 DEF Sent, Reads
  <2> QED
    BY <1>1, <1>4, <1>5, <2>1, <2>2, <2>3, <2>4, <2>5, <2>6 DEF ActorKeeps
<1>10. KeepsFiles(a)
  BY <1>4, <1>5, <1>6 DEF KeepsFiles, Reads
<1> QED
  BY <1>1, <1>5, <1>6, <1>7, <1>8, <1>9, <1>10, KeptStep

LEMMA ReadForCleanupStep ==
    ASSUME ReadingInv, NEW a \in Actors, ReadForCleanup(a)
    PROVE  ReadingInv'
<1>1. /\ actor \in [Actors -> ActorStates] /\ actor[a] \in ActorStates /\ store \in Sessions
      /\ PlaceFits(actor[a]) /\ HandsFit(actor[a]) /\ ErasureFits(actor[a]) /\ StoreFits
      /\ events \in 0..MaxEvents /\ disk \subseteq Audio /\ lost \subseteq Audio
      /\ Job(a) = actor[a].job /\ opened \in Nat
  BY Basics
<1> DEFINE r == [actor[a] EXCEPT !.seen = store, !.at = "delete"]
<1>3. actor' = [actor EXCEPT ![a] = r]
  BY DEF ReadForCleanup
<1>4. /\ r \in ActorStates /\ r.at = "delete" /\ r.job = actor[a].job
      /\ r.index = actor[a].index /\ r.seen = store /\ r.putting = actor[a].putting
      /\ r.files = actor[a].files /\ r.then = actor[a].then
  BY <1>1 DEF ActorStates, Places
<1> HIDE DEF r
<1>5. /\ Others(a) /\ actor'[a] = r
  BY <1>1, <1>3, <1>4 DEF Others
<1>6. /\ actor[a].at = "cleanup" /\ ~actor[a].putting
      /\ store' = store /\ disk' = disk /\ pending' = pending
      /\ causes' = causes /\ ended' = ended /\ lost' = lost /\ Framed /\ events' = events
  BY DEF ReadForCleanup, At, Framed, boundVars, voiceVars, markVars
<1>7. KeptStore
  BY <1>1, <1>6, QuietStore
<1>8. FitsPlace(a)' /\ actor'[a].at # "mark"
  <2>1. PlaceFits(actor[a])'
    BY <1>1, <1>4, <1>5, <1>6 DEF PlaceFits, WorkFits, WorkPlaces, JobFits, Framed, Reads, KindsAt
  <2>2. HandsFit(actor'[a]) /\ ErasureFits(actor[a])'
    BY <1>1, <1>4, <1>5, <1>6 DEF HandsFit, ErasureFits, Framed, HasStarted
  <2> QED
    BY <1>1, <1>4, <1>5, <1>6, <2>1, <2>2 DEF FitsPlace, StoreFits, Framed
<1>9. ActorKeeps(a)
  <2>1. Past(actor[a])'
    BY <1>4, <1>5, <1>6 DEF Past
  <2>2. Clean' => Position(actor[a])' /\ (Owns(actor'[a]) <=> Owns(actor[a]))
    BY <1>4, <1>5, <1>6 DEF Position, Owns
  <2>3. HeardBefore(actor[a])' /\ ~Unsaid(actor[a])
    BY <1>4, <1>5, <1>6 DEF HeardBefore, Unsaid, Between
  <2>5. Straight => AudioFits(actor[a])'
    <3> SUFFICES ASSUME Straight PROVE AudioFits(actor[a])'
      OBVIOUS
    <3>1. ReadyFits(store)
      BY <1>6 DEF ReadingInv, AudioInv, Straight
    <3> QED
      BY <1>4, <1>5, <3>1 DEF AudioFits
  <2>6. Sent(actor[a])'
    BY <1>4, <1>5, <1>6 DEF Sent
  <2> QED
    BY <1>1, <1>4, <1>5, <2>1, <2>2, <2>3, <2>5, <2>6 DEF ActorKeeps
<1>10. KeepsFiles(a)
  BY <1>4, <1>5, <1>6 DEF KeepsFiles
<1> QED
  BY <1>1, <1>5, <1>6, <1>7, <1>8, <1>9, <1>10, KeptStep

LEMMA DeleteSessionStep ==
    ASSUME ReadingInv, NEW a \in Actors, DeleteSession(a)
    PROVE  ReadingInv'
<1>1. /\ actor \in [Actors -> ActorStates] /\ actor[a] \in ActorStates /\ store \in Sessions
      /\ PlaceFits(actor[a]) /\ HandsFit(actor[a]) /\ ErasureFits(actor[a]) /\ StoreFits
      /\ events \in 0..MaxEvents /\ disk \subseteq Audio /\ lost \subseteq Audio
      /\ Job(a) = actor[a].job /\ Seen(a) = actor[a].seen /\ opened \in Nat /\ marked \in Nat
      /\ actor[a].seen.sid <= opened /\ ended \subseteq 1..opened /\ ShapeInv
  BY Basics DEF Seen
<1>2. /\ actor[a].at = "delete" /\ ~actor[a].putting
      /\ store' = NoSession /\ disk' = disk \ Seen(a).files /\ pending' = pending
      /\ ended' = ended \cup ({store.sid} \ {0})
      /\ lost' = lost \cup (store.files \ Seen(a).files)
      /\ causes' = causes /\ Framed /\ events' = events
  BY DEF DeleteSession, At, Framed, boundVars, voiceVars, markVars
<1>3. \/ Now(a, "cleanup", actor[a].job, actor[a].index, actor[a].seen, FALSE, actor[a].files, "create")
         /\ actor[a].then = "reopen"
      \/ GoesIdle(a)
      \/ /\ actor[a].then \in {"create", "purge", "sorry"}
         /\ Now(a, actor[a].then, actor[a].job, actor[a].index, actor[a].seen, FALSE, actor[a].files,
                actor[a].then)
  <2>1. CASE actor[a].then = "reopen"
    <3> DEFINE r == [actor[a] EXCEPT !.at = "cleanup", !.then = "create"]
    <3>1. actor' = [actor EXCEPT ![a] = r]
      BY <2>1 DEF DeleteSession
    <3>2. /\ r \in ActorStates /\ r.at = "cleanup" /\ r.then = "create" /\ r.job = actor[a].job
          /\ r.index = actor[a].index /\ r.seen = actor[a].seen /\ r.putting = actor[a].putting
          /\ r.files = actor[a].files
      BY <1>1 DEF ActorStates, Places, Afters
    <3>3. actor[a].putting = FALSE
      BY <1>1, <1>2 DEF ActorStates
    <3> HIDE DEF r
    <3> QED
      BY <1>1, <2>1, <3>1, <3>2, <3>3, ActorMoved
  <2>2. CASE actor[a].then \in {"idle", "job"}
    <3>1. Ends(a)
      BY <2>2 DEF DeleteSession
    <3> QED
      BY <1>1, <3>1, EndsTo
  <2>3. CASE actor[a].then \in {"create", "purge", "sorry"}
    <3>1. Moves(a, actor[a].then)
      BY <2>3 DEF DeleteSession
    <3>2. actor[a].then \in Places
      BY <2>3 DEF Places
    <3>3. actor[a].putting = FALSE
      BY <1>1, <1>2 DEF ActorStates
    <3>4. Goes(a, actor[a].then)
      BY <1>1, <3>1, <3>2, MovesTo
    <3> QED
      BY <2>3, <3>3, <3>4 DEF Goes
  <2>4. actor[a].then \in Afters
    BY <1>1 DEF ActorStates
  <2> QED
    BY <2>1, <2>2, <2>3, <2>4 DEF Afters
<1> DEFINE Kept ==
        /\ Others(a) /\ FitsPlace(a)' /\ actor'[a].at # "mark" /\ Past(actor[a])'
        /\ Owns(actor'[a]) => Owns(actor[a]) /\ actor'[a].job.sid = Job(a).sid
        /\ Position(actor[a])' /\ HeardBefore(actor[a])' /\ Sent(actor[a])'
        /\ Straight => AudioFits(actor[a])'
<1>4. Kept
  <2>1. CASE GoesIdle(a)
    <3>1. opened' \in Nat /\ marked' \in Nat
      BY <1>1, <1>2 DEF Framed
    <3> QED
      BY <2>1, <3>1, IdleFits
  <2>2. ASSUME NEW at \in {"cleanup", "create", "purge"}, NEW then \in {"create", "purge"},
               Now(a, at, actor[a].job, actor[a].index, actor[a].seen, FALSE, actor[a].files, then),
               actor[a].then \in {"reopen", "create", "purge"},
               at = "purge" <=> then = "purge", then = "purge" => actor[a].then = "purge"
        PROVE  Kept
    <3>1. /\ actor'[a].at = at /\ actor'[a].job = actor[a].job /\ actor'[a].then = then
          /\ actor'[a].seen = actor[a].seen /\ actor'[a].putting = FALSE
          /\ actor'[a].files = actor[a].files /\ Others(a)
      BY <2>2 DEF Now, Others
    <3>2. actor[a].job.kind = "none" /\ actor[a].files = {}
      BY <1>1, <1>2, <2>2 DEF PlaceFits, HandsFit, KindsAt
    <3>3. PlaceFits(actor[a])'
      BY <1>1, <1>2, <2>2, <3>1, <3>2 DEF PlaceFits, WorkFits, WorkPlaces, JobFits, Framed, KindsAt
    <3>4. HandsFit(actor'[a]) /\ ErasureFits(actor[a])'
      BY <1>1, <1>2, <2>2, <3>1, <3>2 DEF HandsFit, ErasureFits, Framed
    <3>5. Straight => AudioFits(actor[a])'
      <4> SUFFICES ASSUME Straight PROVE AudioFits(actor[a])'
        OBVIOUS
      <4>1. AudioFits(actor[a])
        BY <1>2 DEF Straight, ReadingInv, AudioInv
      <4> QED
        BY <2>2, <3>1, <3>2, <4>1 DEF AudioFits
    <3>6. FitsPlace(a)' /\ actor'[a].at # "mark"
      BY <1>1, <1>2, <2>2, <3>1, <3>3, <3>4 DEF FitsPlace, Framed
    <3>7. Past(actor[a])' /\ ~Owns(actor'[a]) /\ Position(actor[a])' /\ HeardBefore(actor[a])'
          /\ Sent(actor[a])'
      BY <3>1, <3>2 DEF Past, Owns, Locking, Position, HeardBefore, Sent
    <3> QED
      BY <3>1, <3>5, <3>6, <3>7
  <2>3. ASSUME actor[a].then = "reopen",
               Now(a, "cleanup", actor[a].job, actor[a].index, actor[a].seen, FALSE, actor[a].files,
                   "create")
        PROVE  Kept
    <3> HIDE DEF Kept
    <3>1. /\ "cleanup" \in {"cleanup", "create", "purge"} /\ "create" \in {"create", "purge"}
          /\ actor[a].then \in {"reopen", "create", "purge"}
          /\ "cleanup" = "purge" <=> "create" = "purge"
          /\ "create" = "purge" => actor[a].then = "purge"
      BY <2>3
    <3> QED
      BY <2>2, <2>3, <3>1, Zenon
  <2>4. ASSUME actor[a].then \in {"create", "purge"},
               Now(a, actor[a].then, actor[a].job, actor[a].index, actor[a].seen, FALSE,
                   actor[a].files, actor[a].then)
        PROVE  Kept
    <3> HIDE DEF Kept
    <3> QED
      BY <2>2, <2>4
  <2>5. ASSUME actor[a].then = "sorry",
               Now(a, "sorry", actor[a].job, actor[a].index, actor[a].seen, FALSE,
                   actor[a].files, "sorry")
        PROVE  Kept
    <3>1. /\ actor'[a].at = "sorry" /\ actor'[a].job = actor[a].job /\ actor'[a].then = "sorry"
          /\ actor'[a].seen = actor[a].seen /\ actor'[a].putting = FALSE
          /\ actor'[a].files = actor[a].files /\ Others(a)
      BY <2>5 DEF Now, Others
    <3>2. actor[a].job.kind = "chunk" /\ actor[a].files = {}
      BY <1>1, <1>2, <2>5 DEF PlaceFits, HandsFit, KindsAt
    <3>3. PlaceFits(actor[a])'
      BY <1>1, <1>2, <3>1, <3>2 DEF PlaceFits, WorkFits, WorkPlaces, JobFits, Framed, KindsAt, Locking
    <3>4. HandsFit(actor'[a]) /\ ErasureFits(actor[a])'
      BY <1>1, <1>2, <3>1, <3>2 DEF HandsFit, ErasureFits, Framed
    <3>5. Straight => AudioFits(actor[a])'
      <4> SUFFICES ASSUME Straight PROVE AudioFits(actor[a])'
        OBVIOUS
      <4>1. AudioFits(actor[a])
        BY <1>2 DEF Straight, ReadingInv, AudioInv
      <4> QED
        BY <3>1, <4>1 DEF AudioFits
    <3>6. FitsPlace(a)' /\ actor'[a].at # "mark"
      BY <1>1, <1>2, <3>1, <3>3, <3>4 DEF FitsPlace, Framed
    <3>7. Past(actor[a])' /\ ~Owns(actor'[a]) /\ Position(actor[a])' /\ HeardBefore(actor[a])'
          /\ Sent(actor[a])'
      BY <3>1, <3>2 DEF Past, Owns, Position, HeardBefore, Between, Sent
    <3> QED
      BY <3>1, <3>5, <3>6, <3>7
  <2> HIDE DEF Kept
  <2>6. CASE actor[a].then \in {"create", "purge", "sorry"}
             /\ Now(a, actor[a].then, actor[a].job, actor[a].index, actor[a].seen, FALSE,
                    actor[a].files, actor[a].then)
    <3>1. CASE actor[a].then = "sorry"
      BY <2>5, <2>6, <3>1
    <3>2. CASE actor[a].then \in {"create", "purge"}
      BY <2>4, <2>6, <3>2
    <3> QED
      BY <2>6, <3>1, <3>2
  <2> QED
    BY <1>3, <2>1, <2>3, <2>6
<1>5. ShapeInv'
  <2>1. StoreFits'
    BY <1>1, <1>2, Blank DEF StoreFits, Framed
  <2>2. disk' \subseteq Audio /\ lost' \subseteq Audio /\ ended' \subseteq 1..opened
    <3>1. store.files \subseteq Audio /\ (store.sid # 0 => store.sid \in 1..opened)
      BY <1>1 DEF Sessions, StoreFits
    <3> QED
      BY <1>1, <1>2, <3>1
  <2> QED
    BY <1>1, <1>2, <1>4, <2>1, <2>2, FramedShape
<1>6. KeepsSession(a)
  BY <1>2, <1>4, Blank DEF KeepsSession, Framed
<1>7. KeepsLock(a) /\ SameLocks
  BY <1>2, <1>4, SameQueue, Blank DEF KeepsLock, SameText
<1>8. KeepsHeard(a)
  BY <1>2, <1>4, Blank DEF KeepsHeard, SameText, Unsaid
<1>9. KeepsAudio(a)
  BY <1>2, <1>4, Blank DEF KeepsAudio, Straight, ReadyFits
<1>10. KeepsFiles(a)
  <2>1. actor[a].files = {}
    BY <1>1, <1>2 DEF HandsFit
  <2> QED
    BY <1>2, <2>1 DEF KeepsFiles
<1> QED
  BY <1>2, <1>4, <1>5, <1>6, <1>7, <1>8, <1>9, <1>10, OrdinaryStep

------------------------------------------------------------------------------
(* What the user does.                                                     *)

LEMMA StartsTo ==
    ASSUME ReadingInv, NEW a \in Actors, NEW command, NEW at \in Places, NEW job \in Jobs,
           Starts(a, command, at, job)
    PROVE  /\ actor[a] = Idle
           /\ Now(a, at, job, 0, NoSession, FALSE, {}, "idle")
           /\ events' \in 0..MaxEvents /\ opened' = opened
<1>1. actor \in [Actors -> ActorStates] /\ actor[a] = Idle /\ events \in 0..MaxEvents /\ MaxEvents \in Nat
  BY Basics DEF Starts
<1> DEFINE r == [Idle EXCEPT !.at = at, !.job = job]
<1>2. actor' = [actor EXCEPT ![a] = r]
  BY <1>1 DEF Starts
<1>3. /\ r \in ActorStates /\ r.at = at /\ r.job = job /\ r.index = 0 /\ r.seen = NoSession
      /\ r.putting = FALSE /\ r.files = {} /\ r.then = "idle"
  BY Blank DEF ActorStates
<1> HIDE DEF r
<1>4. Now(a, at, job, 0, NoSession, FALSE, {}, "idle")
  BY <1>1, <1>2, <1>3, ActorMoved
<1>5. events < MaxEvents /\ events' = events + 1 /\ opened' = opened
  BY DEF Starts, Event
<1>6. events' \in 0..MaxEvents
  BY <1>1, <1>5
<1> QED
  BY <1>1, <1>4, <1>5, <1>6

LEMMA CommandStep ==
    ASSUME ReadingInv, NEW a \in Actors, Command(a)
    PROVE  ReadingInv'
<1>1. /\ disk \subseteq Audio /\ lost \subseteq Audio /\ opened \in Nat /\ marked \in Nat
      /\ Parts \in Nat \ {0} /\ opened <= MaxSessions /\ MaxSessions \in Nat
  BY Basics, RedisReadingAssumption DEF ShapeInv
<1>2. PICK job \in Jobs, at \in {"context", "busy"} :
          /\ \E command \in AllCommands : Starts(a, command, at, job)
          /\ job.kind \in KindsAt(at) /\ job.index = 0 /\ job.born = 0
          /\ job.kind # "none" => job.sid \in 1..opened
  <2>1. ASSUME NEW kind \in {"chunk", "export", "none"}, NEW b \in Button(kind)
        PROVE  b \in Jobs /\ b.kind = kind /\ b.index = 0 /\ b.born = 0 /\ b.sid \in 1..opened
    <3>1. PICK s \in 1..opened : b = [NoJob EXCEPT !.kind = kind, !.sid = s]
      BY DEF Button
    <3>2. s \in 0..MaxSessions
      BY <1>1
    <3> QED
      BY <1>1, <3>1, <3>2, Blank DEF Jobs, Kinds
  <2>2. CASE PressNext(a)
    <3>1. PICK b \in Button("chunk") : Starts(a, "next", "context", b)
      BY <2>2 DEF PressNext
    <3> QED
      BY <2>1, <3>1 DEF KindsAt, AllCommands
  <2>3. CASE PressExport(a)
    <3>1. PICK b \in Button("export") : Starts(a, "export", "context", b)
      BY <2>3 DEF PressExport
    <3> QED
      BY <2>1, <3>1 DEF KindsAt, AllCommands
  <2>4. CASE PressStop(a)
    <3>1. PICK b \in Button("none") : Starts(a, "stop", "context", b)
      BY <2>4 DEF PressStop
    <3> QED
      BY <2>1, <3>1 DEF KindsAt, AllCommands
  <2>5. CASE SendText(a)
    BY <2>5, Blank DEF SendText, KindsAt, AllCommands
  <2> QED
    BY <2>2, <2>3, <2>4, <2>5 DEF Command
<1>3. PICK command \in AllCommands : Starts(a, command, at, job)
  BY <1>2
<1>4. /\ actor[a] = Idle
      /\ Now(a, at, job, 0, NoSession, FALSE, {}, "idle")
      /\ events' \in 0..MaxEvents /\ opened' = opened
  BY <1>3, StartsTo DEF Places
<1>5. /\ Others(a) /\ actor'[a].at = at /\ actor'[a].job = job /\ actor'[a].index = 0
      /\ actor'[a].seen = NoSession /\ ~actor'[a].putting /\ actor'[a].files = {}
      /\ actor'[a].then = "idle"
  BY <1>4 DEF Now, Others
<1>6. /\ store' = store /\ disk' = disk /\ pending' = pending
      /\ causes' = causes /\ ended' = ended /\ lost' = lost /\ Framed
  BY <1>4 DEF Command, Framed, voiceVars, markVars
<1>7. KeptStore
  BY <1>1, <1>6, QuietStore
<1>8. FitsPlace(a)' /\ actor'[a].at # "mark"
  <2>1. JobFits(job)'
    BY <1>1, <1>2, <1>6 DEF JobFits, Framed
  <2>2. PlaceFits(actor[a])'
    BY <1>2, <1>5, <2>1 DEF PlaceFits, WorkFits, WorkPlaces
  <2>3. HandsFit(actor'[a]) /\ ErasureFits(actor[a])'
    BY <1>5, Blank DEF HandsFit, ErasureFits
  <2> QED
    BY <1>1, <1>5, <1>6, <2>2, <2>3, Blank DEF FitsPlace, Framed
<1>9. ActorKeeps(a)
  <2>1. Past(actor[a])' /\ ~Owns(actor'[a]) /\ ~Owns(actor[a]) /\ Position(actor[a])'
    <3>1. job.kind \in {"chunk", "export"} => at = "context"
      BY <1>2 DEF KindsAt
    <3> QED
      BY <1>4, <1>5, <3>1, Blank DEF Past, Owns, Locking, Position
  <2>2. HeardBefore(actor[a])' /\ ~Unsaid(actor[a]) /\ AudioFits(actor[a])' /\ Sent(actor[a])'
    BY <1>4, <1>5, Blank DEF HeardBefore, Between, Unsaid, AudioFits, ReadyFits, Sent
  <2> QED
    BY <2>1, <2>2 DEF ActorKeeps
<1>10. KeepsFiles(a)
  BY <1>4, <1>6, Blank DEF KeepsFiles
<1> QED
  BY <1>1, <1>4, <1>5, <1>6, <1>7, <1>8, <1>9, <1>10, KeptStep

------------------------------------------------------------------------------
(* An actor that goes on with its job.                                     *)

Arrives(a) ==
    LET n == actor'[a] IN
    /\ n.job = Job(a) /\ n.seen = Seen(a) /\ ~n.putting
    /\ n.at \notin {"idle", "mark"} /\ n.job.kind \in KindsAt(n.at) /\ HandsFit(n)
    /\ n.at \in {"erasing", "purge"} \/ (n.at \in {"cleanup", "delete"} /\ n.then = "purge")
          => marked = 1
    /\ n.at \in {"cleanup", "delete"} =>
          IF n.job.kind = "none" THEN n.then # "sorry" ELSE n.then \in {"idle", "job", "sorry"}
    /\ WorkFits(n)
    /\ n.at \in {"queue", "push", "unqueued"} => n.index + 1 < Parts

Minds(a) ==
    LET n == actor'[a] IN
    /\ n.at \in {"claim", "outside"} => n.seen.sid = n.job.sid \/ ("overlap" \notin causes' => n.job.sid \in ended)
    /\ Clean' =>
          /\ actor[a].at \in {"context", "try", "sorry"} => n.at = "try" \/ n.job.kind = "none"
          /\ Owns(actor[a]) /\ Job(a).sid = store.sid => Owns(n)
          /\ Position(actor[a])'
    /\ Clean' /\ "crash" \notin causes' =>
          /\ HeardBefore(actor[a])'
          /\ Unsaid(actor[a]) => "unsent" \in causes' \/ Unsaid(n)
    /\ Straight =>
          /\ n.at = "claim" => n.seen.prefetch = "ready" /\ n.seen.pindex = n.index
          /\ n.job.kind \in {"chunk", "prefetch"}
                /\ n.at \in {"again", "check2", "advance", "check3", "send", "ready"} => OwnAudio(n)
    /\ n.at = "send" => Sent(actor[a])'

LEMMA AtWork ==
    ASSUME ReadingInv, NEW a \in Actors
    PROVE  WorkFits(actor[a]) /\ Job(a) = actor[a].job
  BY Basics DEF PlaceFits

LEMMA ArrivesFits ==
    ASSUME ReadingInv, NEW a \in Actors, opened' = opened, marked' = marked, Arrives(a)
    PROVE  FitsPlace(a)' /\ actor'[a].at # "mark"
<1>1. PlaceFits(actor[a]) /\ Seen(a).sid <= opened /\ Job(a) = actor[a].job
  BY Basics
<1>3. /\ actor'[a].job = actor[a].job
      /\ JobFits(actor[a].job)
  BY <1>1 DEF Arrives, PlaceFits
<1>4. JobFits(actor[a].job)'
  BY <1>3 DEF JobFits
<1>5. PlaceFits(actor[a])'
  BY <1>4 DEF PlaceFits, Arrives
<1>6. HandsFit(actor'[a]) /\ ErasureFits(actor[a])'
  BY DEF ErasureFits, Arrives
<1> QED
  BY <1>1, <1>5, <1>6 DEF FitsPlace, Arrives

LEMMA MindsKeeps ==
    ASSUME ReadingInv, NEW a \in Actors, KeptStore, Arrives(a), Minds(a)
    PROVE  ActorKeeps(a)
<1>1. /\ actor'[a].job = Job(a) /\ actor'[a].seen = Seen(a) /\ ~actor'[a].putting
      /\ Job(a) = actor[a].job /\ Seen(a) = actor[a].seen
  BY DEF Arrives, Job, Seen
<1>2. "overlap" \notin causes' => Past(actor[a])'
  BY <1>1 DEF Minds, Past, KeptStore
<1>3. Clean' =>
          /\ Owns(actor'[a]) => Owns(actor[a]) /\ actor'[a].job.sid = Job(a).sid
          /\ Position(actor[a])'
          /\ Held' /\ Owns(actor[a]) /\ Job(a).sid = store.sid => Owns(actor'[a])
  BY <1>1 DEF Minds, Owns, Locking
<1>4. Clean' /\ "crash" \notin causes' =>
          /\ HeardBefore(actor[a])'
          /\ Unsaid(actor[a]) =>
                "unsent" \in causes' \/ (Unsaid(actor'[a]) /\ actor'[a].job.sid = Job(a).sid)
  BY <1>1 DEF Minds
<1>5. Straight => AudioFits(actor[a])'
  <2> SUFFICES ASSUME Straight PROVE AudioFits(actor[a])'
    OBVIOUS
  <2>1. AudioFits(actor[a])
    BY DEF Straight, KeptStore, ReadingInv, AudioInv
  <2> QED
    BY <1>1, <2>1 DEF AudioFits, Minds
<1>6. Sent(actor[a])'
  BY DEF Sent, Minds
<1> QED
  BY <1>2, <1>3, <1>4, <1>5, <1>6 DEF ActorKeeps

LEMMA OnwardStep ==
    ASSUME ReadingInv, NEW a \in Actors, Others(a), Framed, pending' = pending, KeptStore,
           events' \in 0..MaxEvents, disk' \subseteq Audio, Arrives(a), Minds(a), KeepsFiles(a)
    PROVE  ReadingInv'
<1>1. FitsPlace(a)' /\ actor'[a].at # "mark"
  BY ArrivesFits DEF Framed
<1> QED
  BY <1>1, MindsKeeps, KeptStep

------------------------------------------------------------------------------
(* Handlers that go on after a get.                                        *)

\* Who reads another session than its own has lost its own.
LEMMA OwnGone ==
    ASSUME ReadingInv, NEW a \in Actors, WroteBack(a), Clean', actor[a].putting,
           Job(a).kind # "none", Seen(a).sid # Job(a).sid
    PROVE  Job(a).sid # store.sid
<1>1. "overlap" \notin causes
  BY DEF WroteBack, Clean
<1>2. Job(a).sid \in ended
  BY <1>1 DEF ReadingInv, SessionsInv, Past, Job, Seen
<1> QED
  BY <1>1, <1>2 DEF ReadingInv, SessionsInv, StoppedStaysStopped

LEMMA SeenIsStored ==
    ASSUME ReadingInv, NEW a \in Actors, WroteBack(a), "overlap" \notin causes', Seen(a).sid # 0
    PROVE  SeenStored(a) /\ SameStored
  BY DEF WroteBack

LEMMA EventBound ==
    ASSUME ReadingInv, Event
    PROVE  events' \in 0..MaxEvents /\ opened' = opened
<1>1. events \in 0..MaxEvents /\ MaxEvents \in Nat /\ events < MaxEvents /\ events' = events + 1
  BY RedisReadingAssumption DEF ReadingInv, ShapeInv, Event
<1>2. events' \in 0..MaxEvents
  BY <1>1
<1> QED
  BY <1>2 DEF Event

\* A handler without the lock, or without its session, ends with an apology.
LEMMA ApologyStep ==
    ASSUME ReadingInv, NEW a \in Actors, Apologises(a), Framed, pending' = pending, KeptStore,
           events' \in 0..MaxEvents, disk' \subseteq Audio, actor[a].files = {},
           Job(a).kind \in Locking, actor[a].at \notin {"context", "try", "sorry"},
           ~Unsaid(actor[a]), KeepsFiles(a),
           Clean' => ~(Owns(actor[a]) /\ Job(a).sid = store.sid)
    PROVE  ReadingInv'
<1>1. /\ actor \in [Actors -> ActorStates] /\ actor[a] \in ActorStates
      /\ Job(a) = actor[a].job /\ Seen(a) = actor[a].seen
  BY Basics
<1>2. CASE actor[a].then = "idle"
  <2>1. GoesOn(a, "sorry")
    <3>1. Continues(a, "sorry") /\ "sorry" \in Places
      BY <1>2 DEF Apologises, Places
    <3> QED
      BY <1>1, <3>1, ContinuesTo
  <2>2. /\ Others(a) /\ actor'[a].at = "sorry" /\ actor'[a].job = Job(a)
        /\ actor'[a].then = "idle"
        /\ actor'[a].seen = Seen(a) /\ ~actor'[a].putting /\ actor'[a].files = {}
    BY <1>1, <1>2, <2>1 DEF GoesOn, Now, Others
  <2>3. Arrives(a)
    BY <2>2 DEF Arrives, WorkFits, WorkPlaces, KindsAt, HandsFit
  <2>4. Minds(a)
    BY <2>2 DEF Minds, Position, HeardBefore, Between, Owns
  <2> QED
    BY <2>2, <2>3, <2>4, OnwardStep
<1>3. CASE actor[a].then # "idle"
  <2>1. GoesIdle(a)
    BY <1>1, <1>3, EndsTo DEF Apologises
  <2> QED
    BY <2>1, IdleStep
<1> QED
  BY <1>2, <1>3

LEMMA ContextStep ==
    ASSUME ReadingInv, NEW a \in Actors, Context(a)
    PROVE  ReadingInv'
<1>1. /\ actor \in [Actors -> ActorStates] /\ actor[a] \in ActorStates
      /\ Job(a) = actor[a].job /\ Seen(a) = actor[a].seen /\ PlaceFits(actor[a])
      /\ HandsFit(actor[a]) /\ events \in 0..MaxEvents /\ disk \subseteq Audio
      /\ Seen(a) \in Sessions /\ Parts \in Nat
  BY Basics
<1>2. /\ actor[a].at = "context" /\ actor[a].putting /\ WritesBack(a) /\ Framed
      /\ disk' = disk /\ pending' = pending /\ events' = events /\ ended' = ended
  BY DEF Context, Got, Framed, boundVars, voiceVars, markVars
<1>3. WroteBack(a) /\ KeptStore
  BY <1>2, WrittenStore
<1>4. /\ actor[a].files = {} /\ ~Owns(actor[a]) /\ ~Unsaid(actor[a])
      /\ Job(a).kind \in {"chunk", "export", "none"}
  BY <1>1, <1>2 DEF HandsFit, Owns, Unsaid, PlaceFits, KindsAt
<1>5. KeepsFiles(a)
  BY <1>2, <1>3, <1>4 DEF KeepsFiles, WroteBack
<1>6. CASE Job(a).kind = "none" /\ Seen(a).sid \in {0, Job(a).sid}
  <2>1. GoesClean(a, "idle")
    BY <1>1, <1>6, CleansUpTo DEF Context, Afters
  <2>2. /\ Others(a) /\ actor'[a].at = "cleanup" /\ actor'[a].job = Job(a)
        /\ actor'[a].seen = Seen(a) /\ ~actor'[a].putting /\ actor'[a].files = {}
        /\ actor'[a].then = "idle"
    BY <1>1, <1>4, <2>1 DEF GoesClean, Now, Others
  <2>3. Arrives(a)
    BY <1>2, <1>6, <2>2, AtWork DEF Arrives, WorkFits, WorkPlaces, KindsAt, HandsFit
  <2>4. Minds(a)
    BY <1>4, <1>6, <2>2 DEF Minds, Position, HeardBefore, Between
  <2> QED
    BY <1>1, <1>2, <1>3, <1>5, <2>2, <2>3, <2>4, OnwardStep
<1>7. CASE /\ Job(a).kind # "none" /\ Seen(a).sid = Job(a).sid
           /\ Job(a).kind = "export" => Complete(Seen(a))
  <2>1. GoesOn(a, "try")
    <3>1. Continues(a, "try") /\ "try" \in Places
      BY <1>7 DEF Context, Places
    <3> QED
      BY <1>1, <3>1, ContinuesTo
  <2>2. /\ Others(a) /\ actor'[a].at = "try" /\ actor'[a].job = Job(a)
        /\ actor'[a].then = actor[a].then
        /\ actor'[a].seen = Seen(a) /\ ~actor'[a].putting /\ actor'[a].files = {}
    BY <1>1, <1>4, <2>1 DEF GoesOn, Now, Others
  <2>3. Arrives(a)
    BY <1>2, <1>4, <1>7, <2>2, AtWork DEF Arrives, WorkFits, WorkPlaces, KindsAt, HandsFit, Locking
  <2>4. Clean' => Position(actor[a])'
    <3> SUFFICES ASSUME Clean', Job(a).kind = "export", store'.sid = Job(a).sid
                 PROVE  store'.index = Parts
      BY <2>2 DEF Position
    <3>1. Seen(a).sid # 0
      BY <1>1, <1>7, RedisReadingAssumption DEF PlaceFits, JobFits, ReadingInv, ShapeInv
    <3>2. SeenStored(a) /\ SameStored
      BY <1>3, <3>1, SeenIsStored, CleanIsStraight
    <3>3. Seen(a).index = Parts
      BY <1>1, <1>7 DEF Complete, Sessions
    <3> QED
      BY <3>2, <3>3 DEF SeenStored, SameStored
  <2>5. Minds(a)
    BY <1>4, <2>2, <2>4 DEF Minds, HeardBefore, Between
  <2> QED
    BY <1>1, <1>2, <1>3, <1>5, <2>2, <2>3, <2>5, OnwardStep
<1>8. CASE Ends(a)
  <2>1. GoesIdle(a)
    BY <1>1, <1>8, EndsTo
  <2> QED
    BY <1>1, <1>2, <1>3, <1>4, <1>5, <2>1, IdleStep
<1> QED
  BY <1>6, <1>7, <1>8 DEF Context

LEMMA LockedStep ==
    ASSUME ReadingInv, NEW a \in Actors, Others(a), Framed, causes \subseteq causes', ShapeInv',
           KeepsSession(a), LockInv', KeepsHeard(a), KeepsAudio(a), KeepsFiles(a), Sent(actor[a])'
    PROVE  ReadingInv'
<1>1. store' \in Sessions /\ ended \subseteq ended' /\ opened' = opened /\ heard' = heard
      /\ misheard' = misheard /\ marker' = marker /\ sending' = sending
  BY DEF ShapeInv, KeepsSession, Framed
<1>2. SessionsInv'
  BY <1>1, SessionsStep DEF ReadingInv
<1>3. HeardInv'
  BY <1>1, HeardStep DEF ReadingInv
<1>4. AudioInv' /\ SendingInv' /\ FilesAccounted' /\ PartsOnceInOrder'
  BY <1>1, AudioStep, SendingStep, FilesStep, VoicesStep DEF ReadingInv
<1> QED
  BY <1>2, <1>3, <1>4 DEF ReadingInv

LEMMA LockFacts ==
    ASSUME ReadingInv, causes \subseteq causes', Clean'
    PROVE  /\ OwnerAlone
           /\ \A b \in Actors : OwnerMarks(actor[b]) /\ Position(actor[b])
           /\ \A j \in BagToSet(pending) :
                 j.kind \in Locking /\ j.sid = store.sid => store.generating = "yes"
           /\ Held => ~Abandoned
<1>1. Clean
  BY DEF Clean
<1> QED
  BY <1>1 DEF ReadingInv, LockInv

\* The fields of a session after an update, for the parts of the invariant.
LEMMA StoredFits ==
    ASSUME ReadingInv, NEW a \in Actors, Framed,
           NEW index, NEW mark, NEW state, NEW i, NEW files,
           Stored(a, index, mark, state, i, files)
    PROVE  /\ StoreFits' /\ causes \subseteq causes' /\ store'.sid = store.sid
           /\ Clean' => store.sid \in {0, Job(a).sid}
           /\ store.sid = 0 => store' = store
           /\ store.sid # 0 => store'.index = index /\ store'.generating = mark
<1>1. ShapeInv
  BY DEF ReadingInv
<1> QED
  BY <1>1, CleanIsStraight DEF ShapeInv, StoreFits, Framed, Stored

LEMMA TryStartStep ==
    ASSUME ReadingInv, NEW a \in Actors, TryStart(a)
    PROVE  ReadingInv'
<1>1. /\ actor \in [Actors -> ActorStates] /\ actor[a] \in ActorStates
      /\ Job(a) = actor[a].job /\ Seen(a) = actor[a].seen /\ PlaceFits(actor[a])
      /\ HandsFit(actor[a]) /\ events \in 0..MaxEvents /\ disk \subseteq Audio /\ lost \subseteq Audio
      /\ store \in Sessions /\ ShapeInv /\ ended \subseteq 1..opened
  BY Basics
<1>2. /\ actor[a].at = "try" /\ ~actor[a].putting /\ Framed /\ lost' = lost
      /\ disk' = disk /\ pending' = pending /\ events' = events /\ ended' = ended
  BY DEF TryStart, At, Framed, boundVars, voiceVars, markVars
<1>3. /\ actor[a].files = {} /\ ~Owns(actor[a]) /\ ~Unsaid(actor[a])
      /\ Job(a).kind \in Locking
  BY <1>1, <1>2 DEF HandsFit, Owns, Unsaid, PlaceFits, KindsAt
<1>4. CASE ~Startable(store)
  <2>1. store' = store /\ causes' = causes /\ GoesIdle(a)
    BY <1>1, <1>4, EndsTo DEF TryStart
  <2>2. KeptStore
    BY <1>1, <1>2, <2>1, QuietStore
  <2>3. KeepsFiles(a)
    BY <1>2, <1>3, <2>1 DEF KeepsFiles
  <2> QED
    BY <1>1, <1>2, <1>3, <2>1, <2>2, <2>3, IdleStep
<1>5. CASE Startable(store)
  <2>1. Stored(a, store.index, "yes", store.prefetch, store.pindex, store.files)
    <3>1. Updates(a, [store EXCEPT !.generating = "yes"])
      BY <1>5 DEF TryStart
    <3> QED
      BY <1>1, <3>1, StoredMark
  <2>2. Goes(a, "current")
    <3>1. Moves(a, "current") /\ "current" \in Places
      BY <1>5 DEF TryStart, Places
    <3> QED
      BY <1>1, <3>1, MovesTo
  <2>3. /\ Others(a) /\ actor'[a].at = "current" /\ actor'[a].job = Job(a)
        /\ actor'[a].then = actor[a].then
        /\ actor'[a].seen = Seen(a) /\ ~actor'[a].putting /\ actor'[a].files = {}
    BY <1>1, <1>2, <1>3, <2>2 DEF Goes, Now, Others
  <2>4. /\ store.sid # 0 /\ store.generating # "yes"
        /\ StoreFits' /\ causes \subseteq causes' /\ store'.sid = store.sid
        /\ Clean' => store.sid = Job(a).sid
        /\ store'.index = store.index /\ store'.generating = "yes"
        /\ store'.prefetch = store.prefetch /\ store'.pindex = store.pindex
        /\ store'.files = store.files
    <3>1. store.sid # 0 /\ store.generating # "yes"
      BY <1>5 DEF Startable
    <3>2. /\ store'.prefetch = store.prefetch /\ store'.pindex = store.pindex
          /\ store'.files = store.files
      BY <2>1, <3>1 DEF Stored
    <3>3. /\ StoreFits' /\ causes \subseteq causes' /\ store'.sid = store.sid
          /\ Clean' => store.sid \in {0, Job(a).sid}
          /\ store.sid # 0 => store'.index = store.index /\ store'.generating = "yes"
      BY <1>2, <2>1, StoredFits
    <3> QED
      BY <3>1, <3>2, <3>3
  <2>5. Arrives(a)
    BY <1>2, <1>3, <2>3, AtWork DEF Arrives, WorkFits, WorkPlaces, KindsAt, HandsFit
  <2>6. ShapeInv'
    <3>1. FitsPlace(a)' /\ actor'[a].at # "mark"
      BY <1>2, <2>5, ArrivesFits DEF Framed
    <3> QED
      BY <1>1, <1>2, <2>3, <2>4, <3>1, FramedShape
  <2>7. KeepsSession(a)
    BY <1>2, <2>3, <2>4 DEF KeepsSession, Framed, Past
  <2>8. LockInv'
    <3> SUFFICES ASSUME Clean'
                 PROVE  /\ OwnerAlone'
                        /\ \A b \in Actors : OwnerMarks(actor[b])' /\ Position(actor[b])'
                        /\ \A j \in BagToSet(pending') :
                              j.kind \in Locking /\ j.sid = store'.sid => store'.generating = "yes"
                        /\ ~Abandoned'
      BY DEF LockInv
    <3>1. /\ OwnerAlone
          /\ \A b \in Actors : OwnerMarks(actor[b]) /\ Position(actor[b])
          /\ \A j \in BagToSet(pending) :
                j.kind \in Locking /\ j.sid = store.sid => store.generating = "yes"
      BY <2>4, LockFacts
    <3>2. \A b \in Actors : Owns(actor[b]) => Job(b).sid # Job(a).sid
      BY <2>4, <3>1 DEF OwnerMarks, Job
    <3>3. \A j \in BagToSet(pending) : j.kind \in Locking => j.sid # Job(a).sid
      BY <2>4, <3>1
    <3>4. \A b \in Actors \ {a} : actor'[b] = actor[b]
      BY <2>3 DEF Others
    <3>5. OwnerAlone'
      <4>1. \A b, c \in Actors : b # c /\ Owns(actor'[b]) /\ Owns(actor'[c])
                => actor'[b].job.sid # actor'[c].job.sid
        BY <2>3, <3>1, <3>2, <3>4 DEF OwnerAlone, Job
      <4>2. \A b \in Actors, j \in BagToSet(pending') :
                Owns(actor'[b]) /\ j.kind \in Locking => actor'[b].job.sid # j.sid
        BY <1>2, <2>3, <3>1, <3>3, <3>4 DEF OwnerAlone, Job
      <4> QED
        BY <1>2, <3>1, <4>1, <4>2 DEF OwnerAlone, Job
    <3>6. ASSUME NEW b \in Actors PROVE OwnerMarks(actor[b])' /\ Position(actor[b])'
      <4>1. Position(actor[b])
        BY <3>1
      <4>2. actor'[b] = actor[b] \/ (b = a /\ actor'[b].job = actor[b].job)
        BY <1>1, <2>3, <3>4
      <4>3. Position(actor[b])'
        BY <1>2, <2>3, <2>4, <4>1, <4>2 DEF Position
      <4> QED
        BY <2>4, <4>3 DEF OwnerMarks
    <3>7. ~Abandoned'
      BY <1>3, <2>3, <2>4 DEF Abandoned, Owns, Job
    <3> QED
      BY <2>4, <3>5, <3>6, <3>7
  <2>9. KeepsHeard(a)
    BY <1>3, <2>3, <2>4 DEF KeepsHeard, SameText, HeardBefore, Between
  <2>10. KeepsAudio(a)
    <3> SUFFICES ASSUME Straight PROVE ReadyFits(store') /\ AudioFits(actor[a])'
      BY DEF KeepsAudio, Straight
    <3>1. ReadyFits(store) /\ AudioFits(actor[a])
      BY <2>4 DEF Straight, ReadingInv, AudioInv
    <3> QED
      BY <1>1, <2>3, <2>4, <3>1 DEF ReadyFits, AudioFits
  <2>11. KeepsFiles(a) /\ Sent(actor[a])'
    BY <1>2, <1>3, <2>3, <2>4 DEF KeepsFiles, Sent
  <2> QED
    BY <1>2, <2>3, <2>4, <2>6, <2>7, <2>8, <2>9, <2>10, <2>11, LockedStep
<1> QED
  BY <1>4, <1>5

LEMMA CurrentStep ==
    ASSUME ReadingInv, NEW a \in Actors, Current(a)
    PROVE  ReadingInv'
<1>1. /\ actor \in [Actors -> ActorStates] /\ actor[a] \in ActorStates
      /\ Job(a) = actor[a].job /\ Seen(a) = actor[a].seen /\ PlaceFits(actor[a])
      /\ HandsFit(actor[a]) /\ events \in 0..MaxEvents /\ disk \subseteq Audio
      /\ Seen(a) \in Sessions /\ Parts \in Nat /\ Seen(a).sid <= opened
      /\ opened \in Nat /\ marked \in Nat /\ store \in Sessions /\ opened <= MaxSessions
      /\ MaxSessions \in Nat
  BY Basics, RedisReadingAssumption DEF ShapeInv
<1>2. /\ actor[a].at = "current" /\ actor[a].putting /\ WritesBack(a) /\ Framed
      /\ disk' = disk /\ pending' = pending /\ events' = events /\ ended' = ended
  BY DEF Current, Got, Framed, boundVars, voiceVars, markVars
<1>3. WroteBack(a) /\ KeptStore
  BY <1>2, WrittenStore
<1>4. /\ actor[a].files = {} /\ ~Unsaid(actor[a])
      /\ Job(a).kind \in Locking /\ Owns(actor[a])
  BY <1>1, <1>2 DEF HandsFit, Owns, Unsaid, PlaceFits, KindsAt
<1>5. KeepsFiles(a)
  BY <1>2, <1>3, <1>4 DEF KeepsFiles, WroteBack
<1>6. Job(a).sid \in 1..opened
  BY <1>1, <1>4 DEF PlaceFits, JobFits, Locking
<1>7. CASE /\ Seen(a).sid = 0 \/ (Job(a).kind = "export" /\ ~(SameSession(a) /\ Complete(Seen(a))))
           /\ Apologises(a)
  <2>2. Clean' => Job(a).sid # store.sid
    <3> SUFFICES ASSUME Clean' PROVE Job(a).sid # store.sid
      OBVIOUS
    <3>1. CASE Seen(a).sid # Job(a).sid
      BY <1>2, <1>3, <1>4, <3>1, OwnGone DEF Locking
    <3>2. CASE Seen(a).sid = Job(a).sid
      <4>1. SeenStored(a)
        BY <1>3, <1>6, <3>2, SeenIsStored, CleanIsStraight
      <4>2. Job(a).kind = "export" /\ Seen(a).index # Parts
        BY <1>1, <1>6, <1>7, <3>2 DEF SameSession, Complete
      <4>3. Position(actor[a])
        BY <1>3, LockFacts DEF KeptStore
      <4> QED
        BY <1>1, <1>2, <4>1, <4>2, <4>3 DEF Position, SeenStored
    <3> QED
      BY <3>1, <3>2
  <2>3. actor[a].at \notin {"context", "try", "sorry"}
    BY <1>2
  <2> QED
    BY <1>1, <1>2, <1>3, <1>4, <1>5, <1>7, <2>2, <2>3, ApologyStep
<1>8. ASSUME NEW then \in {"idle", "sorry"}, Seen(a).sid # 0, Job(a).kind = "chunk", CleansUp(a, then)
      PROVE  ReadingInv'
  <2>1. GoesClean(a, then)
    BY <1>1, <1>8, CleansUpTo DEF Afters
  <2>2. /\ Others(a) /\ actor'[a].at = "cleanup" /\ actor'[a].job = Job(a)
        /\ actor'[a].seen = Seen(a) /\ ~actor'[a].putting /\ actor'[a].files = {}
        /\ actor'[a].then \in {"idle", "sorry"}
    BY <1>1, <1>4, <1>8, <2>1 DEF GoesClean, Now, Others
  <2>3. Arrives(a)
    BY <1>2, <1>8, <2>2, AtWork DEF Arrives, WorkFits, WorkPlaces, KindsAt, HandsFit
  <2>4. Minds(a)
    BY <1>2, <1>4, <1>8, <2>2 DEF Minds, Position, HeardBefore, Between, Owns
  <2> QED
    BY <1>1, <1>2, <1>3, <1>5, <2>2, <2>3, <2>4, OnwardStep
<1>9. CASE /\ Seen(a).sid # 0
           /\ Job(a).kind = "export" => SameSession(a)
           /\ actor' = [actor EXCEPT ![a].putting = FALSE, ![a].at = "flag", ![a].job.sid = Seen(a).sid]
  <2> DEFINE j == [Job(a) EXCEPT !.sid = Seen(a).sid]
             r == [actor[a] EXCEPT !.putting = FALSE, !.at = "flag", !.job = j]
  <2>1. /\ j \in Jobs /\ j.sid = Seen(a).sid /\ j.kind = Job(a).kind /\ j.index = Job(a).index
        /\ j.born = Job(a).born
    BY <1>1 DEF ActorStates, Jobs, Sessions
  <2>2. actor' = [actor EXCEPT ![a] = r]
    BY <1>1, <1>9
  <2> HIDE DEF j
  <2>3. /\ r \in ActorStates /\ r.at = "flag" /\ r.job = j /\ r.index = actor[a].index
        /\ r.seen = actor[a].seen /\ r.putting = FALSE /\ r.files = actor[a].files
        /\ r.then = actor[a].then
    BY <1>1, <2>1 DEF ActorStates, Places
  <2> HIDE DEF r
  <2>4. Others(a) /\ actor'[a] = r
    BY <1>1, <2>2, <2>3 DEF Others
  <2>5. Clean' => j.sid = Job(a).sid
    <3>1. Clean' => ~Unchecked(a)
      BY <1>3, CleanIsStraight DEF WroteBack
    <3> QED
      BY <1>2, <1>4, <1>9, <2>1, <3>1 DEF Unchecked, SameSession, Locking
  <2>6. FitsPlace(a)' /\ actor'[a].at # "mark"
    <3>1. JobFits(Job(a)) /\ j.sid \in 1..opened
      BY <1>1, <1>9, <2>1 DEF PlaceFits, Sessions
    <3>2. JobFits(actor[a].job)'
      BY <1>2, <1>4, <2>1, <2>3, <2>4, <3>1 DEF JobFits, Framed, Locking
    <3>3. PlaceFits(actor[a])'
      BY <1>4, <2>1, <2>3, <2>4, <3>2, AtWork DEF PlaceFits, WorkFits, WorkPlaces, KindsAt
    <3> QED
      BY <1>1, <1>2, <1>4, <2>3, <2>4, <3>3 DEF FitsPlace, HandsFit, ErasureFits, Framed
  <2>7. ActorKeeps(a)
    <3>1. Past(actor[a])' /\ Position(actor[a])' /\ HeardBefore(actor[a])' /\ Sent(actor[a])'
      BY <2>3, <2>4 DEF Past, Position, HeardBefore, Between, Sent
    <3>2. Straight => AudioFits(actor[a])'
      <4> SUFFICES ASSUME Straight PROVE AudioFits(actor[a])'
        OBVIOUS
      <4>1. AudioFits(actor[a])
        BY <1>3 DEF Straight, KeptStore, ReadingInv, AudioInv
      <4> QED
        BY <2>3, <2>4, <4>1 DEF AudioFits
    <3>3. Owns(actor'[a])
      BY <1>4, <2>1, <2>3, <2>4 DEF Owns
    <3> QED
      BY <1>4, <2>3, <2>4, <2>5, <3>1, <3>2, <3>3 DEF ActorKeeps
  <2> QED
    BY <1>1, <1>2, <1>3, <1>5, <2>4, <2>6, <2>7, KeptStep
<1>10. CASE /\ Seen(a).sid # 0 /\ Job(a).kind = "chunk"
            /\ CleansUp(a, IF Opening(a) THEN "idle" ELSE "sorry")
  <2>1. CASE Opening(a)
    BY <1>8, <1>10, <2>1
  <2>2. CASE ~Opening(a)
    BY <1>8, <1>10, <2>2
  <2> QED
    BY <2>1, <2>2
<1> QED
  BY <1>7, <1>9, <1>10 DEF Current

LEMMA FlagStep ==
    ASSUME ReadingInv, NEW a \in Actors, Flag(a)
    PROVE  ReadingInv'
<1>1. /\ actor \in [Actors -> ActorStates] /\ actor[a] \in ActorStates
      /\ Job(a) = actor[a].job /\ Seen(a) = actor[a].seen /\ PlaceFits(actor[a])
      /\ HandsFit(actor[a]) /\ events \in 0..MaxEvents /\ disk \subseteq Audio /\ lost \subseteq Audio
      /\ store \in Sessions /\ marked \in 0..1 /\ Seen(a).sid <= opened
  BY Basics DEF ShapeInv
<1>2. /\ actor[a].at = "flag" /\ ~actor[a].putting /\ Framed /\ lost' = lost
      /\ disk' = disk /\ pending' = pending /\ events' = events /\ ended' = ended
  BY DEF Flag, At, Framed, boundVars, voiceVars, markVars
<1>3. /\ actor[a].files = {} /\ ~Unsaid(actor[a])
      /\ Job(a).kind \in Locking /\ Owns(actor[a])
  BY <1>1, <1>2 DEF HandsFit, Owns, Unsaid, PlaceFits, KindsAt
<1>4. Stored(a, store.index, "yes", store.prefetch, store.pindex, store.files)
  <2>1. Updates(a, [store EXCEPT !.generating = "yes"])
    BY DEF Flag
  <2> QED
    BY <1>1, <2>1, StoredMark
<1>5. KeptStore
  <2>1. causes \subseteq causes' /\ (Clean' => store.sid \in {0, Job(a).sid})
    BY <1>2, <1>4, StoredFits
  <2>2. Clean' /\ store.sid # 0 => store.generating = "yes"
    BY <1>1, <1>3, <2>1, LockFacts DEF OwnerMarks
  <2>3. Straight /\ store.sid # 0 /\ store.prefetch = "ready" => Of(store.files, store.sid, store.pindex + 1)
    BY <2>1 DEF Straight, ReadingInv, AudioInv, ReadyFits
  <2> QED
    BY <1>1, <1>2, <1>4, <2>2, <2>3, UpdatedStore
<1> DEFINE j == [Job(a) EXCEPT !.born = marked]
           r == [actor[a] EXCEPT !.at = "enqueue", !.job = j]
<1>6. /\ j \in Jobs /\ j.sid = Job(a).sid /\ j.kind = Job(a).kind /\ j.index = Job(a).index
      /\ j.born = marked
  BY <1>1 DEF ActorStates, Jobs
<1>7. actor' = [actor EXCEPT ![a] = r]
  BY <1>1 DEF Flag
<1> HIDE DEF j
<1>8. /\ r \in ActorStates /\ r.at = "enqueue" /\ r.job = j /\ r.index = actor[a].index
      /\ r.seen = actor[a].seen /\ r.putting = actor[a].putting /\ r.files = actor[a].files
      /\ r.then = actor[a].then
  BY <1>1, <1>6 DEF ActorStates, Places
<1> HIDE DEF r
<1>9. Others(a) /\ actor'[a] = r
  BY <1>1, <1>7, <1>8 DEF Others
<1>10. FitsPlace(a)' /\ actor'[a].at # "mark"
  <2>1. JobFits(Job(a))
    BY <1>1 DEF PlaceFits
  <2>2. JobFits(actor[a].job)'
    BY <1>1, <1>2, <1>6, <1>8, <1>9, <2>1 DEF JobFits, Framed
  <2>3. PlaceFits(actor[a])'
    BY <1>2, <1>3, <1>6, <1>8, <1>9, <2>2, AtWork DEF PlaceFits, WorkFits, WorkPlaces, KindsAt
  <2> QED
    BY <1>1, <1>2, <1>3, <1>8, <1>9, <2>3 DEF FitsPlace, HandsFit, ErasureFits, Framed
<1>11. ActorKeeps(a)
  <2>1. Past(actor[a])' /\ Position(actor[a])' /\ HeardBefore(actor[a])' /\ Sent(actor[a])'
    BY <1>2, <1>8, <1>9 DEF Past, Position, HeardBefore, Between, Sent
  <2>2. Straight => AudioFits(actor[a])'
    <3> SUFFICES ASSUME Straight PROVE AudioFits(actor[a])'
      OBVIOUS
    <3>1. AudioFits(actor[a])
      BY <1>5 DEF Straight, KeptStore, ReadingInv, AudioInv
    <3> QED
      BY <1>8, <1>9, <3>1 DEF AudioFits
  <2>3. Owns(actor'[a])
    BY <1>3, <1>6, <1>8, <1>9 DEF Owns
  <2> QED
    BY <1>3, <1>6, <1>8, <1>9, <2>1, <2>2, <2>3 DEF ActorKeeps
<1>12. KeepsFiles(a)
  <2>1. store.sid = 0 => store' = store
    BY <1>4 DEF Stored
  <2>2. store'.files = store.files
    BY <1>4, <2>1 DEF Stored
  <2> QED
    BY <1>2, <1>3, <2>2 DEF KeepsFiles
<1> QED
  BY <1>1, <1>2, <1>5, <1>9, <1>10, <1>11, <1>12, KeptStep

LEMMA BusyStep ==
    ASSUME ReadingInv, NEW a \in Actors, Busy(a)
    PROVE  ReadingInv'
<1>1. /\ actor \in [Actors -> ActorStates] /\ actor[a] \in ActorStates
      /\ Job(a) = actor[a].job /\ Seen(a) = actor[a].seen /\ PlaceFits(actor[a])
      /\ HandsFit(actor[a]) /\ events \in 0..MaxEvents /\ disk \subseteq Audio
  BY Basics
<1>2. /\ actor[a].at = "busy" /\ actor[a].putting /\ WritesBack(a) /\ Framed
      /\ disk' = disk /\ pending' = pending /\ events' = events /\ ended' = ended
  BY DEF Busy, Got, Framed, boundVars, voiceVars, markVars
<1>3. WroteBack(a) /\ KeptStore
  BY <1>2, WrittenStore
<1>4. /\ actor[a].files = {} /\ ~Unsaid(actor[a])
      /\ Job(a).kind = "none" /\ ~Owns(actor[a])
  BY <1>1, <1>2 DEF HandsFit, Owns, Locking, Unsaid, PlaceFits, KindsAt
<1>5. KeepsFiles(a)
  BY <1>2, <1>3, <1>4 DEF KeepsFiles, WroteBack
<1>6. CASE Ends(a)
  <2>1. GoesIdle(a)
    BY <1>1, <1>6, EndsTo
  <2> QED
    BY <1>1, <1>2, <1>3, <1>4, <1>5, <2>1, IdleStep
<1>7. CASE CleansUp(a, "reopen")
  <2>1. GoesClean(a, "reopen")
    BY <1>1, <1>7, CleansUpTo DEF Afters
  <2>2. /\ Others(a) /\ actor'[a].at = "cleanup" /\ actor'[a].job = Job(a)
        /\ actor'[a].seen = Seen(a) /\ ~actor'[a].putting /\ actor'[a].files = {}
        /\ actor'[a].then = "reopen"
    BY <1>1, <1>4, <2>1 DEF GoesClean, Now, Others
  <2>3. Arrives(a)
    BY <1>2, <1>4, <2>2, AtWork DEF Arrives, WorkFits, WorkPlaces, KindsAt, HandsFit
  <2>4. Minds(a)
    BY <1>2, <1>4, <2>2 DEF Minds, Position, HeardBefore
  <2> QED
    BY <1>1, <1>2, <1>3, <1>5, <2>2, <2>3, <2>4, OnwardStep
<1> QED
  BY <1>6, <1>7 DEF Busy

LEMMA ErasingStep ==
    ASSUME ReadingInv, NEW a \in Actors, Erasing(a)
    PROVE  ReadingInv'
<1>1. /\ actor \in [Actors -> ActorStates] /\ actor[a] \in ActorStates
      /\ Job(a) = actor[a].job /\ Seen(a) = actor[a].seen /\ PlaceFits(actor[a])
      /\ HandsFit(actor[a]) /\ ErasureFits(actor[a]) /\ events \in 0..MaxEvents /\ disk \subseteq Audio
  BY Basics
<1>2. /\ actor[a].at = "erasing" /\ actor[a].putting /\ WritesBack(a) /\ Framed
      /\ disk' = disk /\ pending' = pending /\ events' = events /\ ended' = ended
      /\ CleansUp(a, "purge")
  BY DEF Erasing, Got, Framed, boundVars, voiceVars, markVars
<1>3. WroteBack(a) /\ KeptStore
  BY <1>2, WrittenStore
<1>4. /\ actor[a].files = {} /\ ~Unsaid(actor[a])
      /\ Job(a).kind = "none" /\ ~Owns(actor[a]) /\ marked = 1
  BY <1>1, <1>2 DEF HandsFit, Owns, Locking, Unsaid, PlaceFits, KindsAt, ErasureFits
<1>5. KeepsFiles(a)
  BY <1>2, <1>3, <1>4 DEF KeepsFiles, WroteBack
<1>6. GoesClean(a, "purge")
  BY <1>1, <1>2, CleansUpTo DEF Afters
<1>7. /\ Others(a) /\ actor'[a].at = "cleanup" /\ actor'[a].job = Job(a)
      /\ actor'[a].seen = Seen(a) /\ ~actor'[a].putting /\ actor'[a].files = {}
      /\ actor'[a].then = "purge"
  BY <1>1, <1>4, <1>6 DEF GoesClean, Now, Others
<1>8. Arrives(a)
  BY <1>2, <1>4, <1>7, AtWork DEF Arrives, WorkFits, WorkPlaces, KindsAt, HandsFit
<1>9. Minds(a)
  BY <1>2, <1>4, <1>7 DEF Minds, Position, HeardBefore
<1> QED
  BY <1>1, <1>2, <1>3, <1>5, <1>7, <1>8, <1>9, OnwardStep

LEMMA LastStep ==
    ASSUME ReadingInv, NEW a \in Actors, Last(a)
    PROVE  ReadingInv'
<1>1. /\ actor \in [Actors -> ActorStates] /\ actor[a] \in ActorStates
      /\ Job(a) = actor[a].job /\ Seen(a) = actor[a].seen /\ PlaceFits(actor[a])
      /\ HandsFit(actor[a]) /\ events \in 0..MaxEvents /\ disk \subseteq Audio
  BY Basics
<1>2. /\ actor[a].at = "last" /\ actor[a].putting /\ WritesBack(a) /\ Framed
      /\ disk' = disk /\ pending' = pending /\ events' = events /\ ended' = ended
  BY DEF Last, Got, Framed, boundVars, voiceVars, markVars
<1>3. WroteBack(a) /\ KeptStore
  BY <1>2, WrittenStore
<1>4. /\ actor[a].files = {} /\ ~Unsaid(actor[a])
      /\ Job(a).kind \in Locking /\ Owns(actor[a])
  BY <1>1, <1>2 DEF HandsFit, Owns, Unsaid, PlaceFits, KindsAt
<1>5. KeepsFiles(a)
  BY <1>2, <1>3, <1>4 DEF KeepsFiles, WroteBack
<1>6. CASE ~SameSession(a)
  <2>1. Apologises(a) /\ actor[a].at \notin {"context", "try", "sorry"}
    BY <1>2, <1>6 DEF Last
  <2>2. Clean' => Job(a).sid # store.sid
    BY <1>2, <1>3, <1>4, <1>6, OwnGone DEF Locking, SameSession
  <2> QED
    BY <1>1, <1>2, <1>3, <1>4, <1>5, <2>1, <2>2, ApologyStep
<1>7. CASE SameSession(a)
  <2>1. GoesOn(a, "release")
    <3>1. Continues(a, "release") /\ "release" \in Places
      BY <1>7 DEF Last, Places
    <3> QED
      BY <1>1, <3>1, ContinuesTo
  <2>2. /\ Others(a) /\ actor'[a].at = "release" /\ actor'[a].job = Job(a)
        /\ actor'[a].then = actor[a].then
        /\ actor'[a].seen = Seen(a) /\ ~actor'[a].putting /\ actor'[a].files = {}
    BY <1>1, <1>4, <2>1 DEF GoesOn, Now, Others
  <2>3. Arrives(a)
    BY <1>2, <1>4, <2>2, AtWork DEF Arrives, WorkFits, WorkPlaces, KindsAt, HandsFit
  <2>4. Minds(a)
    BY <1>2, <1>4, <2>2 DEF Minds, Position, HeardBefore, Between, Owns
  <2> QED
    BY <1>1, <1>2, <1>3, <1>5, <2>2, <2>3, <2>4, OnwardStep
<1> QED
  BY <1>6, <1>7

LEMMA WaitedStep ==
    ASSUME ReadingInv, NEW a \in Actors, Waited(a)
    PROVE  ReadingInv'
<1>1. /\ actor \in [Actors -> ActorStates] /\ actor[a] \in ActorStates
      /\ Job(a) = actor[a].job /\ Seen(a) = actor[a].seen /\ PlaceFits(actor[a])
      /\ HandsFit(actor[a]) /\ events \in 0..MaxEvents /\ disk \subseteq Audio
  BY Basics
<1>2. /\ actor[a].at = "wait" /\ actor[a].putting /\ WritesBack(a) /\ Framed
      /\ disk' = disk /\ pending' = pending /\ events' = events /\ ended' = ended
  BY DEF Waited, Got, Framed, boundVars, voiceVars, markVars
<1>3. WroteBack(a) /\ KeptStore
  BY <1>2, WrittenStore
<1>4. /\ actor[a].files = {} /\ ~Unsaid(actor[a])
      /\ Job(a).kind = "chunk" /\ Owns(actor[a])
  BY <1>1, <1>2 DEF HandsFit, Owns, Locking, Unsaid, PlaceFits, KindsAt
<1>5. KeepsFiles(a)
  BY <1>2, <1>3, <1>4 DEF KeepsFiles, WroteBack
<1>6. PICK at \in {"wait", "claim", "reset", "generate"} :
          /\ Continues(a, at)
          /\ at = "claim" => Seen(a).prefetch = "ready" /\ Seen(a).pindex = actor[a].index
  <2>1. /\ Decided(actor[a].index, Seen(a)) \in {"claim", "reset", "generate"}
        /\ Decided(actor[a].index, Seen(a)) = "claim"
              => Seen(a).prefetch = "ready" /\ Seen(a).pindex = actor[a].index
    BY DEF Decided, Fits
  <2> QED
    BY <2>1 DEF Waited
<1>7. GoesOn(a, at)
  <2>1. at \in Places
    BY DEF Places
  <2> QED
    BY <1>1, <1>6, <2>1, ContinuesTo
<1>8. /\ Others(a) /\ actor'[a].at = at /\ actor'[a].job = Job(a) /\ actor'[a].index = actor[a].index
      /\ actor'[a].then = actor[a].then
      /\ actor'[a].seen = Seen(a) /\ ~actor'[a].putting /\ actor'[a].files = {}
  BY <1>1, <1>4, <1>7 DEF GoesOn, Now, Others
<1>9. Arrives(a)
  BY <1>2, <1>4, <1>8, AtWork DEF Arrives, WorkFits, WorkPlaces, KindsAt, HandsFit, Kinds
<1>10. Clean' => Position(actor[a])' /\ SameText
  <2> SUFFICES ASSUME Clean' PROVE Position(actor[a])' /\ SameText
    OBVIOUS
  <2>1. Position(actor[a]) /\ store'.sid = store.sid /\ store'.index = store.index
    BY <1>3, LockFacts, CleanIsStraight DEF KeptStore
  <2> QED
    BY <1>1, <1>2, <1>4, <1>8, <2>1 DEF Position, SameText
<1>11. Clean' /\ "crash" \notin causes' => HeardBefore(actor[a])'
  <2> SUFFICES ASSUME Clean', "crash" \notin causes' PROVE HeardBefore(actor[a])'
    OBVIOUS
  <2>1. HeardBefore(actor[a])
    BY <1>3 DEF KeptStore, ReadingInv, HeardInv, Clean
  <2> QED
    BY <1>1, <1>2, <1>3, <1>8, <2>1 DEF HeardBefore, Between, Framed, KeptStore
<1>12. actor[a].seen.sid = Job(a).sid \/ ("overlap" \notin causes' => Job(a).sid \in ended)
  BY <1>1, <1>2, <1>3, <1>4 DEF KeptStore, ReadingInv, SessionsInv, Past
<1>13. Minds(a)
  BY <1>1, <1>2, <1>4, <1>6, <1>8, <1>10, <1>11, <1>12 DEF Minds, Owns
<1> QED
  BY <1>1, <1>2, <1>3, <1>5, <1>8, <1>9, <1>13, OnwardStep

------------------------------------------------------------------------------
(* Jobs.                                                                   *)

Making == {"outside", "wait", "claim", "reset", "generate", "again", "check2", "advance"}
Saying == {"check3", "send"}

LEMMA PositionKept ==
    ASSUME ReadingInv, NEW a \in Actors, KeptStore,
           actor'[a].job = actor[a].job, actor'[a].index = actor[a].index,
           actor[a].job.kind = "chunk" =>
                /\ actor'[a].at \in Making => actor[a].at \in Making
                /\ actor'[a].at \in Saying => actor[a].at \in Saying,
           actor[a].job.kind = "export" => actor'[a].at \notin {"try", "current"}
    PROVE  Clean' => Position(actor[a])'
<1> SUFFICES ASSUME Clean' PROVE Position(actor[a])'
  OBVIOUS
<1>1. Position(actor[a]) /\ store'.sid = store.sid /\ store'.index = store.index
  BY LockFacts, CleanIsStraight DEF KeptStore
<1> QED
  BY <1>1 DEF Position, Making, Saying

LEMMA HeardKept ==
    ASSUME ReadingInv, NEW a \in Actors, KeptStore, Framed,
           actor'[a].job = actor[a].job, actor'[a].index = actor[a].index,
           actor[a].job.kind = "chunk" /\ actor'[a].at \in Between => actor[a].at \in Between
    PROVE  Clean' /\ "crash" \notin causes' => HeardBefore(actor[a])'
<1> SUFFICES ASSUME Clean', "crash" \notin causes' PROVE HeardBefore(actor[a])'
  OBVIOUS
<1>1. HeardBefore(actor[a])
  BY DEF KeptStore, ReadingInv, HeardInv, Clean
<1> QED
  BY <1>1 DEF HeardBefore, Framed, KeptStore

\* What a job that steps starts from.
LEMMA JobBasics ==
    ASSUME ReadingInv, NEW a \in Actors
    PROVE  /\ actor \in [Actors -> ActorStates] /\ actor[a] \in ActorStates
           /\ Job(a) = actor[a].job /\ Seen(a) = actor[a].seen /\ PlaceFits(actor[a])
           /\ HandsFit(actor[a]) /\ events \in 0..MaxEvents
           /\ disk \subseteq Audio /\ lost \subseteq Audio
           /\ actor[a].files \subseteq Audio /\ actor[a].index \in 0..(Parts - 1)
           /\ Job(a).kind \in Kinds => Job(a).sid \in 1..opened
           /\ store \in Sessions /\ Parts \in Nat \ {0} /\ MaxEvents \in Nat
  BY Basics DEF ActorStates, PlaceFits, JobFits, Kinds

LEMMA LeavesTo ==
    ASSUME actor \in [Actors -> ActorStates], NEW a \in Actors, Leaves(a)
    PROVE  /\ disk' = disk \ actor[a].files
           /\ Job(a).kind = "prefetch" => GoesIdle(a)
           /\ Job(a).kind # "prefetch" => GoesEmpty(a, "last")
<1>1. CASE Job(a).kind = "prefetch"
  BY <1>1, EndsTo DEF Leaves
<1>2. CASE Job(a).kind # "prefetch"
  <2>1. Drops(a, "last") /\ "last" \in Places
    BY <1>2 DEF Leaves, Places
  <2> QED
    BY <1>2, <2>1, DropsTo DEF Drops
<1> QED
  BY <1>1, <1>2

\* A job that gives up, whatever it has made.
LEMMA LeavesStep ==
    ASSUME ReadingInv, NEW a \in Actors, Leaves(a), Framed, pending' = pending, KeptStore,
           events' \in 0..MaxEvents, Job(a).kind \in Kinds,
           actor[a].at \notin {"context", "try", "sorry"},
           store.files \subseteq store'.files \cup lost',
           Unsaid(actor[a]) => "unsent" \in causes'
    PROVE  ReadingInv'
<1>1. /\ actor \in [Actors -> ActorStates] /\ actor[a] \in ActorStates /\ Job(a) = actor[a].job
      /\ Seen(a) = actor[a].seen /\ disk \subseteq Audio
  BY JobBasics
<1>2. /\ disk' = disk \ actor[a].files
      /\ Job(a).kind = "prefetch" => GoesIdle(a)
      /\ Job(a).kind # "prefetch" => GoesEmpty(a, "last")
  BY <1>1, LeavesTo
<1>3. KeepsFiles(a)
  BY <1>2 DEF KeepsFiles, KeptStore
<1>4. CASE Job(a).kind = "prefetch"
  <2>1. ~Owns(actor[a])
    BY <1>1, <1>4 DEF Owns, Locking
  <2> QED
    BY <1>1, <1>2, <1>3, <1>4, <2>1, IdleStep
<1>5. CASE Job(a).kind # "prefetch"
  <2>1. /\ Others(a) /\ actor'[a].at = "last" /\ actor'[a].job = Job(a)
        /\ actor'[a].then = actor[a].then
        /\ actor'[a].seen = Seen(a) /\ ~actor'[a].putting /\ actor'[a].files = {}
        /\ Job(a).kind \in Locking
    BY <1>1, <1>2, <1>5 DEF GoesEmpty, Now, Others, Kinds, Locking
  <2>2. Arrives(a)
    BY <1>2, <2>1, AtWork DEF Arrives, WorkFits, WorkPlaces, KindsAt, HandsFit
  <2>3. Minds(a)
    BY <1>1, <2>1 DEF Minds, Position, HeardBefore, Between, Owns
  <2> QED
    BY <1>1, <1>2, <1>3, <2>1, <2>2, <2>3, OnwardStep
<1> QED
  BY <1>4, <1>5

LEMMA AgainStep ==
    ASSUME ReadingInv, NEW a \in Actors, Again(a)
    PROVE  ReadingInv'
<1>1. /\ actor \in [Actors -> ActorStates] /\ actor[a] \in ActorStates
      /\ Job(a) = actor[a].job /\ Seen(a) = actor[a].seen /\ PlaceFits(actor[a])
      /\ HandsFit(actor[a]) /\ events \in 0..MaxEvents /\ disk \subseteq Audio
      /\ Job(a).kind \in Kinds => Job(a).sid \in 1..opened
  BY JobBasics
<1>2. /\ actor[a].at = "again" /\ actor[a].putting /\ WritesBack(a) /\ Framed
      /\ pending' = pending /\ events' = events /\ ended' = ended
  BY DEF Again, Got, Framed, boundVars, voiceVars, markVars
<1>3. WroteBack(a) /\ KeptStore
  BY <1>2, WrittenStore
<1>4. Job(a).kind \in Kinds /\ ~Unsaid(actor[a])
  BY <1>1, <1>2 DEF PlaceFits, KindsAt, Unsaid
<1>5. CASE ~SameSession(a)
  <2>1. Leaves(a)
    BY <1>5 DEF Again
  <2> QED
    BY <1>1, <1>2, <1>3, <1>4, <2>1, LeavesStep DEF WroteBack
<1>6. CASE SameSession(a)
  <2>1. PICK at \in {"send", "check2"} :
            at = (IF Job(a).kind = "export" THEN "send" ELSE "check2")
    OBVIOUS
  <2>2. GoesOn(a, at) /\ disk' = disk
    <3>1. Continues(a, at) /\ at \in Places /\ disk' = disk
      BY <1>6, <2>1 DEF Again, Places
    <3> QED
      BY <1>1, <3>1, ContinuesTo
  <2>3. /\ Others(a) /\ actor'[a].at = at /\ actor'[a].job = Job(a)
        /\ actor'[a].index = actor[a].index
        /\ actor'[a].then = actor[a].then
        /\ actor'[a].seen = Seen(a) /\ ~actor'[a].putting /\ actor'[a].files = actor[a].files
    BY <1>1, <2>2 DEF GoesOn, Now, Others
  <2>4. KeepsFiles(a)
    BY <1>2, <1>3, <2>1, <2>2, <2>3 DEF KeepsFiles, WroteBack
  <2>5. Arrives(a)
    BY <1>2, <1>4, <2>1, <2>3, AtWork DEF Arrives, WorkFits, WorkPlaces, KindsAt, HandsFit, Kinds, Locking
  <2>6. Clean' => Position(actor[a])'
    BY <1>1, <1>2, <1>3, <2>1, <2>3, PositionKept DEF Making, Saying
  <2>7. Clean' /\ "crash" \notin causes' => HeardBefore(actor[a])'
    BY <1>1, <1>2, <1>3, <2>1, <2>3, HeardKept DEF Between
  <2>8. Straight /\ Job(a).kind \in {"chunk", "prefetch"} => OwnAudio(actor'[a])
    <3> SUFFICES ASSUME Straight, Job(a).kind \in {"chunk", "prefetch"} PROVE OwnAudio(actor'[a])
      OBVIOUS
    <3>1. AudioFits(actor[a])
      BY <1>3 DEF Straight, KeptStore, ReadingInv, AudioInv
    <3>2. OwnAudio(actor[a])
      BY <1>1, <1>2, <1>6, <3>1 DEF AudioFits, SameSession
    <3> QED
      BY <1>1, <2>3, <3>2 DEF OwnAudio
  <2>9. Minds(a)
    BY <1>1, <1>2, <1>4, <2>1, <2>3, <2>6, <2>7, <2>8 DEF Minds, Owns, Sent
  <2> QED
    BY <1>1, <1>2, <1>3, <2>2, <2>3, <2>4, <2>5, <2>9, OnwardStep
<1> QED
  BY <1>5, <1>6

LEMMA CheckStep ==
    ASSUME ReadingInv, NEW a \in Actors, Check(a)
    PROVE  ReadingInv'
<1>1. /\ actor \in [Actors -> ActorStates] /\ actor[a] \in ActorStates
      /\ Job(a) = actor[a].job /\ Seen(a) = actor[a].seen /\ PlaceFits(actor[a])
      /\ HandsFit(actor[a]) /\ events \in 0..MaxEvents /\ disk \subseteq Audio /\ lost \subseteq Audio
  BY JobBasics
<1>2. /\ actor[a].at = "check" /\ ~actor[a].putting /\ Framed /\ store' = store
      /\ causes' = causes /\ lost' = lost
      /\ pending' = pending /\ events' = events /\ ended' = ended
  BY DEF Check, At, Framed, boundVars, voiceVars, markVars
<1>3. KeptStore
  BY <1>1, <1>2, QuietStore
<1>4. Job(a).kind \in Kinds /\ ~Unsaid(actor[a])
  BY <1>1, <1>2 DEF PlaceFits, KindsAt, Unsaid
<1>5. CASE ~Skips(Job(a))
  <2>1. Goes(a, "first") /\ disk' = disk
    <3>1. Moves(a, "first") /\ "first" \in Places /\ disk' = disk
      BY <1>5 DEF Check, Places
    <3> QED
      BY <1>1, <3>1, MovesTo
  <2>2. /\ Others(a) /\ actor'[a].at = "first" /\ actor'[a].job = Job(a)
        /\ actor'[a].index = actor[a].index
        /\ actor'[a].then = actor[a].then
        /\ actor'[a].seen = Seen(a) /\ ~actor'[a].putting /\ actor'[a].files = actor[a].files
    BY <1>1, <1>2, <2>1 DEF Goes, Now, Others
  <2>3. KeepsFiles(a)
    BY <1>2, <2>1, <2>2 DEF KeepsFiles
  <2>4. Arrives(a)
    BY <1>1, <1>2, <1>4, <2>2, AtWork DEF Arrives, WorkFits, WorkPlaces, KindsAt, HandsFit, HasStarted, Kinds
  <2>5. Minds(a)
    BY <1>1, <1>2, <1>4, <2>2 DEF Minds, Owns, Position, HeardBefore, Between
  <2> QED
    BY <1>1, <1>2, <1>3, <2>1, <2>2, <2>3, <2>4, <2>5, OnwardStep
<1>6. CASE Skips(Job(a)) /\ Started(a)
  <2>1. /\ disk' = disk \ actor[a].files
        /\ actor' = [actor EXCEPT ![a].at = "last", ![a].files = {}]
        /\ Job(a).kind = "export"
    BY <1>6 DEF Check, Started
  <2>2. Drops(a, "last")
    <3>1. actor[a].putting = FALSE
      BY <1>1, <1>2 DEF ActorStates
    <3>2. [actor[a] EXCEPT !.at = "last", !.files = {}]
            = [actor[a] EXCEPT !.putting = FALSE, !.at = "last", !.files = {}]
      BY <1>1, <3>1 DEF ActorStates
    <3> QED
      BY <1>1, <2>1, <3>2 DEF Drops
  <2>3. Leaves(a)
    BY <2>1, <2>2 DEF Leaves
  <2> QED
    BY <1>1, <1>2, <1>3, <1>4, <2>3, LeavesStep
<1>7. CASE Skips(Job(a)) /\ ~Started(a)
  <2>1. GoesIdle(a) /\ disk' = disk
    BY <1>1, <1>7, EndsTo DEF Check
  <2>2. actor[a].files = {}
    BY <1>1, <1>2, <1>7 DEF HandsFit, Started, HasStarted
  <2>3. KeepsFiles(a)
    BY <1>2, <2>1, <2>2 DEF KeepsFiles
  <2>4. ~Held'
    <3>1. Job(a).born < marker /\ Job(a).born \in 0..1 /\ marker \in 0..marked /\ marked \in 0..1
      BY <1>1, <1>7, Basics DEF Skips, ActorStates, Jobs, ShapeInv
    <3>2. marked # 0 /\ marked' = marked
      BY <1>2, <3>1 DEF Framed
    <3> QED
      BY <3>2 DEF Held
  <2> QED
    BY <1>1, <1>2, <1>3, <1>4, <2>1, <2>3, <2>4, IdleStep
<1> QED
  BY <1>5, <1>6, <1>7

LEMMA FirstStep ==
    ASSUME ReadingInv, NEW a \in Actors, First(a)
    PROVE  ReadingInv'
<1>1. /\ actor \in [Actors -> ActorStates] /\ actor[a] \in ActorStates
      /\ Job(a) = actor[a].job /\ Seen(a) = actor[a].seen /\ PlaceFits(actor[a])
      /\ HandsFit(actor[a]) /\ events \in 0..MaxEvents /\ disk \subseteq Audio
      /\ Job(a).kind \in Kinds => Job(a).sid \in 1..opened
      /\ Seen(a) \in Sessions /\ Parts \in Nat \ {0} /\ opened \in Nat
  BY JobBasics, Basics
<1>2. /\ actor[a].at = "first" /\ actor[a].putting /\ WritesBack(a) /\ Framed
      /\ pending' = pending /\ events' = events /\ ended' = ended
  BY DEF First, Got, Framed, boundVars, voiceVars, markVars
<1>3. WroteBack(a) /\ KeptStore
  BY <1>2, WrittenStore
<1>4. Job(a).kind \in Kinds /\ ~Unsaid(actor[a]) /\ (~Started(a) => actor[a].files = {})
  BY <1>1, <1>2 DEF PlaceFits, KindsAt, Unsaid, HandsFit, Started, HasStarted
<1>5. CASE ~SameSession(a) /\ ~Started(a) /\ Ends(a) /\ disk' = disk
  <2>1. GoesIdle(a)
    BY <1>1, <1>5, EndsTo
  <2>2. KeepsFiles(a)
    BY <1>3, <1>4, <1>5 DEF KeepsFiles, WroteBack
  <2>3. Clean' => Job(a).sid # store.sid
    BY <1>2, <1>3, <1>4, <1>5, OwnGone DEF Kinds, SameSession
  <2> QED
    BY <1>1, <1>2, <1>3, <1>4, <1>5, <2>1, <2>2, <2>3, IdleStep
<1>6. CASE ~SameSession(a) /\ Started(a) /\ Drops(a, "last")
  <2>1. Leaves(a)
    BY <1>6 DEF Leaves, Started
  <2> QED
    BY <1>1, <1>2, <1>3, <1>4, <2>1, LeavesStep DEF WroteBack
<1>7. CASE SameSession(a) /\ Job(a).kind = "chunk" /\ CleansUp(a, "job") /\ disk' = disk
  <2>1. GoesClean(a, "job")
    BY <1>1, <1>7, CleansUpTo DEF Afters
  <2>2. /\ Others(a) /\ actor'[a].at = "cleanup" /\ actor'[a].job = Job(a)
        /\ actor'[a].seen = Seen(a) /\ ~actor'[a].putting /\ actor'[a].files = {}
        /\ actor'[a].then = "job"
    BY <1>1, <1>4, <1>7, <2>1 DEF GoesClean, Now, Others, Started
  <2>3. Arrives(a)
    BY <1>2, <1>7, <2>2, AtWork DEF Arrives, WorkFits, WorkPlaces, KindsAt, HandsFit, Kinds
  <2>4. Minds(a)
    BY <1>1, <1>2, <1>4, <1>7, <2>2 DEF Minds, Position, HeardBefore, Between, Owns
  <2>5. KeepsFiles(a)
    BY <1>3, <1>4, <1>7 DEF KeepsFiles, WroteBack, Started
  <2> QED
    BY <1>1, <1>2, <1>3, <1>7, <2>2, <2>3, <2>4, <2>5, OnwardStep
<1>8. ASSUME NEW at \in {"outside", "running", "generate"},
             SameSession(a), Continues(a, at), disk' = disk,
             at = "outside" => Job(a).kind = "export" /\ ~Started(a),
             at = "running" => Job(a).kind = "prefetch",
             at = "generate" => Job(a).kind = "export"
      PROVE  ReadingInv'
  <2>1. GoesOn(a, at)
    <3>1. at \in Places
      BY DEF Places
    <3> QED
      BY <1>1, <1>8, <3>1, ContinuesTo
  <2>2. /\ Others(a) /\ actor'[a].at = at /\ actor'[a].job = Job(a)
        /\ actor'[a].index = actor[a].index
        /\ actor'[a].then = actor[a].then
        /\ actor'[a].seen = Seen(a) /\ ~actor'[a].putting /\ actor'[a].files = actor[a].files
    BY <1>1, <2>1 DEF GoesOn, Now, Others
  <2>3. Job(a).kind # "export" => actor[a].files = {}
    BY <1>4 DEF Started
  <2>4. Arrives(a)
    <3>1. HandsFit(actor'[a])
      BY <1>1, <1>4, <1>8, <2>2, <2>3 DEF HandsFit, HasStarted, Started
    <3> QED
      BY <1>2, <1>8, <2>2, <3>1, AtWork DEF Arrives, WorkFits, WorkPlaces, KindsAt, Locking, Kinds
  <2>5. Minds(a)
    BY <1>1, <1>2, <1>4, <1>8, <2>2 DEF Minds, Position, HeardBefore, Between, Owns, Locking,
         SameSession
  <2>6. KeepsFiles(a)
    BY <1>3, <1>4, <1>8, <2>2 DEF KeepsFiles, WroteBack
  <2> QED
    BY <1>1, <1>2, <1>3, <1>8, <2>2, <2>4, <2>5, <2>6, OnwardStep
<1>9. CASE /\ SameSession(a) /\ Job(a).kind = "chunk" /\ ~Complete(Seen(a)) /\ disk' = disk
           /\ actor' = [actor EXCEPT ![a].putting = FALSE, ![a].index = Seen(a).index,
                                     ![a].at = "outside"]
  <2>2. PICK i \in 0..(Parts - 1) : i = Seen(a).index
    <3>1. Seen(a).index \in 0..Parts /\ Seen(a).index # Parts
      BY <1>1, <1>9 DEF Sessions, Complete
    <3> QED
      BY <1>1, <3>1
  <2> DEFINE r == [actor[a] EXCEPT !.putting = FALSE, !.index = i, !.at = "outside"]
  <2>3. actor' = [actor EXCEPT ![a] = r]
    BY <1>9, <2>2
  <2>4. /\ r \in ActorStates /\ r.at = "outside" /\ r.job = actor[a].job /\ r.index = i
        /\ r.seen = actor[a].seen /\ r.putting = FALSE /\ r.files = actor[a].files
        /\ r.then = actor[a].then
    BY <1>1 DEF ActorStates, Places
  <2> HIDE DEF r
  <2>5. /\ Job(a).kind = "chunk" /\ Seen(a).sid = Job(a).sid /\ disk' = disk
        /\ actor[a].files = {}
    BY <1>4, <1>9 DEF SameSession, Started
  <2>6. /\ Others(a) /\ actor'[a].at = "outside" /\ actor'[a].job = Job(a) /\ actor'[a].index = i
        /\ actor'[a].then = actor[a].then
        /\ actor'[a].seen = Seen(a) /\ ~actor'[a].putting /\ actor'[a].files = {}
    BY <1>1, <2>3, <2>4, <2>5 DEF Others
  <2>7. Arrives(a)
    BY <1>2, <2>5, <2>6, AtWork DEF Arrives, WorkFits, WorkPlaces, KindsAt, HandsFit, Locking
  <2>8. Clean' => /\ store.sid = Job(a).sid /\ store'.sid = store.sid
                  /\ store.index = i /\ store'.index = i
    <3> SUFFICES ASSUME Clean'
                 PROVE  /\ store.sid = Job(a).sid /\ store'.sid = store.sid
                        /\ store.index = i /\ store'.index = i
      OBVIOUS
    <3>1. Seen(a).sid # 0 /\ "overlap" \notin causes'
      BY <1>1, <1>4, <2>5, CleanIsStraight
    <3>2. SeenStored(a) /\ SameStored
      BY <1>3, <3>1, SeenIsStored
    <3> QED
      BY <2>2, <2>5, <3>2 DEF SeenStored, SameStored
  <2>9. Clean' => Position(actor[a])'
    BY <2>5, <2>6, <2>8 DEF Position
  <2>10. Clean' /\ "crash" \notin causes' => HeardBefore(actor[a])'
    <3> SUFFICES ASSUME Clean', "crash" \notin causes'
                 PROVE  /\ heard[Job(a).sid] <= i
                        /\ "unsent" \notin causes' => heard[Job(a).sid] = i
      BY <1>2, <2>6 DEF HeardBefore, Framed
    <3>1. Clean /\ "crash" \notin causes /\ causes \subseteq causes'
      BY <1>3 DEF KeptStore, Clean
    <3>2. /\ heard[store.sid] <= store.index
          /\ "unsent" \in causes \/ heard[store.sid] = store.index
                \/ \E b \in Actors : Unsaid(actor[b]) /\ Job(b).sid = store.sid
      <4>1. store.sid # 0
        BY <1>1, <1>4, <2>8
      <4> QED
        BY <3>1, <4>1 DEF ReadingInv, HeardInv
    <3>3. OwnerAlone
      BY <3>1, LockFacts
    <3>4. ASSUME NEW b \in Actors, Unsaid(actor[b]) PROVE Job(b).sid # store.sid
      <4>1. b # a /\ Owns(actor[b]) /\ Owns(actor[a])
        BY <1>1, <1>2, <1>4, <2>5, <3>4 DEF Unsaid, Owns, Locking
      <4> QED
        BY <2>8, <3>3, <4>1 DEF OwnerAlone
    <3> QED
      BY <2>8, <3>1, <3>2, <3>4
  <2>11. Minds(a)
    BY <1>1, <1>2, <1>4, <2>2, <2>5, <2>6, <2>9, <2>10 DEF Minds, Owns
  <2>12. KeepsFiles(a)
    BY <1>3, <1>4, <2>5 DEF KeepsFiles, WroteBack
  <2> QED
    BY <1>1, <1>2, <1>3, <2>5, <2>6, <2>7, <2>11, <2>12, OnwardStep
<1> QED
  <2>1. CASE SameSession(a) /\ Job(a).kind = "export" /\ ~Started(a) /\ Continues(a, "outside") /\ disk' = disk
    BY <1>8, <2>1
  <2>2. CASE SameSession(a) /\ Job(a).kind = "prefetch" /\ Continues(a, "running") /\ disk' = disk
    BY <1>8, <2>2
  <2>3. CASE SameSession(a) /\ Job(a).kind = "export" /\ Continues(a, "generate") /\ disk' = disk
    BY <1>8, <2>3
  <2> QED
    BY <1>5, <1>6, <1>7, <1>9, <2>1, <2>2, <2>3 DEF First, Drops

LEMMA SettingsStep ==
    ASSUME ReadingInv, NEW a \in Actors, Settings(a)
    PROVE  ReadingInv'
<1>1. /\ actor \in [Actors -> ActorStates] /\ actor[a] \in ActorStates
      /\ Job(a) = actor[a].job /\ Seen(a) = actor[a].seen /\ PlaceFits(actor[a])
      /\ HandsFit(actor[a]) /\ events \in 0..MaxEvents /\ disk \subseteq Audio /\ lost \subseteq Audio
  BY JobBasics
<1>2. /\ actor[a].at = "outside" /\ ~actor[a].putting /\ store' = store /\ disk' = disk
      /\ pending' = pending /\ lost' = lost /\ ended' = ended
      /\ heard' = heard /\ misheard' = misheard
      /\ marked' = marked /\ marker' = marker /\ sending' = sending
  BY DEF Settings, At, voiceVars, markVars
<1>3. Job(a).kind \in Locking /\ actor[a].files = {} /\ Owns(actor[a]) /\ ~Unsaid(actor[a])
  BY <1>1, <1>2 DEF PlaceFits, KindsAt, HandsFit, Owns, Unsaid
<1>4. CASE Event /\ Ends(a) /\ causes' = causes \cup {"abandoned"}
  <2>1. events' \in 0..MaxEvents /\ opened' = opened
    BY <1>4, EventBound
  <2>2. Framed
    BY <1>2, <2>1 DEF Framed
  <2>3. KeptStore
    BY <1>1, <1>2, <1>4, <2>2, QuietStore
  <2>4. GoesIdle(a)
    BY <1>1, <1>4, EndsTo
  <2>5. KeepsFiles(a) /\ ~Held'
    BY <1>2, <1>3, <1>4 DEF KeepsFiles, Held
  <2> QED
    BY <1>1, <1>2, <1>3, <2>1, <2>2, <2>3, <2>4, <2>5, IdleStep
<1>5. CASE /\ Moves(a, IF Job(a).kind = "chunk" THEN Resolved(actor[a].index, Seen(a)) ELSE "last")
           /\ UNCHANGED <<boundVars, causes>>
  <2>1. Framed /\ events' = events /\ causes' = causes
    BY <1>2, <1>5 DEF Framed, boundVars
  <2>2. KeptStore
    BY <1>1, <1>2, <2>1, QuietStore
  <2>3. PICK at \in {"wait", "claim", "reset", "generate", "last"} :
            /\ Moves(a, at)
            /\ at = "last" <=> Job(a).kind = "export"
            /\ at = "claim" => Seen(a).prefetch = "ready" /\ Seen(a).pindex = actor[a].index
    <3>1. /\ Resolved(actor[a].index, Seen(a)) \in {"wait", "claim", "reset", "generate"}
          /\ Resolved(actor[a].index, Seen(a)) = "claim"
                => Seen(a).prefetch = "ready" /\ Seen(a).pindex = actor[a].index
      BY DEF Resolved, Decided, Fits
    <3> QED
      BY <1>3, <1>5, <3>1 DEF Locking
  <2>4. Goes(a, at)
    <3>1. at \in Places
      BY <2>3 DEF Places
    <3> QED
      BY <1>1, <2>3, <3>1, MovesTo
  <2>5. /\ Others(a) /\ actor'[a].at = at /\ actor'[a].job = Job(a)
        /\ actor'[a].index = actor[a].index /\ actor'[a].then = actor[a].then
        /\ actor'[a].seen = Seen(a) /\ ~actor'[a].putting /\ actor'[a].files = {}
    BY <1>1, <1>2, <1>3, <2>4 DEF Goes, Now, Others
  <2>6. KeepsFiles(a)
    BY <1>2, <1>3, <2>5 DEF KeepsFiles
  <2>7. Arrives(a)
    BY <1>2, <1>3, <2>3, <2>5, AtWork DEF Arrives, WorkFits, WorkPlaces, KindsAt, HandsFit, Kinds, Locking
  <2>8. Clean' => Position(actor[a])'
    BY <1>1, <1>2, <2>2, <2>3, <2>5, PositionKept DEF Making, Saying
  <2>9. Clean' /\ "crash" \notin causes' => HeardBefore(actor[a])'
    BY <1>1, <1>2, <2>1, <2>2, <2>5, HeardKept DEF Between
  <2>10. actor[a].seen.sid = Job(a).sid \/ ("overlap" \notin causes' => Job(a).sid \in ended)
    BY <1>1, <1>2, <1>3, <2>1 DEF ReadingInv, SessionsInv, Past, Locking
  <2>11. Minds(a)
    BY <1>1, <1>2, <1>3, <2>3, <2>5, <2>8, <2>9, <2>10 DEF Minds, Owns
  <2> QED
    BY <1>1, <1>2, <2>1, <2>2, <2>5, <2>6, <2>7, <2>11, OnwardStep
<1> QED
  BY <1>4, <1>5 DEF Settings

------------------------------------------------------------------------------
(* Updates of the prefetch.                                                *)

\* The text and its lock stay, and files are ready only with the audio that is due.
LEMMA PrefetchKept ==
    ASSUME ReadingInv, NEW a \in Actors, Framed, ended' = ended, lost \subseteq lost',
           lost' \subseteq Audio, NEW state, NEW i, NEW files,
           Stored(a, store.index, store.generating, state, i, files),
           Straight /\ store.sid = Job(a).sid /\ state = "ready" => Of(files, Job(a).sid, i + 1)
    PROVE  /\ KeptStore /\ causes' \subseteq causes \cup {"replaced"}
           /\ store.sid # 0 => store'.files = files
           /\ store.sid = 0 => store'.files = {} /\ store.files = {}
<1>1. Straight => store.sid \in {0, Job(a).sid}
  BY DEF Stored, Straight
<1>2. KeptStore
  BY <1>1, UpdatedStore
<1>3. store.sid = 0 => store.files = {}
  BY Blank DEF ReadingInv, ShapeInv
<1> QED
  BY <1>2, <1>3 DEF Stored

LEMMA RunningStep ==
    ASSUME ReadingInv, NEW a \in Actors, Running(a)
    PROVE  ReadingInv'
<1>1. /\ actor \in [Actors -> ActorStates] /\ actor[a] \in ActorStates
      /\ Job(a) = actor[a].job /\ Seen(a) = actor[a].seen /\ PlaceFits(actor[a])
      /\ HandsFit(actor[a]) /\ events \in 0..MaxEvents /\ disk \subseteq Audio /\ lost \subseteq Audio
      /\ actor[a].index \in 0..(Parts - 1) /\ store \in Sessions /\ Parts \in Nat \ {0}
  BY JobBasics
<1>2. /\ actor[a].at = "running" /\ ~actor[a].putting /\ Framed /\ disk' = disk /\ lost' = lost
      /\ pending' = pending /\ events' = events /\ ended' = ended /\ Moves(a, "generate")
  BY DEF Running, At, Framed, boundVars, voiceVars, markVars
<1>3. Job(a).kind = "prefetch" /\ actor[a].files = {}
  BY <1>1, <1>2 DEF PlaceFits, KindsAt, HandsFit
<1>4. Stored(a, store.index, store.generating, "running", actor[a].index, store.files)
  <2> DEFINE s == [store EXCEPT !.prefetch = "running", !.pindex = actor[a].index]
  <2>0. actor[a].index \in -1..Parts
    BY <1>1
  <2>1. /\ s \in Sessions /\ s.sid = store.sid /\ s.index = store.index
        /\ s.generating = store.generating /\ s.prefetch = "running"
        /\ s.pindex = actor[a].index /\ s.files = store.files
    BY <1>1, <2>0 DEF Sessions
  <2>2. Updates(a, s)
    BY DEF Running
  <2> HIDE DEF s
  <2> QED
    BY <1>1, <2>1, <2>2, StoredAs
<1>5. /\ KeptStore
      /\ store.sid # 0 => store'.files = store.files
      /\ store.sid = 0 => store'.files = {} /\ store.files = {}
  BY <1>1, <1>2, <1>4, PrefetchKept
<1>6. Goes(a, "generate")
  BY <1>1, <1>2, MovesTo DEF Places
<1>7. /\ Others(a) /\ actor'[a].at = "generate" /\ actor'[a].job = Job(a)
      /\ actor'[a].then = actor[a].then
      /\ actor'[a].seen = Seen(a) /\ ~actor'[a].putting /\ actor'[a].files = {}
  BY <1>1, <1>2, <1>3, <1>6 DEF Goes, Now, Others
<1>8. Arrives(a)
  BY <1>2, <1>3, <1>7, AtWork DEF Arrives, WorkFits, WorkPlaces, KindsAt, HandsFit, Kinds
<1>9. Minds(a)
  BY <1>1, <1>2, <1>3, <1>7 DEF Minds, Position, HeardBefore, Owns, Locking, Unsaid
<1>10. KeepsFiles(a)
  BY <1>2, <1>3, <1>5 DEF KeepsFiles
<1> QED
  BY <1>1, <1>2, <1>5, <1>7, <1>8, <1>9, <1>10, OnwardStep

LEMMA ClaimStep ==
    ASSUME ReadingInv, NEW a \in Actors, Claim(a)
    PROVE  ReadingInv'
<1>1. /\ actor \in [Actors -> ActorStates] /\ actor[a] \in ActorStates
      /\ Job(a) = actor[a].job /\ Seen(a) = actor[a].seen /\ PlaceFits(actor[a])
      /\ HandsFit(actor[a]) /\ events \in 0..MaxEvents /\ disk \subseteq Audio /\ lost \subseteq Audio
      /\ store \in Sessions /\ Parts \in Nat \ {0} /\ Seen(a) \in Sessions /\ Seen(a).sid <= opened
      /\ store.files \subseteq Audio
  BY JobBasics, Basics DEF Sessions
<1>2. /\ actor[a].at = "claim" /\ ~actor[a].putting /\ Framed /\ disk' = disk
      /\ lost' = lost \cup (store.files \ Seen(a).files)
      /\ pending' = pending /\ events' = events /\ ended' = ended
  BY DEF Claim, At, Framed, boundVars, voiceVars, markVars
<1>3. Job(a).kind = "chunk" /\ actor[a].files = {} /\ Owns(actor[a])
  BY <1>1, <1>2 DEF PlaceFits, KindsAt, HandsFit, Owns, Locking
<1>4. Stored(a, store.index, store.generating, "none", -1, {})
  <2>1. Updates(a, [store EXCEPT !.prefetch = "none", !.pindex = -1, !.files = {}])
    BY DEF Claim
  <2>2. -1 \in -1..Parts /\ {} \in SUBSET Audio
    BY <1>1
  <2> QED
    BY <1>1, <2>1, <2>2, StoredPrefetch
<1>5. /\ KeptStore /\ causes' \subseteq causes \cup {"replaced"}
      /\ store.sid = 0 => store'.files = {} /\ store.files = {}
  BY <1>1, <1>2, <1>4, PrefetchKept
<1> DEFINE r == [actor[a] EXCEPT !.at = "again", !.files = Seen(a).files]
<1>6. actor' = [actor EXCEPT ![a] = r]
  BY DEF Claim
<1>7. /\ r \in ActorStates /\ r.at = "again" /\ r.job = actor[a].job /\ r.index = actor[a].index
      /\ r.seen = actor[a].seen /\ r.putting = actor[a].putting /\ r.files = Seen(a).files
      /\ r.then = actor[a].then
  BY <1>1 DEF ActorStates, Sessions, Places
<1> HIDE DEF r
<1>8. /\ Others(a) /\ actor'[a].at = "again" /\ actor'[a].job = actor[a].job
      /\ actor'[a].index = actor[a].index /\ actor'[a].seen = Seen(a) /\ ~actor'[a].putting
      /\ actor'[a].files = Seen(a).files /\ actor'[a].then = actor[a].then
  BY <1>1, <1>2, <1>6, <1>7 DEF Others
<1>9. FitsPlace(a)' /\ actor'[a].at # "mark"
  <2>1. JobFits(actor[a].job)'
    BY <1>1, <1>2, <1>8 DEF PlaceFits, JobFits, Framed
  <2>2. PlaceFits(actor[a])'
    BY <1>1, <1>2, <1>3, <1>8, <2>1, AtWork DEF PlaceFits, WorkFits, WorkPlaces, KindsAt, Kinds
  <2> QED
    BY <1>1, <1>2, <1>3, <1>8, <2>2 DEF FitsPlace, HandsFit, ErasureFits, Framed
<1>10. ActorKeeps(a)
  <2>1. Past(actor[a])' /\ Sent(actor[a])' /\ ~Unsaid(actor[a])
    BY <1>2, <1>8 DEF Past, Sent, Unsaid
  <2>2. Owns(actor'[a])
    BY <1>1, <1>3, <1>8 DEF Owns
  <2>3. Clean' => Position(actor[a])'
    BY <1>2, <1>5, <1>8, PositionKept DEF Making, Saying
  <2>4. Clean' /\ "crash" \notin causes' => HeardBefore(actor[a])'
    BY <1>2, <1>5, <1>8, HeardKept DEF Between
  <2>5. Straight => AudioFits(actor[a])'
    <3> SUFFICES ASSUME Straight PROVE AudioFits(actor[a])'
      OBVIOUS
    <3>1. AudioFits(actor[a]) /\ "overlap" \notin causes
      BY <1>5 DEF Straight, KeptStore, ReadingInv, AudioInv
    <3>2. /\ ReadyFits(Seen(a)) /\ Seen(a).prefetch = "ready" /\ Seen(a).pindex = actor[a].index
      BY <1>1, <1>2, <3>1 DEF AudioFits
    <3>3. CASE Seen(a).sid = Job(a).sid
      <4>1. OwnAudio(actor'[a])
        BY <1>1, <1>8, <3>2, <3>3 DEF ReadyFits, OwnAudio
      <4> QED
        BY <1>8, <3>2, <4>1 DEF AudioFits
    <3>4. CASE Seen(a).sid # Job(a).sid
      <4>1. Job(a).sid \in ended'
        BY <1>1, <1>2, <1>3, <3>1, <3>4 DEF ReadingInv, SessionsInv, Past
      <4> QED
        BY <1>1, <1>8, <3>2, <4>1 DEF AudioFits
    <3> QED
      BY <3>3, <3>4
  <2> QED
    BY <1>1, <1>3, <1>8, <2>1, <2>2, <2>3, <2>4, <2>5 DEF ActorKeeps
<1>11. KeepsFiles(a)
  BY <1>2, <1>3, <1>8 DEF KeepsFiles
<1> QED
  BY <1>1, <1>2, <1>5, <1>8, <1>9, <1>10, <1>11, KeptStep

LEMMA ResetStep ==
    ASSUME ReadingInv, NEW a \in Actors, Reset(a)
    PROVE  ReadingInv'
<1>1. /\ actor \in [Actors -> ActorStates] /\ actor[a] \in ActorStates
      /\ Job(a) = actor[a].job /\ Seen(a) = actor[a].seen /\ PlaceFits(actor[a])
      /\ HandsFit(actor[a]) /\ events \in 0..MaxEvents /\ disk \subseteq Audio /\ lost \subseteq Audio
      /\ store \in Sessions /\ Parts \in Nat \ {0} /\ store.files \subseteq Audio
  BY JobBasics DEF Sessions
<1>2. /\ actor[a].at = "reset" /\ ~actor[a].putting /\ Framed /\ disk' = disk
      /\ lost' = lost \cup store.files /\ Moves(a, "generate")
      /\ pending' = pending /\ events' = events /\ ended' = ended
  BY DEF Reset, At, Framed, boundVars, voiceVars, markVars
<1>3. Job(a).kind = "chunk" /\ actor[a].files = {} /\ Owns(actor[a])
  BY <1>1, <1>2 DEF PlaceFits, KindsAt, HandsFit, Owns, Locking
<1>4. Stored(a, store.index, store.generating, "none", -1, {})
  <2>1. Updates(a, [store EXCEPT !.prefetch = "none", !.pindex = -1, !.files = {}])
    BY DEF Reset
  <2>2. -1 \in -1..Parts /\ {} \in SUBSET Audio
    BY <1>1
  <2> QED
    BY <1>1, <2>1, <2>2, StoredPrefetch
<1>5. KeptStore
  BY <1>1, <1>2, <1>4, PrefetchKept
<1>6. Goes(a, "generate")
  BY <1>1, <1>2, MovesTo DEF Places
<1>7. /\ Others(a) /\ actor'[a].at = "generate" /\ actor'[a].job = Job(a)
      /\ actor'[a].index = actor[a].index
      /\ actor'[a].then = actor[a].then
      /\ actor'[a].seen = Seen(a) /\ ~actor'[a].putting /\ actor'[a].files = {}
  BY <1>1, <1>2, <1>3, <1>6 DEF Goes, Now, Others
<1>8. Arrives(a)
  BY <1>2, <1>3, <1>7, AtWork DEF Arrives, WorkFits, WorkPlaces, KindsAt, HandsFit, Kinds
<1>9. Clean' => Position(actor[a])'
  BY <1>1, <1>2, <1>5, <1>7, PositionKept DEF Making, Saying
<1>10. Clean' /\ "crash" \notin causes' => HeardBefore(actor[a])'
  BY <1>1, <1>2, <1>5, <1>7, HeardKept DEF Between
<1>11. Minds(a)
  BY <1>1, <1>2, <1>3, <1>7, <1>9, <1>10 DEF Minds, Owns, Unsaid
<1>12. KeepsFiles(a)
  BY <1>2, <1>3 DEF KeepsFiles
<1> QED
  BY <1>1, <1>2, <1>5, <1>7, <1>8, <1>11, <1>12, OnwardStep

LEMMA QueueStep ==
    ASSUME ReadingInv, NEW a \in Actors, Queue(a)
    PROVE  ReadingInv'
<1>1. /\ actor \in [Actors -> ActorStates] /\ actor[a] \in ActorStates
      /\ Job(a) = actor[a].job /\ Seen(a) = actor[a].seen /\ PlaceFits(actor[a])
      /\ HandsFit(actor[a]) /\ events \in 0..MaxEvents /\ disk \subseteq Audio /\ lost \subseteq Audio
      /\ store \in Sessions /\ Parts \in Nat \ {0} /\ store.files \subseteq Audio
      /\ actor[a].index \in 0..(Parts - 1)
  BY JobBasics DEF Sessions
<1>2. /\ actor[a].at = "queue" /\ ~actor[a].putting /\ Framed /\ disk' = disk
      /\ lost' = lost \cup store.files /\ Moves(a, "push")
      /\ pending' = pending /\ events' = events /\ ended' = ended
  BY DEF Queue, At, Framed, boundVars, voiceVars, markVars
<1>3. /\ Job(a).kind = "chunk" /\ actor[a].files = {} /\ Owns(actor[a])
      /\ actor[a].index + 1 < Parts
  BY <1>1, <1>2 DEF PlaceFits, KindsAt, HandsFit, Owns, Locking
<1>4. Stored(a, store.index, store.generating, "queued", actor[a].index + 1, {})
  <2>1. Updates(a, [store EXCEPT !.prefetch = "queued", !.pindex = actor[a].index + 1, !.files = {}])
    BY DEF Queue
  <2>2. actor[a].index + 1 \in -1..Parts /\ {} \in SUBSET Audio
    BY <1>1
  <2> QED
    BY <1>1, <2>1, <2>2, StoredPrefetch
<1>5. KeptStore
  BY <1>1, <1>2, <1>4, PrefetchKept
<1>6. Goes(a, "push")
  BY <1>1, <1>2, MovesTo DEF Places
<1>7. /\ Others(a) /\ actor'[a].at = "push" /\ actor'[a].job = Job(a)
      /\ actor'[a].index = actor[a].index
      /\ actor'[a].then = actor[a].then
      /\ actor'[a].seen = Seen(a) /\ ~actor'[a].putting /\ actor'[a].files = {}
  BY <1>1, <1>2, <1>3, <1>6 DEF Goes, Now, Others
<1>8. Arrives(a)
  BY <1>2, <1>3, <1>7, AtWork DEF Arrives, WorkFits, WorkPlaces, KindsAt, HandsFit
<1>9. Minds(a)
  BY <1>1, <1>2, <1>3, <1>7 DEF Minds, Owns, Unsaid, Position, HeardBefore, Between
<1>10. KeepsFiles(a)
  BY <1>2, <1>3 DEF KeepsFiles
<1> QED
  BY <1>1, <1>2, <1>5, <1>7, <1>8, <1>9, <1>10, OnwardStep

LEMMA UnqueuedStep ==
    ASSUME ReadingInv, NEW a \in Actors, Unqueued(a)
    PROVE  ReadingInv'
<1>1. /\ actor \in [Actors -> ActorStates] /\ actor[a] \in ActorStates
      /\ Job(a) = actor[a].job /\ Seen(a) = actor[a].seen /\ PlaceFits(actor[a])
      /\ HandsFit(actor[a]) /\ events \in 0..MaxEvents /\ disk \subseteq Audio /\ lost \subseteq Audio
      /\ store \in Sessions /\ Parts \in Nat \ {0} /\ store.files \subseteq Audio
      /\ actor[a].index \in 0..(Parts - 1)
  BY JobBasics DEF Sessions
<1>2. /\ actor[a].at = "unqueued" /\ ~actor[a].putting /\ Framed /\ disk' = disk
      /\ lost' = lost \cup store.files /\ Moves(a, "last")
      /\ pending' = pending /\ events' = events /\ ended' = ended
  BY DEF Unqueued, At, Framed, boundVars, voiceVars, markVars
<1>3. Job(a).kind = "chunk" /\ actor[a].files = {} /\ Owns(actor[a])
  BY <1>1, <1>2 DEF PlaceFits, KindsAt, HandsFit, Owns, Locking
<1>4. Stored(a, store.index, store.generating, "failed", actor[a].index + 1, {})
  <2>1. Updates(a, [store EXCEPT !.prefetch = "failed", !.pindex = actor[a].index + 1, !.files = {}])
    BY DEF Unqueued
  <2>2. actor[a].index + 1 \in -1..Parts /\ {} \in SUBSET Audio
    BY <1>1
  <2> QED
    BY <1>1, <2>1, <2>2, StoredPrefetch
<1>5. KeptStore
  BY <1>1, <1>2, <1>4, PrefetchKept
<1>6. Goes(a, "last")
  BY <1>1, <1>2, MovesTo DEF Places
<1>7. /\ Others(a) /\ actor'[a].at = "last" /\ actor'[a].job = Job(a)
      /\ actor'[a].then = actor[a].then
      /\ actor'[a].seen = Seen(a) /\ ~actor'[a].putting /\ actor'[a].files = {}
  BY <1>1, <1>2, <1>3, <1>6 DEF Goes, Now, Others
<1>8. Arrives(a)
  BY <1>2, <1>3, <1>7, AtWork DEF Arrives, WorkFits, WorkPlaces, KindsAt, HandsFit, Locking
<1>9. Minds(a)
  BY <1>1, <1>2, <1>3, <1>7 DEF Minds, Owns, Unsaid, Position, HeardBefore, Between
<1>10. KeepsFiles(a)
  BY <1>2, <1>3 DEF KeepsFiles
<1> QED
  BY <1>1, <1>2, <1>5, <1>7, <1>8, <1>9, <1>10, OnwardStep

LEMMA ReadyStep ==
    ASSUME ReadingInv, NEW a \in Actors, Ready(a)
    PROVE  ReadingInv'
<1>1. /\ actor \in [Actors -> ActorStates] /\ actor[a] \in ActorStates
      /\ Job(a) = actor[a].job /\ Seen(a) = actor[a].seen /\ PlaceFits(actor[a])
      /\ events \in 0..MaxEvents /\ disk \subseteq Audio /\ lost \subseteq Audio
      /\ store \in Sessions /\ Parts \in Nat \ {0} /\ store.files \subseteq Audio
      /\ actor[a].index \in 0..(Parts - 1) /\ actor[a].files \subseteq Audio
  BY JobBasics DEF Sessions
<1>2. /\ actor[a].at = "ready" /\ ~actor[a].putting /\ Framed /\ disk' = disk
      /\ lost' = lost \cup IF store.sid = 0 THEN actor[a].files ELSE store.files \ actor[a].files
      /\ pending' = pending /\ events' = events /\ ended' = ended /\ Ends(a)
  BY DEF Ready, At, Framed, boundVars, voiceVars, markVars
<1>3. /\ Job(a).kind = "prefetch" /\ ~Owns(actor[a])
      /\ ~Unsaid(actor[a])
  BY <1>1, <1>2 DEF PlaceFits, KindsAt, Owns, Locking, Unsaid
<1>4. Stored(a, store.index, store.generating, "ready", actor[a].index, actor[a].files)
  <2>1. Updates(a, [store EXCEPT !.prefetch = "ready", !.pindex = actor[a].index, !.files = actor[a].files])
    BY DEF Ready
  <2>2. actor[a].index \in -1..Parts /\ actor[a].files \in SUBSET Audio
    BY <1>1
  <2> QED
    BY <1>1, <2>1, <2>2, StoredPrefetch
<1>5. Straight => Of(actor[a].files, Job(a).sid, actor[a].index + 1)
  <2> SUFFICES ASSUME Straight PROVE OwnAudio(actor[a])
    BY <1>1 DEF OwnAudio
  <2>1. AudioFits(actor[a])
    BY <1>4 DEF Stored, Straight, ReadingInv, AudioInv
  <2> QED
    BY <1>1, <1>2, <1>3, <2>1 DEF AudioFits
<1>6. /\ KeptStore
      /\ store.sid # 0 => store'.files = actor[a].files
      /\ store.sid = 0 => store'.files = {} /\ store.files = {}
  <2>1. lost \subseteq lost' /\ lost' \subseteq Audio
    BY <1>1, <1>2
  <2> QED
    BY <1>1, <1>2, <1>4, <1>5, <2>1, PrefetchKept
<1>7. GoesIdle(a)
  BY <1>1, <1>2, EndsTo
<1>8. KeepsFiles(a)
  BY <1>2, <1>3, <1>6 DEF KeepsFiles
<1> QED
  BY <1>1, <1>2, <1>3, <1>6, <1>7, <1>8, IdleStep

LEMMA FailedStep ==
    ASSUME ReadingInv, NEW a \in Actors, Failed(a)
    PROVE  ReadingInv'
<1>1. /\ actor \in [Actors -> ActorStates] /\ actor[a] \in ActorStates
      /\ Job(a) = actor[a].job /\ Seen(a) = actor[a].seen /\ PlaceFits(actor[a]) /\ HandsFit(actor[a])
      /\ events \in 0..MaxEvents /\ disk \subseteq Audio /\ lost \subseteq Audio
      /\ store \in Sessions /\ Parts \in Nat \ {0} /\ store.files \subseteq Audio
      /\ actor[a].index \in 0..(Parts - 1)
  BY JobBasics DEF Sessions
<1>2. /\ actor[a].at = "failed" /\ ~actor[a].putting /\ Framed /\ disk' = disk
      /\ lost' = lost \cup store.files
      /\ pending' = pending /\ events' = events /\ ended' = ended /\ Ends(a)
  BY DEF Failed, At, Framed, boundVars, voiceVars, markVars
<1>3. /\ Job(a).kind = "prefetch" /\ actor[a].files = {} /\ ~Owns(actor[a])
      /\ ~Unsaid(actor[a])
  BY <1>1, <1>2 DEF PlaceFits, KindsAt, HandsFit, Owns, Locking, Unsaid
<1>4. Stored(a, store.index, store.generating, "failed", actor[a].index, {})
  <2>1. Updates(a, [store EXCEPT !.prefetch = "failed", !.pindex = actor[a].index, !.files = {}])
    BY DEF Failed
  <2>2. actor[a].index \in -1..Parts /\ {} \in SUBSET Audio
    BY <1>1
  <2> QED
    BY <1>1, <2>1, <2>2, StoredPrefetch
<1>5. KeptStore
  BY <1>1, <1>2, <1>4, PrefetchKept
<1>6. GoesIdle(a)
  BY <1>1, <1>2, EndsTo
<1>7. KeepsFiles(a)
  BY <1>2, <1>3 DEF KeepsFiles
<1> QED
  BY <1>1, <1>2, <1>3, <1>5, <1>6, <1>7, IdleStep

------------------------------------------------------------------------------
(* Making the audio, and the checks of the marker.                         *)

\* A job that drops what it has made and goes on to its end.
LEMMA DropStep ==
    ASSUME ReadingInv, NEW a \in Actors, NEW at \in {"last", "queue"}, Drops(a, at), Framed,
           pending' = pending, KeptStore, events' \in 0..MaxEvents, Job(a).kind \in Locking,
           at = "queue" => Job(a).kind = "chunk" /\ actor[a].index + 1 < Parts,
           actor[a].at \in WorkPlaces, store' = store,
           Unsaid(actor[a]) => "unsent" \in causes'
    PROVE  ReadingInv'
<1>1. /\ actor \in [Actors -> ActorStates] /\ actor[a] \in ActorStates /\ Job(a) = actor[a].job
      /\ Seen(a) = actor[a].seen /\ disk \subseteq Audio
  BY JobBasics
<1>2. disk' = disk \ actor[a].files /\ GoesEmpty(a, at)
  BY <1>1, DropsTo DEF Drops, Places
<1>3. KeepsFiles(a)
  BY <1>2 DEF KeepsFiles, KeptStore
<1>4. /\ Others(a) /\ actor'[a].at = at /\ actor'[a].job = Job(a) /\ actor'[a].index = actor[a].index
      /\ actor'[a].then = actor[a].then
      /\ actor'[a].seen = Seen(a) /\ ~actor'[a].putting /\ actor'[a].files = {}
  BY <1>1, <1>2 DEF GoesEmpty, Now, Others
<1>5. Arrives(a)
  BY <1>2, <1>4, AtWork DEF Arrives, WorkFits, WorkPlaces, KindsAt, HandsFit, Locking
<1>6. Minds(a)
  BY <1>1, <1>4 DEF Minds, Position, HeardBefore, Between, Owns, WorkPlaces
<1> QED
  BY <1>1, <1>2, <1>3, <1>4, <1>5, <1>6, OnwardStep

LEMMA AudioTypes ==
    ASSUME NEW s \in Sids, NEW p \in 0..Parts, NEW k \in Kinds
    PROVE  [sid |-> s, part |-> p, by |-> k] \in Audio
  BY DEF Audio

LEMMA GenerateStep ==
    ASSUME ReadingInv, NEW a \in Actors, Generate(a)
    PROVE  ReadingInv'
<1>1. /\ actor \in [Actors -> ActorStates] /\ actor[a] \in ActorStates
      /\ Job(a) = actor[a].job /\ Seen(a) = actor[a].seen /\ PlaceFits(actor[a]) /\ HandsFit(actor[a])
      /\ events \in 0..MaxEvents /\ disk \subseteq Audio /\ lost \subseteq Audio
      /\ actor[a].index \in 0..(Parts - 1) /\ actor[a].files \subseteq Audio
      /\ Job(a).kind \in Kinds => Job(a).sid \in 1..opened
      /\ Parts \in Nat \ {0} /\ opened \in Nat
  BY JobBasics, Basics
<1>2. /\ actor[a].at = "generate" /\ ~actor[a].putting /\ store' = store /\ causes' = causes
      /\ lost' = lost /\ pending' = pending /\ ended' = ended
      /\ opened' = opened /\ events' \in 0..MaxEvents
  <2>1. CASE Event
    BY <2>1, EventBound DEF Generate, At, voiceVars, markVars
  <2>2. CASE UNCHANGED boundVars
    BY <1>1, <2>2 DEF Generate, At, boundVars
  <2> QED
    BY <2>1, <2>2 DEF Generate
<1>3. Framed
  BY <1>2 DEF Generate, Framed, voiceVars, markVars
<1>4. KeptStore
  BY <1>1, <1>2, <1>3, QuietStore
<1>5. /\ Job(a).kind \in Kinds /\ ~Unsaid(actor[a])
      /\ Job(a).kind # "export" => actor[a].files = {}
      /\ Job(a).kind # "prefetch" => Owns(actor[a])
  BY <1>1, <1>2 DEF PlaceFits, KindsAt, Unsaid, HandsFit, HasStarted, Owns, Kinds, Locking
<1>6. ASSUME disk' = disk \cup {Made(a)},
             actor' = [actor EXCEPT ![a].files = @ \cup {Made(a)},
                                    ![a].at = IF Job(a).kind = "export" THEN "check2" ELSE "again"]
      PROVE  ReadingInv'
  <2>1. PICK f \in Audio : f = Made(a) /\ f.sid = Job(a).sid /\ f.part = actor[a].index + 1
    <3>1. Job(a).sid \in Sids
      <4>1. opened \in 1..MaxSessions /\ MaxSessions \in Nat
        BY RedisReadingAssumption DEF ReadingInv, ShapeInv
      <4> QED
        BY <1>1, <1>5, <4>1 DEF Sids
    <3>2. actor[a].index + 1 \in 0..Parts
      BY <1>1
    <3>3. Made(a) \in Audio
      BY <1>5, <3>1, <3>2, AudioTypes DEF Made
    <3> QED
      BY <3>3 DEF Made
  <2>2. PICK at \in {"check2", "again"} : at = IF Job(a).kind = "export" THEN "check2" ELSE "again"
    OBVIOUS
  <2> DEFINE r == [actor[a] EXCEPT !.files = actor[a].files \cup {f}, !.at = at]
  <2>3. actor' = [actor EXCEPT ![a] = r]
    BY <1>1, <1>6, <2>1, <2>2
  <2>4. /\ r \in ActorStates /\ r.at = at /\ r.job = actor[a].job /\ r.index = actor[a].index
        /\ r.seen = actor[a].seen /\ r.putting = actor[a].putting
        /\ r.files = actor[a].files \cup {f} /\ r.then = actor[a].then
    BY <1>1, <2>1 DEF ActorStates, Places
  <2> HIDE DEF r
  <2>5. /\ Others(a) /\ actor'[a].at = at /\ actor'[a].job = Job(a)
        /\ actor'[a].then = actor[a].then
        /\ actor'[a].index = actor[a].index /\ actor'[a].seen = Seen(a) /\ ~actor'[a].putting
        /\ actor'[a].files = actor[a].files \cup {f}
    BY <1>1, <1>2, <2>3, <2>4 DEF Others
  <2>6. disk' = disk \cup {f} /\ disk' \subseteq Audio
    BY <1>1, <1>6, <2>1
  <2>7. KeepsFiles(a)
    BY <1>2, <2>2, <2>5, <2>6 DEF KeepsFiles
  <2>8. Arrives(a)
    BY <1>2, <1>5, <2>2, <2>5, AtWork DEF Arrives, WorkFits, WorkPlaces, KindsAt, HandsFit
  <2>9. Clean' => Position(actor[a])'
    BY <1>1, <1>2, <1>4, <2>2, <2>5, PositionKept DEF Making, Saying
  <2>10. Clean' /\ "crash" \notin causes' => HeardBefore(actor[a])'
    BY <1>1, <1>2, <1>3, <1>4, <2>2, <2>5, HeardKept DEF Between
  <2>11. Job(a).kind \in {"chunk", "prefetch"} => OwnAudio(actor'[a])
    BY <1>5, <2>1, <2>5 DEF OwnAudio, Of
  <2>12. Minds(a)
    BY <1>1, <1>2, <1>5, <2>2, <2>5, <2>9, <2>10, <2>11 DEF Minds, Owns
  <2> QED
    BY <1>2, <1>3, <1>4, <2>5, <2>6, <2>7, <2>8, <2>12, OnwardStep
<1>7. ASSUME Job(a).kind = "prefetch", Moves(a, "check3"), disk' = disk
      PROVE  ReadingInv'
  <2>1. Goes(a, "check3")
    BY <1>1, <1>7, MovesTo DEF Places
  <2>2. /\ Others(a) /\ actor'[a].at = "check3" /\ actor'[a].job = Job(a)
        /\ actor'[a].then = actor[a].then
        /\ actor'[a].index = actor[a].index /\ actor'[a].seen = Seen(a) /\ ~actor'[a].putting
        /\ actor'[a].files = {}
    BY <1>1, <1>2, <1>5, <1>7, <2>1 DEF Goes, Now, Others
  <2>3. KeepsFiles(a)
    BY <1>2, <1>5, <1>7 DEF KeepsFiles
  <2>4. Arrives(a)
    BY <1>2, <1>7, <2>2, AtWork DEF Arrives, WorkFits, WorkPlaces, KindsAt, HandsFit, Kinds
  <2>5. Minds(a)
    BY <1>1, <1>2, <1>5, <1>7, <2>2
    DEF Minds, Position, HeardBefore, Owns, Locking, OwnAudio, Of
  <2> QED
    BY <1>1, <1>2, <1>3, <1>4, <1>7, <2>2, <2>3, <2>4, <2>5, OnwardStep
<1>8. ASSUME Job(a).kind # "prefetch", Drops(a, "last")
      PROVE  ReadingInv'
  <2>1. Job(a).kind \in Locking
    BY <1>5, <1>8 DEF Kinds, Locking
  <2> QED
    BY <1>2, <1>3, <1>4, <1>5, <1>8, <2>1, DropStep DEF WorkPlaces
<1> QED
  BY <1>6, <1>7, <1>8 DEF Generate

LEMMA SecondCheckStep ==
    ASSUME ReadingInv, NEW a \in Actors, SecondCheck(a)
    PROVE  ReadingInv'
<1>1. /\ actor \in [Actors -> ActorStates] /\ actor[a] \in ActorStates
      /\ Job(a) = actor[a].job /\ Seen(a) = actor[a].seen /\ PlaceFits(actor[a]) /\ HandsFit(actor[a])
      /\ events \in 0..MaxEvents /\ disk \subseteq Audio /\ lost \subseteq Audio
      /\ actor[a].index \in 0..(Parts - 1) /\ actor[a].files \subseteq Audio
      /\ Job(a).kind \in Kinds => Job(a).sid \in 1..opened
      /\ Parts \in Nat \ {0} /\ opened \in Nat
  BY JobBasics, Basics
<1>2. /\ actor[a].at = "check2" /\ ~actor[a].putting /\ store' = store /\ causes' = causes
      /\ lost' = lost /\ pending' = pending /\ ended' = ended
      /\ opened' = opened /\ events' \in 0..MaxEvents
  <2>1. CASE Event
    BY <2>1, EventBound DEF SecondCheck, At
  <2>2. CASE UNCHANGED boundVars
    BY <1>1, <2>2 DEF SecondCheck, At, boundVars
  <2>3. Event \/ UNCHANGED boundVars
    BY DEF SecondCheck, NextPart, boundVars
  <2> QED
    BY <2>1, <2>2, <2>3
<1>3. Framed
  BY <1>2 DEF SecondCheck, Framed, voiceVars, markVars
<1>4. KeptStore
  BY <1>1, <1>2, <1>3, QuietStore
<1>5. /\ Job(a).kind \in Kinds /\ ~Unsaid(actor[a])
      /\ Job(a).kind # "prefetch" => Owns(actor[a])
  BY <1>1, <1>2 DEF PlaceFits, KindsAt, Unsaid, HandsFit, Owns, Kinds, Locking
<1>6. CASE Leaves(a)
  BY <1>2, <1>3, <1>4, <1>5, <1>6, LeavesStep
<1>7. ASSUME NEW at \in {"advance", "ready"}, Job(a).kind # "export", Moves(a, at), disk' = disk,
             at = IF Job(a).kind = "chunk" THEN "advance" ELSE "ready"
      PROVE  ReadingInv'
  <2>1. Goes(a, at)
    <3>1. at \in Places
      BY DEF Places
    <3> QED
      BY <1>1, <1>7, <3>1, MovesTo
  <2>2. /\ Others(a) /\ actor'[a].at = at /\ actor'[a].job = Job(a)
        /\ actor'[a].then = actor[a].then
        /\ actor'[a].index = actor[a].index /\ actor'[a].seen = Seen(a) /\ ~actor'[a].putting
        /\ actor'[a].files = actor[a].files
    BY <1>1, <1>2, <2>1 DEF Goes, Now, Others
  <2>3. KeepsFiles(a)
    BY <1>2, <1>5, <1>7, <2>2 DEF KeepsFiles
  <2>4. Arrives(a)
    BY <1>2, <1>5, <1>7, <2>2, AtWork DEF Arrives, WorkFits, WorkPlaces, KindsAt, HandsFit, Kinds
  <2>5. Clean' => Position(actor[a])'
    BY <1>1, <1>2, <1>4, <1>7, <2>2, PositionKept DEF Making, Saying
  <2>6. Clean' /\ "crash" \notin causes' => HeardBefore(actor[a])'
    BY <1>1, <1>2, <1>3, <1>4, <1>7, <2>2, HeardKept DEF Between
  <2>7. Straight => OwnAudio(actor'[a])
    <3> SUFFICES ASSUME Straight PROVE OwnAudio(actor'[a])
      OBVIOUS
    <3>1. AudioFits(actor[a])
      BY <1>2 DEF Straight, ReadingInv, AudioInv
    <3>2. OwnAudio(actor[a])
      BY <1>1, <1>2, <1>5, <1>7, <3>1 DEF AudioFits, Kinds
    <3> QED
      BY <1>1, <2>2, <3>2 DEF OwnAudio
  <2>8. Minds(a)
    BY <1>1, <1>2, <1>5, <1>7, <2>2, <2>5, <2>6, <2>7 DEF Minds, Owns
  <2> QED
    BY <1>1, <1>2, <1>3, <1>4, <1>7, <2>2, <2>3, <2>4, <2>8, OnwardStep
<1>8. ASSUME Job(a).kind = "export", actor[a].index + 1 < Parts, disk' = disk,
             actor' = [actor EXCEPT ![a].index = @ + 1, ![a].at = "check"]
      PROVE  ReadingInv'
  <2>1. PICK i \in 0..(Parts - 1) : i = actor[a].index + 1 /\ i > 0
    BY <1>1, <1>8
  <2> DEFINE r == [actor[a] EXCEPT !.index = i, !.at = "check"]
  <2>2. actor' = [actor EXCEPT ![a] = r]
    BY <1>1, <1>8, <2>1
  <2>3. /\ r \in ActorStates /\ r.at = "check" /\ r.job = actor[a].job /\ r.index = i
        /\ r.seen = actor[a].seen /\ r.putting = actor[a].putting
        /\ r.files = actor[a].files /\ r.then = actor[a].then
    BY <1>1, <2>1 DEF ActorStates, Places
  <2> HIDE DEF r
  <2>4. /\ Others(a) /\ actor'[a].at = "check" /\ actor'[a].job = Job(a)
        /\ actor'[a].then = actor[a].then
        /\ actor'[a].index = i /\ actor'[a].seen = Seen(a) /\ ~actor'[a].putting
        /\ actor'[a].files = actor[a].files
    BY <1>1, <1>2, <2>2, <2>3 DEF Others
  <2>5. KeepsFiles(a) /\ disk' \subseteq Audio /\ Job(a).kind = "export"
    BY <1>1, <1>2, <1>5, <1>8, <2>4 DEF KeepsFiles
  <2>6. Arrives(a)
    BY <1>2, <2>1, <2>4, <2>5, AtWork DEF Arrives, WorkFits, WorkPlaces, KindsAt, HandsFit, HasStarted, Kinds
  <2>7. Minds(a)
    BY <1>1, <1>2, <1>5, <2>4, <2>5 DEF Minds, Owns, Position, HeardBefore
  <2> QED
    BY <1>2, <1>3, <1>4, <2>4, <2>5, <2>6, <2>7, OnwardStep
<1>9. ASSUME Job(a).kind = "export", disk' = disk \cup {Joined(a)},
             actor' = [actor EXCEPT ![a].files = @ \cup {Joined(a)}, ![a].at = "check3"]
      PROVE  ReadingInv'
  <2>1. PICK f \in Audio : f = Joined(a)
    <3>1. Job(a).sid \in Sids /\ 0 \in 0..Parts /\ "export" \in Kinds
      <4>1. opened \in 1..MaxSessions /\ MaxSessions \in Nat
        BY RedisReadingAssumption DEF ReadingInv, ShapeInv
      <4> QED
        BY <1>1, <1>5, <4>1 DEF Sids, Kinds
    <3>2. Joined(a) \in Audio
      BY <3>1, AudioTypes DEF Joined
    <3> QED
      BY <3>2
  <2> DEFINE r == [actor[a] EXCEPT !.files = actor[a].files \cup {f}, !.at = "check3"]
  <2>2. actor' = [actor EXCEPT ![a] = r]
    BY <1>1, <1>9, <2>1
  <2>3. /\ r \in ActorStates /\ r.at = "check3" /\ r.job = actor[a].job /\ r.index = actor[a].index
        /\ r.seen = actor[a].seen /\ r.putting = actor[a].putting
        /\ r.files = actor[a].files \cup {f} /\ r.then = actor[a].then
    BY <1>1, <2>1 DEF ActorStates, Places
  <2> HIDE DEF r
  <2>4. /\ Others(a) /\ actor'[a].at = "check3" /\ actor'[a].job = Job(a)
        /\ actor'[a].then = actor[a].then
        /\ actor'[a].seen = Seen(a) /\ ~actor'[a].putting
        /\ actor'[a].files = actor[a].files \cup {f}
    BY <1>1, <1>2, <2>2, <2>3 DEF Others
  <2>5. Job(a).kind = "export" /\ disk' = disk \cup {f} /\ disk' \subseteq Audio
    BY <1>1, <1>9, <2>1
  <2>6. KeepsFiles(a)
    BY <1>2, <2>4, <2>5 DEF KeepsFiles
  <2>7. Arrives(a)
    BY <1>2, <2>4, <2>5, AtWork DEF Arrives, WorkFits, WorkPlaces, KindsAt, HandsFit, Kinds
  <2>8. Minds(a)
    BY <1>1, <1>2, <1>5, <2>4, <2>5 DEF Minds, Owns, Position, HeardBefore
  <2> QED
    BY <1>2, <1>3, <1>4, <2>4, <2>5, <2>6, <2>7, <2>8, OnwardStep
<1>10. ASSUME Job(a).kind = "export", Drops(a, "last")
       PROVE  ReadingInv'
  <2>1. Job(a).kind \in Locking
    BY <1>10 DEF Locking
  <2> QED
    BY <1>2, <1>3, <1>4, <1>5, <1>10, <2>1, DropStep DEF WorkPlaces
<1>11. CASE ~Skips(Job(a)) /\ Job(a).kind # "export"
            /\ Moves(a, IF Job(a).kind = "chunk" THEN "advance" ELSE "ready") /\ disk' = disk
  BY <1>7, <1>11
<1>12. CASE Job(a).kind = "export" /\ NextPart(a)
  BY <1>8, <1>9, <1>10, <1>12 DEF NextPart
<1> QED
  BY <1>6, <1>11, <1>12 DEF SecondCheck

LEMMA ThirdCheckStep ==
    ASSUME ReadingInv, NEW a \in Actors, ThirdCheck(a)
    PROVE  ReadingInv'
<1>1. /\ actor \in [Actors -> ActorStates] /\ actor[a] \in ActorStates
      /\ Job(a) = actor[a].job /\ Seen(a) = actor[a].seen /\ PlaceFits(actor[a]) /\ HandsFit(actor[a])
      /\ events \in 0..MaxEvents /\ disk \subseteq Audio /\ lost \subseteq Audio
      /\ marker \in Nat
  BY JobBasics, Basics
<1>2. /\ actor[a].at = "check3" /\ ~actor[a].putting /\ store' = store /\ causes \subseteq causes'
      /\ lost' = lost /\ pending' = pending /\ ended' = ended /\ Framed /\ events' = events
  BY DEF ThirdCheck, At, Framed, boundVars, voiceVars, markVars
<1>3. KeptStore
  BY <1>1, <1>2, QuietStore
<1>4. /\ Job(a).kind \in Kinds
      /\ Job(a).kind # "prefetch" => Owns(actor[a])
      /\ Job(a).kind = "prefetch" => actor[a].files = {}
      /\ Unsaid(actor[a]) => Job(a).kind = "chunk"
  BY <1>1, <1>2 DEF PlaceFits, KindsAt, Unsaid, HandsFit, Owns, Kinds, Locking
<1>5. CASE Skips(Job(a))
  <2>1. Leaves(a) /\ (Job(a).kind = "chunk" => "unsent" \in causes')
    BY <1>5 DEF ThirdCheck
  <2> QED
    BY <1>1, <1>2, <1>3, <1>4, <2>1, LeavesStep
<1>6. CASE ~Skips(Job(a))
  <2>1. PICK at \in {"send", "again", "failed"} :
            /\ Moves(a, at) /\ disk' = disk
            /\ Job(a).kind = "chunk" => at = "send"
            /\ Job(a).kind = "export" => at = "again"
            /\ Job(a).kind = "prefetch" => at = "failed"
    BY <1>4, <1>6 DEF ThirdCheck, Kinds
  <2>2. Goes(a, at)
    <3>1. at \in Places
      BY DEF Places
    <3> QED
      BY <1>1, <2>1, <3>1, MovesTo
  <2>3. /\ Others(a) /\ actor'[a].at = at /\ actor'[a].job = Job(a)
        /\ actor'[a].then = actor[a].then
        /\ actor'[a].index = actor[a].index /\ actor'[a].seen = Seen(a) /\ ~actor'[a].putting
        /\ actor'[a].files = actor[a].files
    BY <1>1, <1>2, <2>2 DEF Goes, Now, Others
  <2>4. KeepsFiles(a)
    BY <1>2, <1>4, <2>1, <2>3 DEF KeepsFiles
  <2>5. Arrives(a)
    BY <1>2, <1>4, <2>1, <2>3, AtWork DEF Arrives, WorkFits, WorkPlaces, KindsAt, HandsFit, Kinds, Locking
  <2>6. Clean' => Position(actor[a])'
    BY <1>1, <1>2, <1>3, <1>4, <2>1, <2>3, PositionKept DEF Making, Saying
  <2>7. Clean' /\ "crash" \notin causes' => HeardBefore(actor[a])'
    BY <1>1, <1>2, <1>3, <1>4, <2>1, <2>3, HeardKept DEF Between
  <2>8. Straight /\ Job(a).kind = "chunk" => OwnAudio(actor'[a])
    <3> SUFFICES ASSUME Straight, Job(a).kind = "chunk" PROVE OwnAudio(actor'[a])
      OBVIOUS
    <3>1. AudioFits(actor[a])
      BY <1>2 DEF Straight, ReadingInv, AudioInv
    <3>2. OwnAudio(actor[a])
      BY <1>1, <1>2, <1>6, <3>1 DEF AudioFits
    <3> QED
      BY <1>1, <2>3, <3>2 DEF OwnAudio
  <2>9. Sent(actor[a])'
    <3>1. Job(a).born >= marker
      <4>1. Job(a).born \in 0..1
        BY <1>1 DEF ActorStates, Jobs
      <4> QED
        BY <1>1, <1>6, <4>1 DEF Skips
    <3> QED
      BY <1>2, <2>3, <3>1 DEF Sent, Framed
  <2>10. Minds(a)
    <3>1. Unsaid(actor[a]) => Unsaid(actor'[a])
      BY <1>1, <1>4, <2>1, <2>3 DEF Unsaid
    <3>2. Owns(actor[a]) => Owns(actor'[a])
      BY <1>1, <2>1, <2>3 DEF Owns
    <3> QED
      BY <1>1, <1>2, <1>4, <2>1, <2>3, <2>6, <2>7, <2>8, <2>9, <3>1, <3>2 DEF Minds, Kinds
  <2> QED
    BY <1>1, <1>2, <1>3, <2>1, <2>3, <2>4, <2>5, <2>10, OnwardStep
<1> QED
  BY <1>5, <1>6

LEMMA SendFailsStep ==
    ASSUME ReadingInv, NEW a \in Actors, SendFails(a)
    PROVE  ReadingInv'
<1>1. /\ actor \in [Actors -> ActorStates] /\ actor[a] \in ActorStates
      /\ Job(a) = actor[a].job /\ PlaceFits(actor[a])
      /\ events \in 0..MaxEvents /\ disk \subseteq Audio /\ lost \subseteq Audio
  BY JobBasics
<1>2. /\ actor[a].at = "send" /\ store' = store /\ causes' = causes \cup {"unsent"}
      /\ lost' = lost /\ pending' = pending /\ ended' = ended
      /\ opened' = opened /\ events' \in 0..MaxEvents
  <2>1. CASE Event
    BY <2>1, EventBound DEF SendFails, At
  <2>2. CASE UNCHANGED boundVars
    BY <1>1, <2>2 DEF SendFails, At, boundVars
  <2> QED
    BY <2>1, <2>2 DEF SendFails
<1>3. Framed
  BY <1>2 DEF SendFails, Framed, voiceVars, markVars
<1>4. KeptStore
  BY <1>1, <1>2, <1>3, QuietStore
<1>5. Job(a).kind \in Locking
  BY <1>1, <1>2 DEF PlaceFits, KindsAt
<1>6. PICK at \in {"last", "queue"} :
          /\ Drops(a, at)
          /\ at = "queue" => Job(a).kind = "chunk" /\ actor[a].index + 1 < Parts
  BY DEF SendFails, AfterVoice
<1> QED
  BY <1>2, <1>3, <1>4, <1>5, <1>6, DropStep DEF WorkPlaces

LEMMA PremiumFailsStep ==
    ASSUME ReadingInv, NEW a \in Actors, PremiumFails(a)
    PROVE  ReadingInv'
<1>1. /\ actor \in [Actors -> ActorStates] /\ actor[a] \in ActorStates
      /\ Job(a) = actor[a].job /\ Seen(a) = actor[a].seen
      /\ disk \subseteq Audio /\ lost \subseteq Audio /\ actor[a].files \subseteq Audio
  BY JobBasics, Basics
<1>2. /\ actor[a].at = "check3" /\ ~actor[a].putting /\ Job(a).kind = "chunk"
      /\ store' = store /\ disk' = disk /\ pending' = pending /\ ended' = ended
      /\ lost' = lost \cup actor[a].files /\ causes' = causes \cup {"unsent"}
      /\ events' \in 0..MaxEvents
  BY EventBound DEF PremiumFails, At
<1>3. Framed
  BY EventBound DEF PremiumFails, Framed, voiceVars, markVars
<1>4. KeptStore
  BY <1>1, <1>2, <1>3, QuietStore
<1> DEFINE r == [actor[a] EXCEPT !.at = "last", !.files = {}]
<1>5. actor' = [actor EXCEPT ![a] = r]
  BY DEF PremiumFails
<1>6. /\ r \in ActorStates /\ r.at = "last" /\ r.job = actor[a].job /\ r.index = actor[a].index
      /\ r.seen = actor[a].seen /\ r.putting = actor[a].putting /\ r.files = {}
      /\ r.then = actor[a].then
  BY <1>1 DEF ActorStates, Places
<1> HIDE DEF r
<1>7. /\ Others(a) /\ actor'[a].at = "last" /\ actor'[a].job = Job(a)
      /\ actor'[a].index = actor[a].index /\ actor'[a].then = actor[a].then
      /\ actor'[a].seen = Seen(a) /\ ~actor'[a].putting /\ actor'[a].files = {}
  BY <1>1, <1>2, <1>5, <1>6 DEF Others
<1>8. KeepsFiles(a)
  BY <1>2 DEF KeepsFiles
<1>9. Arrives(a)
  BY <1>2, <1>7, AtWork DEF Arrives, WorkFits, WorkPlaces, KindsAt, HandsFit, Locking, Kinds
<1>10. Minds(a)
  BY <1>1, <1>2, <1>7 DEF Minds, Position, HeardBefore, Between, Owns
<1> QED
  BY <1>1, <1>2, <1>3, <1>4, <1>7, <1>8, <1>9, <1>10, OnwardStep

------------------------------------------------------------------------------
(* The steps that move the text on, release it, or tell the user.          *)

LEMMA AdvanceStep ==
    ASSUME ReadingInv, NEW a \in Actors, Advance(a)
    PROVE  ReadingInv'
<1>1. /\ actor \in [Actors -> ActorStates] /\ actor[a] \in ActorStates
      /\ Job(a) = actor[a].job /\ Seen(a) = actor[a].seen /\ PlaceFits(actor[a])
      /\ events \in 0..MaxEvents /\ disk \subseteq Audio /\ lost \subseteq Audio
      /\ store \in Sessions /\ Parts \in Nat \ {0} /\ actor[a].index \in 0..(Parts - 1)
      /\ Job(a).kind \in Kinds => Job(a).sid \in 1..opened
      /\ ShapeInv /\ ended \subseteq 1..opened /\ opened \in Nat
  BY JobBasics, Basics
<1>2. /\ actor[a].at = "advance" /\ ~actor[a].putting /\ Framed /\ disk' = disk /\ lost' = lost
      /\ pending' = pending /\ events' = events /\ ended' = ended /\ Moves(a, "check3")
  BY DEF Advance, At, Framed, boundVars, voiceVars, markVars
<1>3. /\ Job(a).kind = "chunk" /\ Owns(actor[a]) /\ ~Unsaid(actor[a]) /\ Job(a).sid # 0
  BY <1>1, <1>2 DEF PlaceFits, KindsAt, Owns, Locking, Unsaid, Kinds
<1>4. Stored(a, actor[a].index + 1, store.generating, store.prefetch, store.pindex, store.files)
  <2>1. Updates(a, [store EXCEPT !.index = actor[a].index + 1])
    BY DEF Advance
  <2>2. actor[a].index + 1 \in 0..Parts
    BY <1>1
  <2> QED
    BY <1>1, <2>1, <2>2, StoredIndex
<1>5. /\ StoreFits' /\ causes \subseteq causes' /\ store'.sid = store.sid
      /\ Clean' => store.sid \in {0, Job(a).sid}
      /\ store.sid = 0 => store' = store
      /\ store.sid # 0 => store'.index = actor[a].index + 1
      /\ store'.generating = store.generating /\ store'.files = store.files
      /\ store'.prefetch = store.prefetch /\ store'.pindex = store.pindex
  <2>1. /\ StoreFits' /\ causes \subseteq causes' /\ store'.sid = store.sid
        /\ Clean' => store.sid \in {0, Job(a).sid}
        /\ store.sid = 0 => store' = store
        /\ store.sid # 0 => store'.index = actor[a].index + 1
    BY <1>2, <1>4, StoredFits
  <2> QED
    BY <1>4, <2>1 DEF Stored
<1>6. Goes(a, "check3")
  BY <1>1, <1>2, MovesTo DEF Places
<1>7. /\ Others(a) /\ actor'[a].at = "check3" /\ actor'[a].job = Job(a)
      /\ actor'[a].then = actor[a].then
      /\ actor'[a].index = actor[a].index /\ actor'[a].seen = Seen(a) /\ ~actor'[a].putting
      /\ actor'[a].files = actor[a].files
  BY <1>1, <1>2, <1>6 DEF Goes, Now, Others
<1>8. ShapeInv'
  <2>1. Arrives(a)
    BY <1>2, <1>3, <1>7, AtWork DEF Arrives, WorkFits, WorkPlaces, KindsAt, HandsFit, Kinds
  <2>2. FitsPlace(a)' /\ actor'[a].at # "mark"
    BY <1>2, <2>1, ArrivesFits DEF Framed
  <2> QED
    BY <1>1, <1>2, <1>5, <1>7, <2>2, FramedShape
<1>9. KeepsSession(a)
  BY <1>2, <1>5, <1>7 DEF KeepsSession, Framed, Past
<1>10. LockInv'
  <2> SUFFICES ASSUME Clean'
               PROVE  /\ OwnerAlone'
                      /\ \A b \in Actors : OwnerMarks(actor[b])' /\ Position(actor[b])'
                      /\ \A j \in BagToSet(pending') :
                            j.kind \in Locking /\ j.sid = store'.sid => store'.generating = "yes"
                      /\ Held' => ~Abandoned'
    BY DEF LockInv
  <2>1. /\ OwnerAlone
        /\ \A b \in Actors : OwnerMarks(actor[b]) /\ Position(actor[b])
        /\ \A j \in BagToSet(pending) :
              j.kind \in Locking /\ j.sid = store.sid => store.generating = "yes"
        /\ Held => ~Abandoned
    BY <1>5, LockFacts
  <2>2. \A b \in Actors : /\ actor'[b].job = actor[b].job
                          /\ Owns(actor'[b]) <=> Owns(actor[b])
    BY <1>1, <1>3, <1>7 DEF Others, Owns
  <2>3. OwnerAlone'
    BY <1>2, <2>1, <2>2 DEF OwnerAlone, Job
  <2>4. ASSUME NEW b \in Actors PROVE OwnerMarks(actor[b])'
    BY <1>5, <2>1, <2>2 DEF OwnerMarks
  <2>5. ASSUME NEW b \in Actors PROVE Position(actor[b])'
    <3>1. CASE b = a
      <4>1. Job(a).sid = store'.sid => store'.index = actor[a].index + 1
        BY <1>3, <1>5
      <4> QED
        BY <1>3, <1>7, <3>1, <4>1 DEF Position
    <3>2. CASE b # a
      <4>1. actor'[b] = actor[b] /\ Position(actor[b]) /\ Position(actor[a])
        BY <1>7, <2>1, <3>2 DEF Others
      <4>2. CASE store.sid = 0
        BY <1>5, <4>1, <4>2 DEF Position
      <4>3. CASE store.sid # 0
        <5>1. store.sid = Job(a).sid /\ store.index = actor[a].index
          BY <1>1, <1>2, <1>3, <1>5, <4>1, <4>3 DEF Position
        <5>2. Owns(actor[b]) => Job(b).sid # Job(a).sid
          BY <1>3, <2>1, <3>2 DEF OwnerAlone
        <5>3. actor[b].job.sid = store.sid /\ actor[b].job.kind \in Locking
                 => actor[b].at \in {"context", "try", "sorry"}
          BY <5>1, <5>2 DEF Owns, Job
        <5>4. ~(actor[b].job.sid = store.sid /\ actor[b].job.kind = "export" /\ actor[b].at = "try")
          BY <1>1, <4>1, <5>1 DEF Position
        <5> QED
          BY <1>5, <4>1, <5>3, <5>4 DEF Position, Locking
      <4> QED
        BY <4>2, <4>3
    <3> QED
      BY <3>1, <3>2
  <2>6. Held' => ~Abandoned'
    BY <1>2, <1>5, <2>1, <2>2 DEF Abandoned, Held, Job, Framed
  <2> QED
    BY <1>2, <1>5, <2>1, <2>3, <2>4, <2>5, <2>6
<1>11. HeardInv'
  <2>1. \A s \in Sids : s > opened' => heard'[s] = 0
    BY <1>2 DEF ReadingInv, HeardInv, Framed
  <2>2. ASSUME Clean', "crash" \notin causes'
        PROVE  /\ \A b \in Actors : HeardBefore(actor[b])'
               /\ store'.sid # 0 =>
                     /\ heard'[store'.sid] <= store'.index
                     /\ \E b \in Actors : Unsaid(actor'[b]) /\ actor'[b].job.sid = store'.sid
    <3>1. \A b \in Actors : HeardBefore(actor[b])
      BY <1>5, <2>2 DEF ReadingInv, HeardInv, Clean
    <3>2. ASSUME NEW b \in Actors PROVE HeardBefore(actor[b])'
      <4>1. HeardBefore(actor[b])
        BY <3>1
      <4>2. CASE b = a
        BY <1>1, <1>2, <1>5, <1>7, <4>1, <4>2 DEF HeardBefore, Between, Framed
      <4>3. CASE b # a
        BY <1>2, <1>5, <1>7, <4>1, <4>3 DEF HeardBefore, Framed, Others
      <4> QED
        BY <4>2, <4>3
    <3>3. ASSUME store'.sid # 0
          PROVE  /\ heard'[store'.sid] <= store'.index
                 /\ Unsaid(actor'[a]) /\ actor'[a].job.sid = store'.sid
      <4>1. store'.sid = Job(a).sid /\ store'.index = actor[a].index + 1
        BY <1>5, <2>2, <3>3
      <4>2. heard[Job(a).sid] <= actor[a].index /\ heard[Job(a).sid] \in Nat
        <5>1. heard[Job(a).sid] <= actor[a].index
          BY <1>1, <1>2, <1>3, <3>1 DEF HeardBefore, Between
        <5>2. Job(a).sid \in Sids
          BY <1>1, <1>3, RedisReadingAssumption DEF ShapeInv, Sids, Kinds
        <5> QED
          BY <1>1, <5>1, <5>2 DEF ShapeInv
      <4> QED
        BY <1>1, <1>2, <1>3, <1>7, <4>1, <4>2 DEF Framed, Unsaid
    <3> QED
      BY <3>2, <3>3
  <2> QED
    BY <2>1, <2>2 DEF HeardInv, Job
<1>12. KeepsAudio(a)
  <2> SUFFICES ASSUME Straight PROVE ReadyFits(store') /\ AudioFits(actor[a])'
    BY DEF KeepsAudio, Straight
  <2>1. ReadyFits(store) /\ AudioFits(actor[a])
    BY <1>5 DEF Straight, ReadingInv, AudioInv
  <2>2. ReadyFits(store')
    BY <1>5, <2>1 DEF ReadyFits
  <2>3. OwnAudio(actor'[a])
    BY <1>1, <1>2, <1>3, <1>7, <2>1 DEF AudioFits, OwnAudio
  <2> QED
    BY <1>1, <1>7, <2>1, <2>2, <2>3 DEF AudioFits
<1>13. KeepsFiles(a) /\ Sent(actor[a])'
  BY <1>2, <1>3, <1>5, <1>7 DEF KeepsFiles, Sent
<1> QED
  <2>1. SessionsInv'
    BY <1>5, <1>7, <1>8, <1>9, SessionsStep DEF ReadingInv, ShapeInv
  <2>2. AudioInv'
    BY <1>2, <1>5, <1>7, <1>12, AudioStep DEF ReadingInv
  <2>3. SendingInv' /\ FilesAccounted' /\ PartsOnceInOrder'
    BY <1>2, <1>5, <1>7, <1>13, SendingStep, FilesStep, VoicesStep DEF ReadingInv, Framed
  <2> QED
    BY <1>8, <1>10, <1>11, <2>1, <2>2, <2>3 DEF ReadingInv

LEMMA ReleaseStep ==
    ASSUME ReadingInv, NEW a \in Actors, Release(a)
    PROVE  ReadingInv'
<1>1. /\ actor \in [Actors -> ActorStates] /\ actor[a] \in ActorStates
      /\ Job(a) = actor[a].job /\ Seen(a) = actor[a].seen /\ PlaceFits(actor[a])
      /\ HandsFit(actor[a])
      /\ events \in 0..MaxEvents /\ disk \subseteq Audio /\ lost \subseteq Audio
      /\ store \in Sessions /\ ShapeInv /\ ended \subseteq 1..opened /\ opened \in Nat /\ marked \in Nat
      /\ Job(a).kind \in Kinds => Job(a).sid \in 1..opened
  BY JobBasics, Basics
<1>2. /\ actor[a].at = "release" /\ Framed /\ disk' = disk /\ lost' = lost
      /\ pending' = pending /\ events' = events /\ ended' = ended /\ Apologises(a)
  BY DEF Release, At, Framed, boundVars, voiceVars, markVars
<1>3. /\ Job(a).kind \in Locking /\ Owns(actor[a]) /\ ~Unsaid(actor[a]) /\ Job(a).sid # 0
      /\ actor[a].files = {}
  BY <1>1, <1>2 DEF PlaceFits, KindsAt, Owns, Locking, Unsaid, Kinds, HandsFit
<1>4. Stored(a, store.index, "no", store.prefetch, store.pindex, store.files)
  <2>1. Updates(a, [store EXCEPT !.generating = "no"])
    BY DEF Release
  <2> QED
    BY <1>1, <2>1, StoredMark
<1>5. /\ StoreFits' /\ causes \subseteq causes' /\ store'.sid = store.sid
      /\ Clean' => store.sid \in {0, Job(a).sid}
      /\ store.sid # 0 => store'.generating = "no"
      /\ store.sid = 0 => store'.generating = "no"
      /\ store'.index = store.index /\ store'.files = store.files
      /\ store'.prefetch = store.prefetch /\ store'.pindex = store.pindex
  <2>1. /\ StoreFits' /\ causes \subseteq causes' /\ store'.sid = store.sid
        /\ Clean' => store.sid \in {0, Job(a).sid}
        /\ store.sid = 0 => store' = store
        /\ store.sid # 0 => store'.generating = "no"
    BY <1>2, <1>4, StoredFits
  <2> QED
    BY <1>1, <1>4, <2>1, Blank DEF Stored, ShapeInv
<1>6. Straight => ReadyFits(store) /\ AudioFits(actor[a])
  BY <1>5 DEF Straight, ReadingInv, AudioInv
<1>7. /\ Others(a) /\ FitsPlace(a)' /\ actor'[a].at # "mark"
      /\ Past(actor[a])' /\ ~Owns(actor'[a]) /\ Position(actor[a])'
      /\ HeardBefore(actor[a])' /\ Sent(actor[a])'
      /\ Straight => AudioFits(actor[a])'
  <2>1. CASE actor[a].then = "idle"
    <3>1. GoesOn(a, "sorry")
      <4>1. Continues(a, "sorry") /\ "sorry" \in Places
        BY <1>2, <2>1 DEF Apologises, Places
      <4> QED
        BY <1>1, <4>1, ContinuesTo
    <3>2. /\ Others(a) /\ actor'[a].at = "sorry" /\ actor'[a].job = Job(a)
          /\ actor'[a].then = "idle"
          /\ actor'[a].seen = Seen(a) /\ ~actor'[a].putting /\ actor'[a].files = {}
      BY <1>1, <1>3, <2>1, <3>1 DEF GoesOn, Now, Others
    <3>3. Arrives(a)
      BY <1>3, <3>2 DEF Arrives, WorkFits, WorkPlaces, KindsAt, HandsFit
    <3>4. FitsPlace(a)' /\ actor'[a].at # "mark"
      BY <1>2, <3>3, ArrivesFits DEF Framed
    <3>5. /\ Past(actor[a])' /\ ~Owns(actor'[a]) /\ HeardBefore(actor[a])' /\ Sent(actor[a])'
      BY <3>2 DEF Past, Owns, HeardBefore, Between, Sent
    <3>6. Position(actor[a])'
      BY <3>2 DEF Position
    <3>7. Straight => AudioFits(actor[a])'
      BY <1>1, <1>6, <3>2 DEF AudioFits
    <3> QED
      BY <3>2, <3>4, <3>5, <3>6, <3>7
  <2>2. CASE actor[a].then # "idle"
    <3>1. GoesIdle(a)
      BY <1>1, <1>2, <2>2, EndsTo DEF Apologises
    <3> QED
      BY <1>1, <1>2, <3>1, IdleFits DEF Framed
  <2> QED
    BY <2>1, <2>2
<1>8. ShapeInv'
  BY <1>1, <1>2, <1>5, <1>7, FramedShape
<1>9. KeepsSession(a)
  BY <1>2, <1>5, <1>7 DEF KeepsSession, Framed
<1>10. LockInv'
  <2> SUFFICES ASSUME Clean'
               PROVE  /\ OwnerAlone'
                      /\ \A b \in Actors : OwnerMarks(actor[b])' /\ Position(actor[b])'
                      /\ \A j \in BagToSet(pending') :
                            j.kind \in Locking /\ j.sid = store'.sid => store'.generating = "yes"
                      /\ ~Abandoned'
    BY DEF LockInv
  <2>1. /\ OwnerAlone
        /\ \A b \in Actors : OwnerMarks(actor[b]) /\ Position(actor[b])
    BY <1>5, LockFacts
  <2>2. \A b \in Actors : Owns(actor'[b]) => b # a /\ actor'[b] = actor[b]
    BY <1>7 DEF Others
  <2>3. OwnerAlone'
    BY <1>2, <2>1, <2>2 DEF OwnerAlone, Job
  <2>4. ASSUME NEW b \in Actors PROVE OwnerMarks(actor[b])' /\ Position(actor[b])'
    <3>1. OwnerMarks(actor[b])'
      <4> SUFFICES ASSUME Owns(actor'[b]), actor'[b].job.sid = store'.sid PROVE FALSE
        BY DEF OwnerMarks
      <4>1. b # a /\ Owns(actor[b]) /\ Job(b).sid = store.sid
        BY <1>5, <2>2 DEF Job
      <4>2. Job(b).sid # 0
        BY <1>1, <4>1 DEF ShapeInv, PlaceFits, JobFits, Owns, Locking, Job
      <4> QED
        BY <1>3, <1>5, <2>1, <4>1, <4>2 DEF OwnerAlone
    <3>2. Position(actor[b])'
      <4>1. CASE b = a
        BY <1>7, <4>1
      <4>2. CASE b # a
        BY <1>5, <1>7, <2>1, <4>2 DEF Others, Position
      <4> QED
        BY <4>1, <4>2
    <3> QED
      BY <3>1, <3>2
  <2>5. ASSUME NEW j \in BagToSet(pending'), j.kind \in Locking, j.sid = store'.sid
        PROVE  FALSE
    <3>1. j.sid # 0 /\ j \in BagToSet(pending)
      BY <1>1, <1>2, <2>5 DEF ShapeInv, JobFits, Locking
    <3> QED
      BY <1>3, <1>5, <2>1, <2>5, <3>1 DEF OwnerAlone
  <2>6. ~Abandoned'
    BY <1>5 DEF Abandoned
  <2> QED
    BY <2>3, <2>4, <2>5, <2>6
<1>11. KeepsHeard(a)
  BY <1>3, <1>5, <1>7 DEF KeepsHeard, SameText
<1>12. KeepsAudio(a)
  <2> SUFFICES ASSUME Straight PROVE ReadyFits(store')
    BY <1>7 DEF KeepsAudio, Straight
  <2> QED
    BY <1>5, <1>6 DEF ReadyFits
<1>13. KeepsFiles(a)
  BY <1>2, <1>3, <1>5 DEF KeepsFiles
<1> QED
  BY <1>2, <1>5, <1>7, <1>8, <1>9, <1>10, <1>11, <1>12, <1>13, LockedStep

LEMMA SendStep ==
    ASSUME ReadingInv, NEW a \in Actors, Send(a)
    PROVE  ReadingInv'
<1>1. /\ actor \in [Actors -> ActorStates] /\ actor[a] \in ActorStates
      /\ Job(a) = actor[a].job /\ Seen(a) = actor[a].seen /\ PlaceFits(actor[a])
      /\ events \in 0..MaxEvents /\ disk \subseteq Audio /\ lost \subseteq Audio
      /\ store \in Sessions /\ ShapeInv /\ ended \subseteq 1..opened /\ opened \in Nat
      /\ Job(a).kind \in Kinds => Job(a).sid \in 1..opened
      /\ Parts \in Nat \ {0} /\ actor[a].index \in 0..(Parts - 1) /\ StoreFits
  BY JobBasics, Basics
<1>2. /\ actor[a].at = "send" /\ ~actor[a].putting /\ store' = store
      /\ lost' = lost /\ pending' = pending /\ ended' = ended /\ opened' = opened
      /\ events' \in 0..MaxEvents /\ causes \subseteq causes' /\ causes' \subseteq causes \cup {"resent"}
      /\ marked' = marked /\ marker' = marker /\ sending' = sending /\ Drops(a, AfterVoice(a))
  <2>1. CASE Event
    BY <2>1, EventBound DEF Send, At, boundVars, markVars
  <2>2. CASE UNCHANGED boundVars
    BY <1>1, <2>2 DEF Send, At, boundVars, markVars
  <2> QED
    BY <2>1, <2>2 DEF Send
<1>3. Job(a).kind \in Locking /\ Owns(actor[a])
  BY <1>1, <1>2 DEF PlaceFits, KindsAt, Owns
<1>4. CASE Job(a).kind # "chunk"
  <2>1. Framed
    BY <1>2, <1>4 DEF Send, Framed, voiceVars
  <2>2. KeptStore
    BY <1>1, <1>2, <2>1, QuietStore
  <2>3. Drops(a, "last") /\ ~Unsaid(actor[a])
    BY <1>1, <1>2, <1>4 DEF AfterVoice, Unsaid
  <2> QED
    BY <1>1, <1>2, <1>3, <1>4, <2>1, <2>2, <2>3, DropStep DEF WorkPlaces
<1>5. CASE Job(a).kind = "chunk"
  <2>1. PICK at \in {"last", "queue"} :
            /\ Drops(a, at) /\ (at = "queue" => actor[a].index + 1 < Parts)
    BY <1>2 DEF AfterVoice
  <2>2. disk' = disk \ actor[a].files /\ GoesEmpty(a, at)
    BY <1>1, <2>1, DropsTo DEF Drops, Places
  <2>3. /\ Others(a) /\ actor'[a].at = at /\ actor'[a].job = Job(a) /\ actor'[a].index = actor[a].index
        /\ actor'[a].then = actor[a].then
        /\ actor'[a].seen = Seen(a) /\ ~actor'[a].putting /\ actor'[a].files = {}
    BY <1>1, <2>2 DEF GoesEmpty, Now, Others
  <2>4. PICK part \in 1..Parts :
            /\ part = actor[a].index + 1
            /\ heard' = [heard EXCEPT ![Job(a).sid] = part]
            /\ \/ misheard' = misheard \cup Faults(a, part)
               \/ misheard' = misheard \cup Faults(a, part) \cup {"repeated"} /\ "resent" \in causes'
    <3>1. actor[a].index + 1 \in 1..Parts
      BY <1>1
    <3> QED
      BY <1>5, <3>1 DEF Send
  <2>5. Job(a).sid \in Sids /\ heard \in [Sids -> 0..Parts] /\ Job(a).sid \in 1..opened
    <3>1. opened \in 1..MaxSessions /\ MaxSessions \in Nat
      BY <1>1, RedisReadingAssumption DEF ShapeInv
    <3> QED
      BY <1>1, <1>5, <3>1 DEF Sids, ShapeInv, Kinds
  <2>6. /\ heard' \in [Sids -> 0..Parts] /\ heard'[Job(a).sid] = part
        /\ \A s \in Sids \ {Job(a).sid} : heard'[s] = heard[s]
    BY <1>1, <2>4, <2>5
  <2>7. ShapeInv'
    <3>1. Arrives(a)
      BY <1>2, <1>5, <2>1, <2>3, AtWork DEF Arrives, WorkFits, WorkPlaces, KindsAt, HandsFit, Locking
    <3>2. FitsPlace(a)' /\ actor'[a].at # "mark"
      BY <1>2, <3>1, ArrivesFits
    <3>3. /\ opened' \in opened..MaxSessions /\ marked' \in marked..1 /\ marker' \in marker..marked'
          /\ IsABag(pending') /\ StoreFits' /\ disk' \subseteq Audio
      <4>1. opened \in 1..MaxSessions /\ marked \in 0..1 /\ marker \in 0..marked /\ IsABag(pending)
        BY <1>1 DEF ShapeInv
      <4>2. opened' \in opened..MaxSessions /\ marked' \in marked..1 /\ marker' \in marker..marked'
        BY <1>2, <4>1, RedisReadingAssumption
      <4> QED
        BY <1>1, <1>2, <2>2, <4>1, <4>2 DEF StoreFits
    <3> QED
      BY <1>1, <1>2, <2>3, <2>6, <3>2, <3>3, ShapeStep
  <2>8. SessionsInv'
    <3>1. KeepsSession(a)
      BY <1>2, <2>3 DEF KeepsSession, Past
    <3> QED
      BY <1>1, <1>2, <2>3, <3>1, SessionsStep DEF ReadingInv
  <2>9. LockInv'
    <3>1. Position(actor[a])'
      BY <2>3 DEF Position
    <3>2. KeepsLock(a)
      BY <1>1, <1>2, <1>3, <2>3, <3>1 DEF KeepsLock, SameText, Owns
    <3> QED
      BY <1>1, <1>2, <2>3, <2>7, <3>2, SameQueue, LockStep DEF ReadingInv, Held
  <2>10. HeardInv'
    <3>1. \A s \in Sids : s > opened' => heard'[s] = 0
      BY <1>1, <1>2, <2>5, <2>6 DEF ReadingInv, HeardInv
    <3>2. ASSUME Clean', "crash" \notin causes'
          PROVE  /\ \A b \in Actors : HeardBefore(actor[b])'
                 /\ store'.sid # 0 =>
                       /\ heard'[store'.sid] <= store'.index
                       /\ \/ "unsent" \in causes' \/ heard'[store'.sid] = store'.index
                          \/ \E b \in Actors : Unsaid(actor'[b]) /\ actor'[b].job.sid = store'.sid
      <4>1. /\ Clean /\ "crash" \notin causes
            /\ \A b \in Actors : HeardBefore(actor[b])
            /\ store.sid # 0 =>
                  /\ heard[store.sid] <= store.index
                  /\ "unsent" \in causes \/ heard[store.sid] = store.index
                        \/ \E b \in Actors : Unsaid(actor[b]) /\ Job(b).sid = store.sid
        BY <1>2, <3>2 DEF ReadingInv, HeardInv, Clean
      <4>2. OwnerAlone /\ Position(actor[a])
        BY <1>2, <3>2, LockFacts
      <4>3. ASSUME NEW b \in Actors PROVE HeardBefore(actor[b])'
        <5>1. CASE b = a
          BY <2>3, <5>1 DEF HeardBefore, Between
        <5>2. CASE b # a
          <6>1. actor'[b] = actor[b] /\ HeardBefore(actor[b])
            BY <2>3, <4>1, <5>2 DEF Others
          <6>2. actor[b].job.kind = "chunk" /\ actor[b].at \in Between
                    => heard'[actor[b].job.sid] = heard[actor[b].job.sid]
            <7> SUFFICES ASSUME actor[b].job.kind = "chunk", actor[b].at \in Between
                         PROVE  actor[b].job.sid \in Sids \ {Job(a).sid}
              BY <2>6
            <7>1. Owns(actor[b])
              BY DEF Owns, Locking, Between
            <7>2. actor[b].job.sid \in Sids
              BY <1>1, RedisReadingAssumption DEF ShapeInv, PlaceFits, JobFits, Sids
            <7> QED
              BY <1>3, <4>2, <5>2, <7>1, <7>2 DEF OwnerAlone, Job
          <6> QED
            BY <1>2, <6>1, <6>2 DEF HeardBefore
        <5> QED
          BY <5>1, <5>2
      <4>4. ASSUME store'.sid # 0
            PROVE  /\ heard'[store'.sid] <= store'.index
                   /\ \/ "unsent" \in causes' \/ heard'[store'.sid] = store'.index
                      \/ \E b \in Actors : Unsaid(actor'[b]) /\ actor'[b].job.sid = store'.sid
        <5>1. CASE store.sid = Job(a).sid
          <6>1. store.index = part
            BY <1>1, <1>2, <1>5, <2>4, <4>2, <5>1 DEF Position
          <6> QED
            BY <1>1, <1>2, <2>5, <2>6, <5>1, <6>1
        <5>2. CASE store.sid # Job(a).sid
          <6>1. store.sid \in Sids
            BY <1>1, <1>2, <4>4, RedisReadingAssumption DEF StoreFits, Sessions, Sids
          <6>2. heard'[store.sid] = heard[store.sid]
            BY <2>6, <5>2, <6>1
          <6>3. ASSUME NEW b \in Actors, Unsaid(actor[b]), Job(b).sid = store.sid
                PROVE  Unsaid(actor'[b]) /\ actor'[b].job.sid = store'.sid
            <7>1. b # a
              BY <5>2, <6>3
            <7> QED
              BY <1>2, <2>3, <6>3, <7>1 DEF Others, Job
          <6> QED
            BY <1>2, <4>1, <4>4, <6>2, <6>3
        <5> QED
          BY <5>1, <5>2
      <4> QED
        BY <4>3, <4>4
    <3> QED
      BY <3>1, <3>2 DEF HeardInv, Job
  <2>11. AudioInv'
    <3>1. KeepsAudio(a)
      <4> SUFFICES ASSUME Straight PROVE ReadyFits(store') /\ AudioFits(actor[a])'
        BY DEF KeepsAudio, Straight
      <4>1. ReadyFits(store) /\ AudioFits(actor[a])
        BY <1>2 DEF Straight, ReadingInv, AudioInv
      <4> QED
        BY <1>1, <1>2, <2>3, <4>1 DEF AudioFits
    <3> QED
      BY <1>2, <2>3, <3>1, AudioStep DEF ReadingInv
  <2>12. SendingInv' /\ FilesAccounted'
    <3>1. Sent(actor[a])'
      BY <2>3 DEF Sent
    <3>2. KeepsFiles(a)
      BY <1>2, <2>2, <2>3 DEF KeepsFiles
    <3> QED
      BY <1>2, <2>3, <3>1, <3>2, SendingStep, FilesStep DEF ReadingInv
  <2>13. PartsOnceInOrder'
    <3> SUFFICES ASSUME NEW kind \in misheard' PROVE Excused(kind) \cap causes' # {}
      BY DEF PartsOnceInOrder
    <3>1. CASE kind \in misheard
      BY <1>2, <3>1 DEF ReadingInv, PartsOnceInOrder
    <3>2. CASE kind \in Faults(a, part)
      <4>1. Clean /\ "crash" \notin causes => HeardBefore(actor[a])
        BY DEF ReadingInv, HeardInv
      <4>2. /\ Clean /\ "crash" \notin causes => heard[Job(a).sid] <= actor[a].index
            /\ Clean /\ "crash" \notin causes /\ "unsent" \notin causes
                  => heard[Job(a).sid] = actor[a].index
        BY <1>1, <1>2, <1>5, <4>1 DEF HeardBefore, Between
      <4>3. heard[Job(a).sid] \in Nat
        BY <2>5
      <4>4. CASE kind = "again"
        <5>1. part <= heard[Job(a).sid]
          BY <3>2, <4>4 DEF Faults
        <5>2. ~(Clean /\ "crash" \notin causes)
          BY <1>1, <2>4, <4>2, <4>3, <5>1
        <5> QED
          BY <1>2, <4>4, <5>2 DEF Excused, Clean
      <4>5. CASE kind = "skipped"
        <5>1. part > heard[Job(a).sid] + 1
          BY <3>2, <4>5 DEF Faults
        <5>2. ~(Clean /\ "crash" \notin causes /\ "unsent" \notin causes)
          BY <1>1, <2>4, <4>2, <4>3, <5>1
        <5> QED
          BY <1>2, <4>5, <5>2 DEF Excused, Clean
      <4>6. CASE kind = "wrong"
        <5>1. PICK file \in actor[a].files : <<file.sid, file.part>> # <<Job(a).sid, part>>
          BY <3>2, <4>6 DEF Faults
        <5>2. ~OwnAudio(actor[a])
          BY <1>1, <2>4, <5>1 DEF OwnAudio, Of
        <5>3. causes \cap {"overlap", "replaced"} # {}
          BY <1>1, <1>2, <1>5, <5>2 DEF ReadingInv, AudioInv, AudioFits
        <5> QED
          BY <1>2, <4>6, <5>3 DEF Excused
      <4>7. CASE kind = "late"
        <5>1. Job(a).born < marker /\ Job(a).sid \notin sending
          BY <3>2, <4>7 DEF Faults
        <5>2. Sent(actor[a])
          BY DEF ReadingInv, SendingInv
        <5>3. Job(a).born >= marker
          BY <1>1, <1>2, <1>5, <5>1, <5>2 DEF Sent
        <5>4. Job(a).born \in Int /\ marker \in Int
          <6>1. marker \in Nat
            BY Basics
          <6> QED
            BY <1>1, <6>1 DEF ActorStates, Jobs
        <5> QED
          BY <5>1, <5>3, <5>4
      <4> QED
        BY <3>2, <4>4, <4>5, <4>6, <4>7 DEF Faults
    <3>3. CASE kind = "repeated" /\ "resent" \in causes'
      BY <3>3 DEF Excused
    <3> QED
      BY <2>4, <3>1, <3>2, <3>3
  <2> QED
    BY <2>7, <2>8, <2>9, <2>10, <2>11, <2>12, <2>13 DEF ReadingInv
<1> QED
  BY <1>4, <1>5

------------------------------------------------------------------------------
(* Handlers that fail or turn back with the lock.                          *)

LEMMA HandlerRaisesStep ==
    ASSUME ReadingInv, NEW a \in Actors, HandlerRaises(a)
    PROVE  ReadingInv'
<1>1. /\ actor \in [Actors -> ActorStates] /\ HandsFit(actor[a])
      /\ disk \subseteq Audio /\ lost \subseteq Audio
  BY JobBasics
<1>2. /\ actor[a].at \in {"current", "enqueue"} /\ store' = store /\ disk' = disk
      /\ pending' = pending /\ lost' = lost /\ ended' = ended /\ Ends(a) /\ Event
      /\ causes' = causes \cup {"abandoned"}
  BY DEF HandlerRaises, At
<1>3. events' \in 0..MaxEvents /\ opened' = opened
  BY <1>2, EventBound
<1>4. Framed
  BY <1>3 DEF HandlerRaises, Framed, voiceVars, markVars
<1>5. KeptStore /\ GoesIdle(a)
  BY <1>1, <1>2, <1>4, QuietStore, EndsTo
<1>6. actor[a].files = {} /\ ~Unsaid(actor[a]) /\ KeepsFiles(a)
  BY <1>1, <1>2 DEF HandsFit, Unsaid, KeepsFiles
<1>7. ~Held'
  BY <1>2 DEF Held
<1> QED
  BY <1>1, <1>2, <1>3, <1>4, <1>5, <1>6, <1>7, IdleStep

LEMMA TurnsBackStep ==
    ASSUME ReadingInv, NEW a \in Actors, TurnsBack(a)
    PROVE  ReadingInv'
<1>1. /\ actor \in [Actors -> ActorStates] /\ Job(a) = actor[a].job /\ Seen(a) = actor[a].seen
      /\ PlaceFits(actor[a]) /\ HandsFit(actor[a]) /\ disk \subseteq Audio /\ lost \subseteq Audio
  BY JobBasics
<1>2. /\ actor[a].at \in {"current", "enqueue"} /\ ~actor[a].putting /\ store' = store
      /\ disk' = disk /\ pending' = pending /\ lost' = lost /\ ended' = ended
      /\ causes' = causes /\ Event /\ Moves(a, "unlock")
  BY DEF TurnsBack, At
<1>3. events' \in 0..MaxEvents /\ opened' = opened
  BY <1>2, EventBound
<1>4. Framed
  BY <1>3 DEF TurnsBack, Framed, voiceVars, markVars
<1>5. KeptStore
  BY <1>1, <1>2, <1>4, QuietStore
<1>6. /\ Job(a).kind \in Locking /\ actor[a].files = {} /\ ~Unsaid(actor[a])
  BY <1>1, <1>2 DEF PlaceFits, KindsAt, HandsFit, Unsaid
<1>7. Goes(a, "unlock")
  BY <1>1, <1>2, MovesTo DEF Places
<1>8. /\ Others(a) /\ actor'[a].at = "unlock" /\ actor'[a].job = Job(a)
      /\ actor'[a].index = actor[a].index /\ actor'[a].then = actor[a].then
      /\ actor'[a].seen = Seen(a) /\ ~actor'[a].putting /\ actor'[a].files = {}
  BY <1>1, <1>2, <1>6, <1>7 DEF Goes, Now, Others
<1>9. KeepsFiles(a)
  BY <1>2, <1>6 DEF KeepsFiles
<1>10. Arrives(a)
  BY <1>2, <1>6, <1>8, AtWork DEF Arrives, WorkFits, WorkPlaces, KindsAt, HandsFit
<1>11. Minds(a)
  BY <1>1, <1>2, <1>6, <1>8 DEF Minds, Position, HeardBefore, Between, Owns
<1> QED
  BY <1>1, <1>2, <1>3, <1>4, <1>5, <1>8, <1>9, <1>10, <1>11, OnwardStep

LEMMA SorryStep ==
    ASSUME ReadingInv, NEW a \in Actors, Sorry(a)
    PROVE  ReadingInv'
<1>1. /\ actor \in [Actors -> ActorStates] /\ Job(a) = actor[a].job /\ Seen(a) = actor[a].seen
      /\ PlaceFits(actor[a]) /\ HandsFit(actor[a]) /\ disk \subseteq Audio /\ lost \subseteq Audio
      /\ events \in 0..MaxEvents
  BY JobBasics
<1>2. /\ actor[a].at = "sorry" /\ ~actor[a].putting /\ store' = store /\ disk' = disk
      /\ pending' = pending /\ lost' = lost /\ ended' = ended
  BY DEF Sorry, At
<1>3. /\ Job(a).kind \in Locking /\ actor[a].files = {} /\ ~Unsaid(actor[a]) /\ ~Owns(actor[a])
  BY <1>1, <1>2 DEF PlaceFits, KindsAt, HandsFit, Unsaid, Owns
<1>4. CASE Ends(a) /\ UNCHANGED <<boundVars, causes>>
  <2>1. Framed /\ causes' = causes /\ events' = events
    BY <1>4 DEF Sorry, Framed, boundVars, voiceVars, markVars
  <2>2. KeptStore /\ GoesIdle(a)
    BY <1>1, <1>2, <1>4, <2>1, QuietStore, EndsTo
  <2>3. KeepsFiles(a)
    BY <1>2, <1>3 DEF KeepsFiles
  <2> QED
    BY <1>1, <1>2, <1>3, <2>1, <2>2, <2>3, IdleStep
<1>5. CASE Event /\ Moves(a, "unlock") /\ causes' = causes \cup {"released"}
  <2>1. events' \in 0..MaxEvents /\ opened' = opened
    BY <1>5, EventBound
  <2>2. Framed
    BY <2>1 DEF Sorry, Framed, voiceVars, markVars
  <2>3. KeptStore
    BY <1>1, <1>2, <1>5, <2>2, QuietStore
  <2>4. Goes(a, "unlock")
    BY <1>1, <1>5, MovesTo DEF Places
  <2>5. /\ Others(a) /\ actor'[a].at = "unlock" /\ actor'[a].job = Job(a)
        /\ actor'[a].index = actor[a].index /\ actor'[a].then = actor[a].then
        /\ actor'[a].seen = Seen(a) /\ ~actor'[a].putting /\ actor'[a].files = {}
    BY <1>1, <1>2, <1>3, <2>4 DEF Goes, Now, Others
  <2>6. KeepsFiles(a)
    BY <1>2, <1>3 DEF KeepsFiles
  <2>7. Arrives(a)
    BY <1>2, <1>3, <2>5, AtWork DEF Arrives, WorkFits, WorkPlaces, KindsAt, HandsFit
  <2>8. ~Clean'
    BY <1>5 DEF Clean
  <2>9. Minds(a)
    BY <1>3, <2>5, <2>8 DEF Minds
  <2> QED
    BY <1>1, <1>2, <2>1, <2>2, <2>3, <2>5, <2>6, <2>7, <2>9, OnwardStep
<1> QED
  BY <1>4, <1>5 DEF Sorry

LEMMA UnlockStep ==
    ASSUME ReadingInv, NEW a \in Actors, Unlock(a)
    PROVE  ReadingInv'
<1>1. /\ actor \in [Actors -> ActorStates] /\ actor[a] \in ActorStates
      /\ Job(a) = actor[a].job /\ Seen(a) = actor[a].seen /\ PlaceFits(actor[a])
      /\ HandsFit(actor[a]) /\ events \in 0..MaxEvents /\ disk \subseteq Audio /\ opened \in Nat
      /\ Job(a).kind \in Kinds => Job(a).sid \in 1..opened
  BY JobBasics, Basics
<1>2. /\ actor[a].at = "unlock" /\ actor[a].putting /\ WritesBack(a) /\ Framed
      /\ disk' = disk /\ pending' = pending /\ events' = events /\ ended' = ended
  BY DEF Unlock, Got, Framed, boundVars, voiceVars, markVars
<1>3. WroteBack(a) /\ KeptStore
  BY <1>2, WrittenStore
<1>4. /\ actor[a].files = {} /\ ~Unsaid(actor[a]) /\ Job(a).kind \in Locking /\ Job(a).sid # 0
  BY <1>1, <1>2 DEF HandsFit, Unsaid, PlaceFits, KindsAt, Locking, Kinds
<1>5. KeepsFiles(a)
  BY <1>2, <1>3, <1>4 DEF KeepsFiles, WroteBack
<1>6. CASE Seen(a).sid = 0
  <2>1. GoesIdle(a)
    BY <1>1, <1>6, EndsTo DEF Unlock
  <2>2. Clean' => ~(Owns(actor[a]) /\ Job(a).sid = store.sid)
    BY <1>2, <1>3, <1>4, <1>6, OwnGone DEF Locking
  <2> QED
    BY <1>1, <1>2, <1>3, <1>4, <1>5, <2>1, <2>2, IdleStep
<1>7. CASE Seen(a).sid # 0
  <2> DEFINE r == [actor[a] EXCEPT !.putting = FALSE, !.at = "release", !.then = "sorry"]
  <2>1. actor' = [actor EXCEPT ![a] = r]
    BY <1>7 DEF Unlock
  <2>2. /\ r \in ActorStates /\ r.at = "release" /\ r.job = actor[a].job /\ r.index = actor[a].index
        /\ r.seen = actor[a].seen /\ r.putting = FALSE /\ r.files = actor[a].files
        /\ r.then = "sorry"
    BY <1>1 DEF ActorStates, Places, Afters
  <2> HIDE DEF r
  <2>3. /\ Others(a) /\ actor'[a].at = "release" /\ actor'[a].job = Job(a)
        /\ actor'[a].then = "sorry"
        /\ actor'[a].seen = Seen(a) /\ ~actor'[a].putting /\ actor'[a].files = {}
    BY <1>1, <1>4, <2>1, <2>2 DEF Others
  <2>4. Arrives(a)
    BY <1>2, <1>4, <2>3 DEF Arrives, WorkFits, WorkPlaces, KindsAt, HandsFit
  <2>5. Minds(a)
    BY <1>2, <1>4, <2>3 DEF Minds, Position, HeardBefore, Between, Owns
  <2> QED
    BY <1>1, <1>2, <1>3, <1>5, <2>3, <2>4, <2>5, OnwardStep
<1> QED
  BY <1>6, <1>7

------------------------------------------------------------------------------
(* Jobs that go into the queue and come out of it.                         *)

\* Who hands its job to the queue hands the lock with it.
LEMMA HandedLock ==
    ASSUME ReadingInv, NEW a \in Actors, Others(a), store' = store, causes \subseteq causes',
           marked' = marked, pending' = pending (+) SetToBag({Job(a)}),
           Job(a).kind \in Locking => Owns(actor[a]),
           ~Owns(actor'[a]), Position(actor[a])'
    PROVE  LockInv'
<1>1. IsABag(pending) /\ Job(a) = actor[a].job
  BY Basics DEF ShapeInv
<1>2. PICK j : j = Job(a)
  OBVIOUS
<1>10. /\ BagToSet(pending') = BagToSet(pending) \cup {j}
       /\ j \notin BagToSet(pending) => pending'[j] = 1
       /\ \A k \in BagToSet(pending) \ {j} : pending'[k] = pending[k]
  <2>1. IsABag(pending) /\ pending' = pending (+) SetToBag({j})
    BY <1>1, <1>2
  <2> QED
    BY <2>1, JobPushed
<1> SUFFICES ASSUME Clean'
             PROVE  /\ OwnerAlone'
                    /\ \A b \in Actors : OwnerMarks(actor[b])' /\ Position(actor[b])'
                    /\ \A k \in BagToSet(pending') :
                          k.kind \in Locking /\ k.sid = store'.sid => store'.generating = "yes"
                    /\ Held' => ~Abandoned'
  BY DEF LockInv
<1>3. /\ OwnerAlone
      /\ \A b \in Actors : OwnerMarks(actor[b]) /\ Position(actor[b])
      /\ \A k \in BagToSet(pending) :
            k.kind \in Locking /\ k.sid = store.sid => store.generating = "yes"
      /\ Held => ~Abandoned
  BY LockFacts
<1>4. j.kind \in Locking => j \notin BagToSet(pending)
  BY <1>2, <1>3 DEF OwnerAlone
<1>5. /\ \A b \in Actors : Owns(actor'[b]) => b # a /\ Owns(actor[b]) /\ actor'[b] = actor[b]
      /\ \A b \in Actors \ {a} : actor'[b] = actor[b]
  BY DEF Others
<1>6. OwnerAlone'
  <2>1. \A b, c \in Actors : b # c /\ Owns(actor'[b]) /\ Owns(actor'[c])
            => actor'[b].job.sid # actor'[c].job.sid
    BY <1>3, <1>5 DEF OwnerAlone, Job
  <2>2. ASSUME NEW b \in Actors, NEW k \in BagToSet(pending'), Owns(actor'[b]), k.kind \in Locking
        PROVE  actor'[b].job.sid # k.sid
    <3>1. CASE k = j
      BY <1>2, <1>3, <1>5, <2>2, <3>1 DEF OwnerAlone, Job
    <3>2. CASE k # j
      <4>1. k \in BagToSet(pending) /\ Owns(actor[b]) /\ actor'[b] = actor[b]
        BY <1>5, <1>10, <2>2, <3>2
      <4>2. Job(b).sid # k.sid
        BY <1>3, <2>2, <4>1 DEF OwnerAlone
      <4> QED
        BY <4>1, <4>2 DEF Job
    <3> QED
      BY <3>1, <3>2
  <2>3. ASSUME NEW i \in BagToSet(pending'), NEW k \in BagToSet(pending'), i # k,
               i.kind \in Locking, k.kind \in Locking
        PROVE  i.sid # k.sid
    <3>1. \A m \in BagToSet(pending) : m.kind \in Locking /\ j.kind \in Locking => m.sid # j.sid
      BY <1>2, <1>3 DEF OwnerAlone
    <3>2. CASE i = j \/ k = j
      BY <1>10, <2>3, <3>1, <3>2
    <3>3. CASE i # j /\ k # j
      <4>1. i \in BagToSet(pending) /\ k \in BagToSet(pending)
        BY <1>10, <3>3
      <4> QED
        BY <1>3, <2>3, <4>1 DEF OwnerAlone
    <3> QED
      BY <3>2, <3>3
  <2>4. \A k \in BagToSet(pending') : k.kind \in Locking => pending'[k] = 1
    BY <1>3, <1>4, <1>10 DEF OwnerAlone
  <2> QED
    BY <2>1, <2>2, <2>3, <2>4 DEF OwnerAlone, Job
<1>7. ASSUME NEW b \in Actors PROVE OwnerMarks(actor[b])' /\ Position(actor[b])'
  <2>1. CASE b = a
    BY <2>1 DEF OwnerMarks
  <2>2. CASE b # a
    BY <1>3, <1>5, <2>2 DEF OwnerMarks, Position
  <2> QED
    BY <2>1, <2>2
<1>8. \A k \in BagToSet(pending') :
          k.kind \in Locking /\ k.sid = store'.sid => store'.generating = "yes"
  BY <1>1, <1>2, <1>3, <1>10 DEF OwnerMarks
<1>9. ASSUME Held', Abandoned' PROVE FALSE
  <2>1. /\ store.generating = "yes" /\ Held
        /\ \A b \in Actors : ~(Owns(actor'[b]) /\ actor'[b].job.sid = store.sid)
        /\ \A k \in BagToSet(pending') : ~(k.kind \in Locking /\ k.sid = store.sid)
    BY <1>9 DEF Abandoned, Job, Held
  <2>2. \A b \in Actors : ~(Owns(actor[b]) /\ Job(b).sid = store.sid)
    BY <1>1, <1>2, <1>5, <1>10, <2>1 DEF Job, Owns
  <2>3. \A k \in BagToSet(pending) : ~(k.kind \in Locking /\ k.sid = store.sid)
    BY <1>10, <2>1
  <2> QED
    BY <1>3, <2>1, <2>2, <2>3 DEF Abandoned
<1> QED
  BY <1>6, <1>7, <1>8, <1>9

LEMMA HandStep ==
    ASSUME ReadingInv, NEW a \in Actors, GoesIdle(a), Framed, store' = store, ended' = ended,
           disk' = disk, causes \subseteq causes', lost \subseteq lost', lost' \subseteq Audio,
           events' \in 0..MaxEvents, pending' = pending (+) SetToBag({Job(a)}),
           Job(a).kind \in Kinds, Job(a).kind \in Locking => Owns(actor[a]),
           KeepsFiles(a), Unsaid(actor[a]) => "crash" \in causes'
    PROVE  ReadingInv'
<1>1. /\ ShapeInv /\ PlaceFits(actor[a]) /\ Job(a) = actor[a].job /\ opened \in Nat /\ marked \in Nat
      /\ ended \subseteq 1..opened /\ disk \subseteq Audio
  BY Basics
<1>2. KeptStore
  BY <1>1, QuietStore
<1>3. opened' \in Nat /\ marked' \in Nat /\ opened' = opened /\ marked' = marked
  BY <1>1 DEF Framed
<1>4. /\ Others(a) /\ FitsPlace(a)' /\ actor'[a].at # "mark"
      /\ Past(actor[a])' /\ ~Owns(actor'[a]) /\ Position(actor[a])'
      /\ HeardBefore(actor[a])' /\ AudioFits(actor[a])' /\ Sent(actor[a])'
  BY <1>3, IdleFits
<1>5. ShapeInv'
  <2>1. /\ opened' \in opened..MaxSessions /\ marked' \in marked..1 /\ marker' \in marker..marked'
        /\ heard' \in [Sids -> 0..Parts] /\ ended' \subseteq 1..opened' /\ disk' \subseteq Audio
    BY <1>1, RedisReadingAssumption DEF ShapeInv, Framed
  <2>2. IsABag(pending') /\ BagToSet(pending') = BagToSet(pending) \cup {Job(a)}
    <3>1. IsABag(pending)
      BY <1>1 DEF ShapeInv
    <3> QED
      BY <3>1, JobPushed, Zenon
  <2>4. \A j \in BagToSet(pending') : j \in BagToSet(pending) \/ (JobFits(j)' /\ j.kind \in Kinds)
    BY <1>1, <1>3, <2>2 DEF PlaceFits, JobFits
  <2>5. \A b \in Actors \ {a} : actor[b].at = "mark" =>
            marked' = marked /\ marker' = marker /\ actor'[a].at # "mark"
    BY <1>4 DEF Framed
  <2>6. StoreFits'
    BY <1>2 DEF KeptStore
  <2> QED
    BY <1>1, <1>4, <2>1, <2>2, <2>4, <2>5, <2>6, ShapeStep
<1>6. LockInv'
  BY <1>3, <1>4, HandedLock
<1>7. KeepsSession(a)
  BY <1>4 DEF KeepsSession, Framed
<1>8. KeepsHeard(a)
  BY <1>4 DEF KeepsHeard, SameText
<1>9. KeepsAudio(a)
  BY <1>2, <1>4 DEF KeepsAudio, KeptStore, Straight
<1> QED
  BY <1>4, <1>5, <1>6, <1>7, <1>8, <1>9, LockedStep

\* A job that comes in without the lock, or once the lock is in doubt.
LEMMA JobAdded ==
    ASSUME ReadingInv, NEW a \in Actors, Others(a), Framed, KeptStore, Arrives(a), Minds(a),
           KeepsFiles(a), events' \in 0..MaxEvents, disk' \subseteq Audio,
           NEW j, JobFits(j)', j.kind \in Kinds, pending' = pending (+) SetToBag({j}),
           Clean' => j.kind \notin Locking
    PROVE  ReadingInv'
<1>1. ShapeInv /\ ended \subseteq 1..opened
  BY Basics
<1>2. FitsPlace(a)' /\ actor'[a].at # "mark"
  BY ArrivesFits DEF Framed
<1>3. KeepsSession(a) /\ KeepsLock(a) /\ KeepsHeard(a) /\ KeepsAudio(a) /\ Sent(actor[a])'
  BY MindsKeeps, KeptParts
<1>4. /\ IsABag(pending') /\ BagToSet(pending') = BagToSet(pending) \cup {j}
      /\ \A k \in BagToSet(pending) \ {j} : pending'[k] = pending[k]
  <2>1. IsABag(pending)
    BY <1>1 DEF ShapeInv
  <2> QED
    BY <2>1, JobPushed
<1>5. ShapeInv'
  <2>1. /\ opened' \in opened..MaxSessions /\ marked' \in marked..1 /\ marker' \in marker..marked'
        /\ heard' \in [Sids -> 0..Parts] /\ ended' \subseteq 1..opened' /\ lost' \subseteq Audio
    BY <1>1, RedisReadingAssumption DEF ShapeInv, Framed, KeptStore
  <2>2. \A k \in BagToSet(pending') : k \in BagToSet(pending) \/ (JobFits(k)' /\ k.kind \in Kinds)
    BY <1>4
  <2>3. \A b \in Actors \ {a} : actor[b].at = "mark" =>
            marked' = marked /\ marker' = marker /\ actor'[a].at # "mark"
    BY <1>2 DEF Framed
  <2>4. StoreFits'
    BY DEF KeptStore
  <2> QED
    BY <1>1, <1>2, <1>4, <2>1, <2>2, <2>3, <2>4, ShapeStep
<1>6. causes \subseteq causes'
  BY DEF KeptStore
<1>7. LockInv'
  <2>1. CASE Clean'
    <3>1. \A k \in BagToSet(pending') : k.kind \in Locking => k \in BagToSet(pending) \ {j}
      BY <1>4, <2>1
    <3>2. SameLocks
      BY <1>4, <3>1 DEF SameLocks
    <3>3. Held' => Held
      BY <1>6 DEF Held, Framed
    <3> QED
      BY <1>1, <1>3, <1>5, <1>6, <3>2, <3>3, LockStep DEF ReadingInv
  <2>2. CASE ~Clean'
    BY <2>2 DEF LockInv
  <2> QED
    BY <2>1, <2>2
<1> QED
  BY <1>3, <1>5, <1>6, <1>7, LockedStep

\* What an actor keeps that goes to the end of its job.
LEMMA ToLast ==
    ASSUME ReadingInv, NEW a \in Actors, Goes(a, "last"), Framed, KeptStore, ~actor[a].putting,
           actor[a].at \in {"enqueue", "push"}
    PROVE  Others(a) /\ Arrives(a) /\ Minds(a) /\ actor[a].files = {}
<1>1. /\ Job(a) = actor[a].job /\ Seen(a) = actor[a].seen /\ PlaceFits(actor[a]) /\ HandsFit(actor[a])
  BY JobBasics
<1>2. /\ Job(a).kind \in Locking /\ Owns(actor[a]) /\ ~Unsaid(actor[a]) /\ actor[a].files = {}
  BY <1>1 DEF PlaceFits, KindsAt, Owns, Unsaid, HandsFit, Locking
<1>3. /\ Others(a) /\ actor'[a].at = "last" /\ actor'[a].job = Job(a)
      /\ actor'[a].then = actor[a].then
      /\ actor'[a].seen = Seen(a) /\ ~actor'[a].putting /\ actor'[a].files = {}
  BY <1>1, <1>2 DEF Goes, Now, Others
<1>4. Arrives(a)
  BY <1>2, <1>3, AtWork DEF Arrives, WorkFits, WorkPlaces, KindsAt, HandsFit, Locking
<1>5. Minds(a)
  BY <1>2, <1>3 DEF Minds, Position, HeardBefore, Between, Owns
<1> QED
  BY <1>2, <1>3, <1>4, <1>5

LEMMA EnqueueStep ==
    ASSUME ReadingInv, NEW a \in Actors, Enqueue(a)
    PROVE  ReadingInv'
<1>1. /\ actor \in [Actors -> ActorStates] /\ actor[a] \in ActorStates
      /\ Job(a) = actor[a].job /\ Seen(a) = actor[a].seen /\ PlaceFits(actor[a]) /\ HandsFit(actor[a])
      /\ events \in 0..MaxEvents /\ disk \subseteq Audio /\ lost \subseteq Audio
  BY JobBasics
<1>2. /\ actor[a].at = "enqueue" /\ ~actor[a].putting /\ store' = store /\ disk' = disk
      /\ causes \subseteq causes' /\ lost' = lost /\ ended' = ended
  BY DEF Enqueue, At
<1>3. /\ Job(a).kind \in Locking /\ Owns(actor[a]) /\ ~Unsaid(actor[a]) /\ actor[a].files = {}
      /\ Job(a).kind \in Kinds
  BY <1>1, <1>2 DEF PlaceFits, KindsAt, Owns, Unsaid, HandsFit, Locking, Kinds
<1>4. CASE pending' = pending (+) SetToBag({Job(a)}) /\ Ends(a) /\ UNCHANGED boundVars
  <2>1. Framed /\ events' = events
    BY <1>4 DEF Enqueue, Framed, boundVars, voiceVars, markVars
  <2>2. GoesIdle(a)
    BY <1>1, <1>4, EndsTo
  <2>3. KeepsFiles(a)
    BY <1>2, <1>3 DEF KeepsFiles
  <2> QED
    BY <1>1, <1>2, <1>3, <1>4, <2>1, <2>2, <2>3, HandStep
<1>5. CASE Event /\ Moves(a, "last")
  <2>1. events' \in 0..MaxEvents /\ opened' = opened
    BY <1>5, EventBound
  <2>2. Framed
    BY <2>1 DEF Enqueue, Framed, voiceVars, markVars
  <2>3. KeptStore
    BY <1>1, <1>2, <2>2, QuietStore
  <2>4. Goes(a, "last")
    BY <1>1, <1>5, MovesTo DEF Places
  <2>5. Others(a) /\ Arrives(a) /\ Minds(a)
    BY <1>2, <2>2, <2>3, <2>4, ToLast
  <2>6. KeepsFiles(a)
    BY <1>2, <1>3 DEF KeepsFiles
  <2>7. CASE pending' = pending
    BY <1>1, <1>2, <2>1, <2>2, <2>3, <2>5, <2>6, <2>7, OnwardStep
  <2>8. CASE pending' = pending (+) SetToBag({Job(a)}) /\ causes' = causes \cup {"unanswered"}
    <3>1. ~Clean'
      BY <2>8 DEF Clean
    <3>2. PICK j : j = Job(a)
      OBVIOUS
    <3>3. JobFits(j)' /\ j.kind \in Kinds /\ pending' = pending (+) SetToBag({j})
      BY <1>1, <1>3, <2>2, <2>8, <3>2 DEF PlaceFits, JobFits, Framed
    <3> QED
      BY <1>1, <1>2, <2>1, <2>2, <2>3, <2>5, <2>6, <3>1, <3>3, JobAdded
  <2> QED
    BY <1>4, <2>7, <2>8 DEF Enqueue
<1> QED
  BY <1>4, <1>5 DEF Enqueue

LEMMA LoseStep ==
    ASSUME ReadingInv, NEW a \in Actors, Lose(a)
    PROVE  ReadingInv'
<1>1. /\ actor \in [Actors -> ActorStates] /\ actor[a] \in ActorStates
      /\ Job(a) = actor[a].job /\ PlaceFits(actor[a]) /\ HandsFit(actor[a])
      /\ events \in 0..MaxEvents /\ disk \subseteq Audio /\ lost \subseteq Audio
      /\ actor[a].files \subseteq Audio
  BY JobBasics
<1>2. /\ actor[a].at # "idle" /\ store' = store /\ disk' = disk /\ ended' = ended
      /\ Ends(a) /\ events' \in 0..MaxEvents /\ opened' = opened
  BY EventBound DEF Lose
<1>3. Framed
  BY <1>2 DEF Lose, Framed, voiceVars, markVars
<1>5. GoesIdle(a)
  BY <1>1, <1>2, EndsTo
<1>6. CASE IsWorker(a)
  <2>1. /\ lost' = lost \cup actor[a].files /\ causes' = causes \cup {"crash"}
        /\ pending' = pending (+) SetToBag({Job(a)})
    BY <1>6 DEF Lose
  <2>2. Job(a).kind \in Kinds /\ (Job(a).kind \in Locking => Owns(actor[a]))
    BY <1>1, <1>6 DEF PlaceFits, WorkFits, IsWorker, Owns, Locking, Kinds
  <2>3. KeepsFiles(a)
    BY <1>2, <2>1 DEF KeepsFiles
  <2>4. lost \subseteq lost' /\ lost' \subseteq Audio /\ causes \subseteq causes' /\ "crash" \in causes'
    BY <1>1, <2>1
  <2> QED
    BY <1>1, <1>2, <1>3, <1>5, <2>1, <2>2, <2>3, <2>4, HandStep
<1>7. CASE ~IsWorker(a)
  <2>1. causes' = causes \cup {"abandoned"} /\ pending' = pending /\ lost' = lost
    BY <1>7 DEF Lose
  <2>2. actor[a].at \notin WorkPlaces
    BY <1>1, <1>7 DEF PlaceFits, WorkFits, IsWorker
  <2>3. actor[a].files = {} /\ ~Unsaid(actor[a])
    BY <1>1, <2>2 DEF HandsFit, Unsaid, WorkPlaces
  <2>4. KeptStore
    BY <1>1, <1>2, <1>3, <2>1, QuietStore
  <2>5. KeepsFiles(a)
    BY <1>2, <2>1, <2>3 DEF KeepsFiles
  <2>6. ~Held'
    BY <2>1 DEF Held
  <2> QED
    BY <1>1, <1>2, <1>3, <1>5, <2>1, <2>3, <2>4, <2>5, <2>6, IdleStep
<1> QED
  BY <1>6, <1>7

LEMMA PushStep ==
    ASSUME ReadingInv, NEW a \in Actors, Push(a)
    PROVE  ReadingInv'
<1>1. /\ actor \in [Actors -> ActorStates] /\ actor[a] \in ActorStates /\ ShapeInv
      /\ Job(a) = actor[a].job /\ Seen(a) = actor[a].seen /\ PlaceFits(actor[a]) /\ HandsFit(actor[a])
      /\ events \in 0..MaxEvents /\ disk \subseteq Audio /\ lost \subseteq Audio
      /\ actor[a].index \in 0..(Parts - 1) /\ Parts \in Nat \ {0}
      /\ ended \subseteq 1..opened /\ opened \in Nat /\ marked \in Nat
  BY JobBasics, Basics
<1>2. /\ actor[a].at = "push" /\ ~actor[a].putting /\ store' = store /\ disk' = disk
      /\ causes' = causes /\ lost' = lost /\ ended' = ended
  BY DEF Push, At
<1>3. /\ Job(a).kind = "chunk" /\ Job(a) \in Jobs /\ actor[a].index + 1 < Parts
      /\ Job(a).sid \in 1..opened /\ actor[a].files = {}
  BY <1>1, <1>2 DEF PlaceFits, KindsAt, JobFits, HandsFit
<1>4. Framed /\ events' \in 0..MaxEvents
  <2>1. CASE Event
    BY <2>1, EventBound DEF Push, Framed, voiceVars, markVars
  <2>2. CASE UNCHANGED boundVars
    BY <1>1, <2>2 DEF Push, Framed, boundVars, voiceVars, markVars
  <2> QED
    BY <2>1, <2>2 DEF Push
<1>5. KeptStore
  BY <1>1, <1>2, <1>4, QuietStore
<1>6. KeepsFiles(a)
  BY <1>2, <1>3 DEF KeepsFiles
<1>7. Others(a) /\ Arrives(a) /\ Minds(a)
  <2>1. CASE Moves(a, "last")
    <3>1. Goes(a, "last")
      BY <1>1, <2>1, MovesTo DEF Places
    <3> QED
      BY <1>2, <1>4, <1>5, <3>1, ToLast
  <2>2. CASE Moves(a, "unqueued")
    <3>1. Goes(a, "unqueued")
      BY <1>1, <2>2, MovesTo DEF Places
    <3>2. /\ Others(a) /\ actor'[a].at = "unqueued" /\ actor'[a].job = Job(a)
          /\ actor'[a].index = actor[a].index /\ actor'[a].then = actor[a].then
          /\ actor'[a].seen = Seen(a) /\ ~actor'[a].putting /\ actor'[a].files = {}
      BY <1>1, <1>2, <1>3, <3>1 DEF Goes, Now, Others
    <3>3. Arrives(a)
      BY <1>2, <1>3, <3>2, AtWork DEF Arrives, WorkFits, WorkPlaces, KindsAt, HandsFit
    <3>4. Minds(a)
      BY <1>1, <1>2, <1>3, <3>2 DEF Minds, Position, HeardBefore, Between, Owns, Unsaid
    <3> QED
      BY <3>2, <3>3, <3>4
  <2> QED
    BY <2>1, <2>2 DEF Push
<1>8. CASE pending' = pending
  BY <1>1, <1>2, <1>4, <1>5, <1>6, <1>7, <1>8, OnwardStep
<1>9. CASE pending' = pending (+) SetToBag({PrefetchJob(a)})
  <2>1. PICK j : j = PrefetchJob(a)
    OBVIOUS
  <2>2. j.kind = "prefetch" /\ j.sid = Job(a).sid /\ j.born = marked /\ j \in Jobs
    <3>1. actor[a].index + 1 \in 0..(Parts - 1)
      BY <1>1, <1>3
    <3>2. marked \in 0..1 /\ Job(a).sid \in 0..MaxSessions
      BY <1>1, <1>3 DEF ShapeInv, Jobs
    <3> QED
      BY <2>1, <3>1, <3>2 DEF PrefetchJob, Jobs, Kinds
  <2>3. JobFits(j)' /\ j.kind \in Kinds /\ j.kind \notin Locking
    BY <1>1, <1>3, <1>4, <2>2 DEF JobFits, Kinds, Locking, Framed
  <2>4. pending' = pending (+) SetToBag({j})
    BY <1>9, <2>1
  <2> QED
    BY <1>1, <1>2, <1>4, <1>5, <1>6, <1>7, <2>3, <2>4, JobAdded
<1> QED
  BY <1>8, <1>9 DEF Push

LEMMA PurgeStep ==
    ASSUME ReadingInv, NEW a \in Actors, Purge(a)
    PROVE  ReadingInv'
<1>1. /\ actor \in [Actors -> ActorStates] /\ ShapeInv /\ Job(a) = actor[a].job
      /\ PlaceFits(actor[a]) /\ HandsFit(actor[a]) /\ ErasureFits(actor[a])
      /\ events \in 0..MaxEvents /\ disk \subseteq Audio /\ lost \subseteq Audio
      /\ ended \subseteq 1..opened /\ opened \in Nat /\ marked \in Nat
  BY Basics
<1>2. /\ actor[a].at = "purge" /\ store' = store /\ disk' = disk
      /\ causes' = causes /\ lost' = lost /\ ended' = ended /\ pending' = EmptyBag /\ Ends(a)
      /\ Framed /\ events' = events
  BY DEF Purge, At, Framed, boundVars, voiceVars, markVars
<1>3. /\ Job(a).kind = "none" /\ ~Owns(actor[a]) /\ ~Unsaid(actor[a]) /\ actor[a].files = {}
      /\ marked = 1
  BY <1>1, <1>2 DEF PlaceFits, KindsAt, Owns, Unsaid, HandsFit, Locking, ErasureFits
<1>4. KeptStore
  BY <1>1, <1>2, QuietStore
<1>5. GoesIdle(a) /\ opened' \in Nat /\ marked' = 1 /\ marked' \in Nat
  BY <1>1, <1>2, <1>3, EndsTo DEF Framed
<1>6. /\ Others(a) /\ FitsPlace(a)' /\ actor'[a].at # "mark"
      /\ Past(actor[a])' /\ ~Owns(actor'[a]) /\ Position(actor[a])'
      /\ HeardBefore(actor[a])' /\ AudioFits(actor[a])' /\ Sent(actor[a])'
  BY <1>5, IdleFits
<1>7. ActorKeeps(a)
  BY <1>3, <1>6 DEF ActorKeeps
<1>8. IsABag(pending') /\ BagToSet(pending') = {}
  BY <1>2, BagEmptied
<1>9. SameLocks
  BY <1>5, <1>8 DEF SameLocks, Held
<1>10. ShapeInv'
  <2>1. /\ opened' \in opened..MaxSessions /\ marked' \in marked..1 /\ marker' \in marker..marked'
        /\ heard' \in [Sids -> 0..Parts] /\ ended' \subseteq 1..opened' /\ disk' \subseteq Audio
    BY <1>1, <1>2, RedisReadingAssumption DEF ShapeInv, Framed
  <2>2. \A k \in BagToSet(pending') : k \in BagToSet(pending) \/ (JobFits(k)' /\ k.kind \in Kinds)
    BY <1>8
  <2>3. \A b \in Actors \ {a} : actor[b].at = "mark" =>
            marked' = marked /\ marker' = marker /\ actor'[a].at # "mark"
    BY <1>2, <1>6 DEF Framed
  <2>4. StoreFits'
    BY <1>4 DEF KeptStore
  <2> QED
    BY <1>1, <1>2, <1>6, <1>8, <2>1, <2>2, <2>3, <2>4, ShapeStep
<1>11. KeepsFiles(a)
  BY <1>2, <1>3 DEF KeepsFiles
<1> QED
  BY <1>2, <1>4, <1>6, <1>7, <1>9, <1>10, <1>11, KeptParts, OrdinaryStep

LEMMA TakeStep ==
    ASSUME ReadingInv, NEW a \in Actors, Take(a)
    PROVE  ReadingInv'
<1>1. /\ actor \in [Actors -> ActorStates] /\ ShapeInv
      /\ events \in 0..MaxEvents /\ disk \subseteq Audio /\ lost \subseteq Audio
      /\ ended \subseteq 1..opened /\ opened \in Nat /\ marked \in Nat /\ Parts \in Nat \ {0}
  BY Basics
<1>2. /\ actor[a] = Idle /\ store' = store /\ disk' = disk
      /\ causes' = causes /\ lost' = lost /\ ended' = ended /\ Framed /\ events' = events
  BY DEF Take, Framed, boundVars, voiceVars, markVars
<1>3. PICK j \in BagToSet(pending) :
          /\ pending' = pending (-) SetToBag({j})
          /\ actor' = [actor EXCEPT ![a].at = "check", ![a].job = j, ![a].index = j.index,
                                    ![a].then = "job"]
  BY DEF Take
<1>4. JobFits(j) /\ j.kind \in Kinds /\ j \in Jobs /\ IsABag(pending) /\ j.index \in 0..(Parts - 1)
  BY <1>1 DEF ShapeInv, JobFits, Jobs
<1>5. /\ IsABag(pending') /\ BagToSet(pending') \subseteq BagToSet(pending)
      /\ BagToSet(pending) \subseteq BagToSet(pending') \cup {j}
      /\ \A k \in BagToSet(pending) \ {j} : pending'[k] = pending[k]
      /\ pending[j] = 1 => j \notin BagToSet(pending')
  BY <1>3, <1>4, JobTaken
<1>6. /\ Others(a) /\ actor'[a].at = "check" /\ actor'[a].job = j /\ actor'[a].seen = NoSession
      /\ ~actor'[a].putting /\ actor'[a].files = {} /\ actor'[a].then = "job"
  <2> DEFINE r == [Idle EXCEPT !.at = "check", !.job = j, !.index = j.index, !.then = "job"]
  <2>1. actor' = [actor EXCEPT ![a] = r]
    BY <1>1, <1>2, <1>3
  <2>2. /\ r \in ActorStates /\ r.at = "check" /\ r.job = j /\ r.seen = NoSession
        /\ r.putting = FALSE /\ r.files = {} /\ r.then = "job"
    BY <1>4, Blank DEF ActorStates, Places, Afters
  <2> HIDE DEF r
  <2> QED
    BY <1>1, <2>1, <2>2 DEF Others
<1>7. KeptStore
  BY <1>1, <1>2, QuietStore
<1>8. FitsPlace(a)' /\ actor'[a].at # "mark"
  <2>1. JobFits(j)'
    BY <1>2, <1>4 DEF JobFits, Framed
  <2>2. PlaceFits(actor[a])'
    BY <1>4, <1>6, <2>1 DEF PlaceFits, WorkFits, WorkPlaces, KindsAt
  <2>3. HandsFit(actor'[a]) /\ ErasureFits(actor[a])'
    BY <1>6 DEF HandsFit, ErasureFits
  <2> QED
    BY <1>1, <1>2, <1>6, <2>2, <2>3, Blank DEF FitsPlace, Framed
<1>9. ShapeInv'
  <2>1. /\ opened' \in opened..MaxSessions /\ marked' \in marked..1 /\ marker' \in marker..marked'
        /\ heard' \in [Sids -> 0..Parts] /\ ended' \subseteq 1..opened' /\ disk' \subseteq Audio
    BY <1>1, <1>2, RedisReadingAssumption DEF ShapeInv, Framed
  <2>2. \A k \in BagToSet(pending') : k \in BagToSet(pending) \/ (JobFits(k)' /\ k.kind \in Kinds)
    BY <1>5
  <2>3. \A b \in Actors \ {a} : actor[b].at = "mark" =>
            marked' = marked /\ marker' = marker /\ actor'[a].at # "mark"
    BY <1>2, <1>8 DEF Framed
  <2>4. StoreFits'
    BY <1>7 DEF KeptStore
  <2> QED
    BY <1>1, <1>2, <1>5, <1>6, <1>8, <2>1, <2>2, <2>3, <2>4, ShapeStep
<1>10. LockInv'
  <2> SUFFICES ASSUME Clean'
               PROVE  /\ OwnerAlone'
                      /\ \A b \in Actors : OwnerMarks(actor[b])' /\ Position(actor[b])'
                      /\ \A k \in BagToSet(pending') :
                            k.kind \in Locking /\ k.sid = store'.sid => store'.generating = "yes"
                      /\ Held' => ~Abandoned'
    BY DEF LockInv
  <2>1. /\ OwnerAlone
        /\ \A b \in Actors : OwnerMarks(actor[b]) /\ Position(actor[b])
        /\ \A k \in BagToSet(pending) :
              k.kind \in Locking /\ k.sid = store.sid => store.generating = "yes"
        /\ Held => ~Abandoned
    BY <1>2, LockFacts
  <2>2. /\ \A b \in Actors \ {a} : actor'[b] = actor[b]
        /\ Owns(actor'[a]) <=> j.kind \in Locking
        /\ ~Owns(actor[a])
    BY <1>2, <1>6, Blank DEF Others, Owns, Locking
  <2>3. j.kind \in Locking => pending[j] = 1 /\ j \notin BagToSet(pending')
    BY <1>5, <2>1 DEF OwnerAlone
  <2>4. /\ \A k \in BagToSet(pending) : k.kind \in Locking /\ k # j /\ j.kind \in Locking => k.sid # j.sid
        /\ \A b \in Actors : Owns(actor[b]) /\ j.kind \in Locking => Job(b).sid # j.sid
    BY <2>1 DEF OwnerAlone
  <2>5. OwnerAlone'
    <3>1. ASSUME NEW b \in Actors, NEW c \in Actors, b # c, Owns(actor'[b]), Owns(actor'[c])
          PROVE  actor'[b].job.sid # actor'[c].job.sid
      <4>1. CASE b = a
        BY <1>6, <2>2, <2>4, <3>1, <4>1 DEF Job
      <4>2. CASE c = a
        BY <1>6, <2>2, <2>4, <3>1, <4>2 DEF Job
      <4>3. CASE b # a /\ c # a
        <5>1. actor'[b] = actor[b] /\ actor'[c] = actor[c]
          BY <2>2, <4>3
        <5> QED
          BY <2>1, <3>1, <5>1 DEF OwnerAlone, Job
      <4> QED
        BY <4>1, <4>2, <4>3
    <3>2. ASSUME NEW b \in Actors, NEW k \in BagToSet(pending'), Owns(actor'[b]), k.kind \in Locking
          PROVE  actor'[b].job.sid # k.sid
      <4>1. k \in BagToSet(pending)
        BY <1>5
      <4>2. CASE b = a
        BY <1>6, <2>2, <2>3, <2>4, <3>2, <4>1, <4>2
      <4>3. CASE b # a
        <5>1. actor'[b] = actor[b]
          BY <2>2, <4>3
        <5> QED
          BY <2>1, <3>2, <4>1, <5>1 DEF OwnerAlone, Job
      <4> QED
        BY <4>2, <4>3
    <3>3. \A i, k \in BagToSet(pending') :
              i # k /\ i.kind \in Locking /\ k.kind \in Locking => i.sid # k.sid
      BY <1>5, <2>1 DEF OwnerAlone
    <3>4. \A k \in BagToSet(pending') : k.kind \in Locking => pending'[k] = 1
      BY <1>5, <2>1, <2>3 DEF OwnerAlone
    <3> QED
      BY <3>1, <3>2, <3>3, <3>4 DEF OwnerAlone, Job
  <2>6. ASSUME NEW b \in Actors PROVE OwnerMarks(actor[b])' /\ Position(actor[b])'
    <3>1. CASE b = a
      <4>1. OwnerMarks(actor[a])'
        BY <1>2, <1>6, <2>1, <2>2 DEF OwnerMarks
      <4>2. Position(actor[a])'
        BY <1>6 DEF Position
      <4> QED
        BY <3>1, <4>1, <4>2
    <3>2. CASE b # a
      BY <1>2, <2>1, <2>2, <3>2 DEF OwnerMarks, Position
    <3> QED
      BY <3>1, <3>2
  <2>7. \A k \in BagToSet(pending') :
            k.kind \in Locking /\ k.sid = store'.sid => store'.generating = "yes"
    BY <1>2, <1>5, <2>1
  <2>8. ASSUME Held', Abandoned' PROVE FALSE
    <3>1. /\ store.generating = "yes"
          /\ \A b \in Actors : ~(Owns(actor'[b]) /\ actor'[b].job.sid = store.sid)
          /\ \A k \in BagToSet(pending') : ~(k.kind \in Locking /\ k.sid = store.sid)
      BY <1>2, <2>8 DEF Abandoned, Job
    <3>2. \A b \in Actors : ~(Owns(actor[b]) /\ Job(b).sid = store.sid)
      BY <2>2, <3>1 DEF Job
    <3>3. \A k \in BagToSet(pending) : ~(k.kind \in Locking /\ k.sid = store.sid)
      BY <1>5, <1>6, <2>2, <3>1
    <3>4. Held
      BY <1>2, <2>8 DEF Framed, Held
    <3> QED
      BY <2>1, <3>1, <3>2, <3>3, <3>4 DEF Abandoned
  <2> QED
    BY <2>5, <2>6, <2>7, <2>8
<1>11. KeepsSession(a)
  BY <1>2, <1>6 DEF KeepsSession, Framed, Past
<1>12. KeepsHeard(a)
  BY <1>2, <1>6, Blank DEF KeepsHeard, SameText, HeardBefore, Between, Unsaid
<1>13. KeepsAudio(a)
  <2>1. AudioFits(actor[a])'
    BY <1>6, Blank DEF AudioFits, ReadyFits
  <2> QED
    BY <1>7, <2>1 DEF KeepsAudio, KeptStore, Straight
<1>14. KeepsFiles(a) /\ Sent(actor[a])'
  BY <1>2, <1>6, Blank DEF KeepsFiles, Sent
<1> QED
  BY <1>2, <1>6, <1>9, <1>10, <1>11, <1>12, <1>13, <1>14, LockedStep

------------------------------------------------------------------------------
(* A new session, the deletion of private data, and the passing of time.   *)

LEMMA CreateStep ==
    ASSUME ReadingInv, NEW a \in Actors, Create(a)
    PROVE  ReadingInv'
<1>1. /\ actor \in [Actors -> ActorStates] /\ actor[a] \in ActorStates /\ ShapeInv
      /\ Job(a) = actor[a].job /\ Seen(a) = actor[a].seen /\ PlaceFits(actor[a]) /\ HandsFit(actor[a])
      /\ events \in 0..MaxEvents /\ disk \subseteq Audio /\ lost \subseteq Audio /\ StoreFits
      /\ ended \subseteq 1..opened /\ opened \in Nat /\ marked \in Nat /\ Seen(a).sid <= opened
      /\ store \in Sessions /\ Parts \in Nat \ {0} /\ MaxSessions \in Nat
  BY Basics, RedisReadingAssumption
<1>2. /\ actor[a].at = "create" /\ ~actor[a].putting /\ disk' = disk /\ pending' = pending
      /\ events' = events /\ causes' = causes /\ heard' = heard /\ misheard' = misheard
      /\ marked' = marked /\ marker' = marker /\ sending' = sending
  BY DEF Create, At, voiceVars, markVars
<1>3. /\ Job(a).kind = "none" /\ ~Owns(actor[a]) /\ ~Unsaid(actor[a]) /\ actor[a].files = {}
  BY <1>1, <1>2 DEF PlaceFits, KindsAt, Owns, Unsaid, HandsFit, Locking
<1>4. CASE Ends(a) /\ UNCHANGED <<store, opened, lost, ended>>
  <2>1. /\ Ends(a) /\ store' = store /\ opened' = opened /\ lost' = lost /\ ended' = ended
    BY <1>4
  <2>2. Framed
    BY <1>2, <2>1 DEF Framed
  <2>3. KeptStore /\ GoesIdle(a)
    BY <1>1, <1>2, <2>1, <2>2, QuietStore, EndsTo
  <2>4. KeepsFiles(a)
    BY <1>2, <1>3, <2>1 DEF KeepsFiles
  <2> QED
    BY <1>1, <1>2, <1>3, <2>2, <2>3, <2>4, IdleStep
<1>5. CASE /\ opened < MaxSessions
           /\ opened' = opened + 1
           /\ store' = [NoSession EXCEPT !.sid = opened + 1, !.generating = "yes"]
           /\ lost' = lost \cup store.files
           /\ ended' = ended \cup ({store.sid} \ {0})
           /\ actor' = [actor EXCEPT ![a].at = "current", ![a].job = ChunkJob(opened + 1)]
  <2>1. PICK new \in Sids : new = opened + 1 /\ new \in 0..MaxSessions /\ new \notin 1..opened
                        /\ new \in 1..new /\ 1..opened \subseteq 1..new
    <3>1. opened + 1 \in 1..MaxSessions /\ opened + 1 \in 0..MaxSessions /\ opened + 1 \notin 1..opened
          /\ opened + 1 \in 1..(opened + 1) /\ 1..opened \subseteq 1..(opened + 1)
      BY <1>1, <1>5
    <3> QED
      BY <3>1 DEF Sids
  <2>2. /\ opened' = new /\ lost' = lost \cup store.files /\ ended' = ended \cup ({store.sid} \ {0})
    BY <1>5, <2>1
  <2>3. /\ store' \in Sessions /\ store'.sid = new /\ store'.index = 0 /\ store'.generating = "yes"
        /\ store'.prefetch = "none" /\ store'.files = {} /\ new # 0
    <3> DEFINE s == [NoSession EXCEPT !.sid = new, !.generating = "yes"]
    <3>1. store' = s
      BY <1>5, <2>1
    <3>2. /\ s \in Sessions /\ s.sid = new /\ s.index = 0 /\ s.generating = "yes"
          /\ s.prefetch = "none" /\ s.files = {}
      BY <2>1, Blank DEF Sessions
    <3>3. new # 0
      BY <1>1, <2>1
    <3> HIDE DEF s
    <3> QED
      BY <3>1, <3>2, <3>3
  <2>4. PICK job \in Jobs : /\ job = ChunkJob(new) /\ job.kind = "chunk" /\ job.sid = new
                            /\ job.index = 0 /\ job.born = 0
    <3>1. ChunkJob(new) \in Jobs
      BY <2>1, Blank DEF ChunkJob, Jobs, Kinds
    <3> QED
      BY <2>1, <3>1, Blank DEF ChunkJob, Jobs
  <2>5. /\ Others(a) /\ actor'[a].at = "current" /\ actor'[a].job = job
        /\ actor'[a].seen = Seen(a) /\ ~actor'[a].putting /\ actor'[a].files = {}
        /\ actor'[a].then = actor[a].then /\ actor[a].then # "job"
    <3> DEFINE r == [actor[a] EXCEPT !.at = "current", !.job = job]
    <3>1. actor' = [actor EXCEPT ![a] = r]
      BY <1>5, <2>1, <2>4
    <3>2. /\ r \in ActorStates /\ r.at = "current" /\ r.job = job /\ r.seen = actor[a].seen
          /\ r.putting = actor[a].putting /\ r.files = actor[a].files /\ r.then = actor[a].then
      BY <1>1 DEF ActorStates, Places
    <3> HIDE DEF r
    <3> QED
      BY <1>1, <1>2, <1>3, <3>1, <3>2 DEF Others, PlaceFits, WorkFits, Kinds
  <2>6. /\ \A b \in Actors \ {a} : actor'[b] = actor[b]
        /\ \A b \in Actors : actor[b].job.kind \in Locking => actor[b].job.sid \in 1..opened
        /\ \A j \in BagToSet(pending) : j.kind \in Locking => j.sid \in 1..opened
        /\ Owns(actor'[a])
    BY <1>1, <2>4, <2>5 DEF Others, ShapeInv, PlaceFits, JobFits, Locking, Owns
  <2>7. ShapeInv'
    <3>1. FitsPlace(a)' /\ actor'[a].at # "mark"
      <4>1. JobFits(job)'
        <5>1. job \in Jobs /\ job.sid \in 1..opened' /\ job.index = 0 /\ job.born <= marked'
          BY <1>1, <1>2, <2>1, <2>2, <2>4
        <5> QED
          BY <5>1 DEF JobFits
      <4>2. PlaceFits(actor[a])'
        BY <2>4, <2>5, <4>1 DEF PlaceFits, WorkFits, WorkPlaces, KindsAt, Locking
      <4>3. HandsFit(actor'[a]) /\ ErasureFits(actor[a])'
        BY <2>5 DEF HandsFit, ErasureFits
      <4>4. actor'[a].seen.sid <= opened'
        BY <1>1, <2>1, <2>2, <2>5 DEF ActorStates, Sessions
      <4> QED
        BY <2>5, <4>2, <4>3, <4>4 DEF FitsPlace
    <3>2. StoreFits'
      BY <1>1, <2>1, <2>2, <2>3 DEF StoreFits
    <3>3. /\ opened' \in opened..MaxSessions /\ marked' \in marked..1 /\ marker' \in marker..marked'
          /\ heard' \in [Sids -> 0..Parts] /\ disk' \subseteq Audio /\ events' \in 0..MaxEvents
      BY <1>1, <1>2, <2>1, <2>2, RedisReadingAssumption DEF ShapeInv
    <3>4. ended' \subseteq 1..opened'
      <4>1. store.sid # 0 => store.sid \in 1..opened
        BY <1>1 DEF StoreFits, Sessions
      <4> QED
        BY <1>1, <2>1, <2>2, <4>1
    <3>5. lost' \subseteq Audio
      BY <1>1, <2>2 DEF Sessions
    <3>6. /\ IsABag(pending')
          /\ \A j \in BagToSet(pending') : j \in BagToSet(pending) \/ (JobFits(j)' /\ j.kind \in Kinds)
      BY <1>1, <1>2 DEF ShapeInv
    <3>7. \A b \in Actors \ {a} : actor[b].at = "mark" =>
              marked' = marked /\ marker' = marker /\ actor'[a].at # "mark"
      BY <1>2, <3>1
    <3> QED
      BY <1>1, <2>5, <3>1, <3>2, <3>3, <3>4, <3>5, <3>6, <3>7, ShapeStep
  <2>8. SessionsInv'
    <3>1. StoppedStaysStopped'
      BY <1>1, <2>1, <2>2, <2>3 DEF StoppedStaysStopped, StoreFits, Sessions
    <3>2. ASSUME "overlap" \notin causes'
          PROVE  /\ \A s \in 1..opened' : s = store'.sid \/ s \in ended'
                 /\ \A b \in Actors : Past(actor[b])'
      <4>1. /\ \A s \in 1..opened : s = store.sid \/ s \in ended
            /\ \A b \in Actors : Past(actor[b])
        BY <1>2, <3>2 DEF ReadingInv, SessionsInv
      <4>2. \A s \in 1..opened' : s = new \/ s \in 1..opened
        BY <1>1, <2>1, <2>2
      <4>3. \A s \in 1..opened : s # 0
        BY <1>1
      <4>4. \A s \in 1..opened' : s = store'.sid \/ s \in ended'
        BY <2>2, <2>3, <4>1, <4>2, <4>3
      <4>5. \A b \in Actors : Past(actor[b])'
        BY <2>2, <2>5, <2>6, <4>1 DEF Past
      <4> QED
        BY <4>4, <4>5
    <3> QED
      BY <3>1, <3>2 DEF SessionsInv
  <2>9. LockInv'
    <3> SUFFICES ASSUME Clean'
                 PROVE  /\ OwnerAlone'
                        /\ \A b \in Actors : OwnerMarks(actor[b])' /\ Position(actor[b])'
                        /\ \A k \in BagToSet(pending') :
                              k.kind \in Locking /\ k.sid = store'.sid => store'.generating = "yes"
                        /\ ~Abandoned'
      BY DEF LockInv
    <3>1. OwnerAlone
      BY <1>2, LockFacts
    <3>2. \A b \in Actors \ {a} : Owns(actor'[b]) => Owns(actor[b]) /\ actor'[b].job.sid # new
      BY <2>1, <2>6 DEF Owns
    <3>3. OwnerAlone'
      <4>1. ASSUME NEW b \in Actors, NEW c \in Actors, b # c, Owns(actor'[b]), Owns(actor'[c])
            PROVE  actor'[b].job.sid # actor'[c].job.sid
        <5>1. CASE b = a
          BY <2>4, <2>5, <3>2, <4>1, <5>1
        <5>2. CASE c = a
          BY <2>4, <2>5, <3>2, <4>1, <5>2
        <5>3. CASE b # a /\ c # a
          <6>1. actor'[b] = actor[b] /\ actor'[c] = actor[c]
            BY <2>6, <5>3
          <6> QED
            BY <3>1, <4>1, <6>1 DEF OwnerAlone, Job
        <5> QED
          BY <5>1, <5>2, <5>3
      <4>2. ASSUME NEW b \in Actors, NEW k \in BagToSet(pending'), Owns(actor'[b]), k.kind \in Locking
            PROVE  actor'[b].job.sid # k.sid
        <5>1. CASE b = a
          BY <1>2, <2>1, <2>4, <2>5, <2>6, <4>2, <5>1
        <5>2. CASE b # a
          <6>1. actor'[b] = actor[b] /\ k \in BagToSet(pending)
            BY <1>2, <2>6, <5>2
          <6> QED
            BY <3>1, <4>2, <6>1 DEF OwnerAlone, Job
        <5> QED
          BY <5>1, <5>2
      <4>3. /\ \A i, k \in BagToSet(pending') :
                  i # k /\ i.kind \in Locking /\ k.kind \in Locking => i.sid # k.sid
            /\ \A k \in BagToSet(pending') : k.kind \in Locking => pending'[k] = 1
        BY <1>2, <3>1 DEF OwnerAlone
      <4> QED
        BY <4>1, <4>2, <4>3 DEF OwnerAlone, Job
    <3>4. ASSUME NEW b \in Actors PROVE OwnerMarks(actor[b])' /\ Position(actor[b])'
      <4>1. OwnerMarks(actor[b])'
        BY <2>3 DEF OwnerMarks
      <4>2. CASE b = a
        BY <2>4, <2>5, <4>1, <4>2 DEF Position
      <4>3. CASE b # a
        <5>1. actor'[b] = actor[b]
          BY <2>6, <4>3
        <5>2. actor[b].job.kind \in Locking => actor[b].job.sid # store'.sid
          BY <2>1, <2>3, <2>6
        <5> QED
          BY <4>1, <5>1, <5>2 DEF Position, Locking
      <4> QED
        BY <4>2, <4>3
    <3>5. ~Abandoned'
      BY <2>3, <2>4, <2>5, <2>6 DEF Abandoned, Job
    <3> QED
      BY <2>3, <3>3, <3>4, <3>5
  <2>10. HeardInv'
    <3>1. \A s \in Sids : s > opened => heard[s] = 0
      BY DEF ReadingInv, HeardInv
    <3>2. new > opened /\ \A s \in Sids : s > opened' => s > opened
      BY <1>1, <2>1, <2>2 DEF Sids
    <3>3. \A s \in Sids : s > opened' => heard'[s] = 0
      BY <1>2, <3>1, <3>2
    <3>4. heard'[store'.sid] = 0
      BY <1>2, <2>1, <2>3, <3>1, <3>2
    <3>5. ASSUME Clean', "crash" \notin causes', NEW b \in Actors PROVE HeardBefore(actor[b])'
      <4>1. HeardBefore(actor[b])
        BY <1>2, <3>5 DEF ReadingInv, HeardInv, Clean
      <4>2. CASE b = a
        BY <2>5, <4>2 DEF HeardBefore, Between
      <4>3. CASE b # a
        BY <1>2, <2>6, <4>1, <4>3 DEF HeardBefore
      <4> QED
        BY <4>2, <4>3
    <3> QED
      BY <2>3, <3>3, <3>4, <3>5 DEF HeardInv
  <2>11. KeepsAudio(a)
    <3> SUFFICES ASSUME Straight PROVE ReadyFits(store') /\ AudioFits(actor[a])'
      BY DEF KeepsAudio, Straight
    <3>1. AudioFits(actor[a])
      BY <1>2 DEF Straight, ReadingInv, AudioInv
    <3> QED
      BY <1>1, <2>3, <2>5, <3>1 DEF AudioFits, ReadyFits
  <2>12. AudioInv'
    BY <1>2, <2>2, <2>5, <2>11, AudioStep DEF ReadingInv
  <2>13. SendingInv'
    <3>1. Sent(actor[a])'
      BY <2>5 DEF Sent
    <3> QED
      BY <1>2, <2>5, <3>1, SendingStep DEF ReadingInv
  <2>14. FilesAccounted'
    <3>1. KeepsFiles(a)
      BY <1>2, <1>3, <2>2 DEF KeepsFiles
    <3> QED
      BY <2>5, <3>1, FilesStep DEF ReadingInv
  <2>15. PartsOnceInOrder'
    BY <1>2, VoicesStep DEF ReadingInv
  <2> QED
    BY <2>7, <2>8, <2>9, <2>10, <2>12, <2>13, <2>14, <2>15 DEF ReadingInv
<1> QED
  BY <1>4, <1>5 DEF Create

LEMMA EraseStep ==
    ASSUME ReadingInv, NEW a \in Actors, Erase(a)
    PROVE  ReadingInv'
<1>1. /\ actor \in [Actors -> ActorStates] /\ ShapeInv
      /\ disk \subseteq Audio /\ lost \subseteq Audio /\ StoreFits /\ NoJob \in Jobs
      /\ ended \subseteq 1..opened /\ opened \in Nat
  BY Basics, Blank
<1>2. /\ store' = store /\ disk' = disk /\ pending' = pending /\ causes' = causes
      /\ heard' = heard /\ misheard' = misheard /\ ended' = ended /\ lost' = lost
      /\ marked = 0 /\ marked' = 1 /\ marker' = marker /\ sending' = sending
  BY DEF Erase, voiceVars
<1>3. /\ actor[a] = Idle
      /\ Now(a, "mark", NoJob, 0, NoSession, FALSE, {}, "idle")
      /\ events' \in 0..MaxEvents /\ opened' = opened
  <2>1. Starts(a, "erase", "mark", NoJob) /\ "mark" \in Places
    BY DEF Erase, Places
  <2> QED
    BY <1>1, <2>1, StartsTo
<1>4. /\ Others(a) /\ actor'[a].at = "mark" /\ actor'[a].job = NoJob /\ actor'[a].seen = NoSession
      /\ ~actor'[a].putting /\ actor'[a].files = {} /\ actor'[a].then = "idle"
  BY <1>3 DEF Now, Others
<1>5. ShapeInv'
  <2>1. marker = 0 /\ marker' \in marker..marked' /\ marked' \in marked..1 /\ opened' \in opened..MaxSessions
    BY <1>1, <1>2, <1>3, RedisReadingAssumption DEF ShapeInv
  <2>2. FitsPlace(a)'
    <3>1. JobFits(NoJob)'
      BY <1>2, Blank DEF JobFits
    <3>2. PlaceFits(actor[a])'
      BY <1>4, <3>1, Blank DEF PlaceFits, WorkFits, WorkPlaces, KindsAt
    <3>3. HandsFit(actor'[a]) /\ ErasureFits(actor[a])'
      BY <1>2, <1>4, <2>1 DEF HandsFit, ErasureFits
    <3> QED
      BY <1>1, <1>3, <1>4, <3>2, <3>3, Blank DEF FitsPlace
  <2>3. \A b \in Actors : actor[b].at # "mark"
    BY <1>1, <1>2 DEF ShapeInv, ErasureFits
  <2>4. /\ StoreFits' /\ IsABag(pending') /\ heard' \in [Sids -> 0..Parts]
        /\ \A j \in BagToSet(pending') : j \in BagToSet(pending) \/ (JobFits(j)' /\ j.kind \in Kinds)
    BY <1>1, <1>2, <1>3 DEF ShapeInv, StoreFits
  <2> QED
    BY <1>1, <1>2, <1>3, <1>4, <2>1, <2>2, <2>3, <2>4, ShapeStep
<1>6. SessionsInv'
  <2>1. KeepsSession(a)
    BY <1>2, <1>3, <1>4 DEF KeepsSession, Past
  <2> QED
    BY <1>1, <1>2, <1>4, <1>5, <2>1, SessionsStep DEF ReadingInv, ShapeInv
<1>7. LockInv'
  <2>1. KeepsLock(a)
    BY <1>2, <1>3, <1>4, Blank DEF KeepsLock, SameText, Owns, Locking, Position
  <2> QED
    BY <1>1, <1>2, <1>4, <1>5, <2>1, SameQueue, LockStep DEF ReadingInv, Held
<1>8. HeardInv'
  <2>1. KeepsHeard(a)
    BY <1>2, <1>3, <1>4, Blank DEF KeepsHeard, SameText, HeardBefore, Unsaid
  <2> QED
    BY <1>2, <1>3, <1>4, <1>5, <2>1, HeardStep DEF ReadingInv, ShapeInv
<1>9. AudioInv'
  <2>1. AudioFits(actor[a])'
    BY <1>4, Blank DEF AudioFits, ReadyFits
  <2>2. KeepsAudio(a)
    BY <1>2, <2>1 DEF KeepsAudio, ReadingInv, AudioInv
  <2> QED
    BY <1>2, <1>4, <2>2, AudioStep DEF ReadingInv
<1>10. SendingInv' /\ FilesAccounted' /\ PartsOnceInOrder'
  <2>1. Sent(actor[a])'
    BY <1>4 DEF Sent
  <2>2. KeepsFiles(a)
    BY <1>2, <1>3, Blank DEF KeepsFiles
  <2> QED
    BY <1>2, <1>4, <2>1, <2>2, SendingStep, FilesStep, VoicesStep DEF ReadingInv
<1> QED
  BY <1>5, <1>6, <1>7, <1>8, <1>9, <1>10 DEF ReadingInv

LEMMA SetMarkerStep ==
    ASSUME ReadingInv, NEW a \in Actors, SetMarker(a)
    PROVE  ReadingInv'
<1>1. /\ actor \in [Actors -> ActorStates] /\ ShapeInv /\ Job(a) = actor[a].job /\ Seen(a) = actor[a].seen
      /\ PlaceFits(actor[a]) /\ HandsFit(actor[a]) /\ ErasureFits(actor[a])
      /\ disk \subseteq Audio /\ lost \subseteq Audio /\ StoreFits /\ Seen(a).sid <= opened
      /\ ended \subseteq 1..opened /\ opened \in Nat /\ events \in 0..MaxEvents
  BY Basics
<1>2. /\ actor[a].at = "mark" /\ ~actor[a].putting
      /\ store' = store /\ disk' = disk /\ pending' = pending /\ causes' = causes
      /\ heard' = heard /\ misheard' = misheard /\ ended' = ended /\ lost' = lost
      /\ opened' = opened /\ events' = events
      /\ marked' = marked /\ marker' = marked
      /\ sending' = {Job(b).sid : b \in {b \in Actors : actor[b].at = "send"}}
      /\ Moves(a, "erasing")
  BY DEF SetMarker, At, voiceVars, boundVars
<1>3. /\ Job(a).kind = "none" /\ ~Owns(actor[a]) /\ ~Unsaid(actor[a]) /\ actor[a].files = {}
      /\ actor[a].files = {} /\ marked = 1
  BY <1>1, <1>2 DEF PlaceFits, KindsAt, Owns, Unsaid, HandsFit, Locking, ErasureFits
<1>4. /\ Others(a) /\ actor'[a].at = "erasing" /\ actor'[a].job = Job(a) /\ actor'[a].seen = Seen(a)
      /\ ~actor'[a].putting /\ actor'[a].files = {} /\ actor'[a].then = actor[a].then
  <2>1. Goes(a, "erasing")
    BY <1>1, <1>2, MovesTo DEF Places
  <2> QED
    BY <1>1, <1>2, <1>3, <2>1 DEF Goes, Now, Others
<1>5. ShapeInv'
  <2>1. marker' \in marker..marked' /\ marked' \in marked..1 /\ opened' \in opened..MaxSessions
    BY <1>1, <1>2, RedisReadingAssumption DEF ShapeInv
  <2>2. FitsPlace(a)' /\ actor'[a].at # "mark"
    <3>1. Arrives(a)
      BY <1>2, <1>3, <1>4, AtWork DEF Arrives, WorkFits, WorkPlaces, KindsAt, HandsFit
    <3> QED
      BY <1>2, <3>1, ArrivesFits
  <2>3. \A b \in Actors \ {a} : actor[b].at # "mark"
    BY <1>1, <1>2 DEF ShapeInv
  <2>4. /\ StoreFits' /\ IsABag(pending') /\ heard' \in [Sids -> 0..Parts]
        /\ \A j \in BagToSet(pending') : j \in BagToSet(pending) \/ (JobFits(j)' /\ j.kind \in Kinds)
    BY <1>1, <1>2 DEF ShapeInv, StoreFits
  <2> QED
    BY <1>1, <1>2, <1>4, <2>1, <2>2, <2>3, <2>4, ShapeStep
<1>6. SessionsInv'
  <2>1. KeepsSession(a)
    BY <1>2, <1>4 DEF KeepsSession, Past
  <2> QED
    BY <1>1, <1>2, <1>4, <1>5, <2>1, SessionsStep DEF ReadingInv, ShapeInv
<1>7. LockInv'
  <2>1. KeepsLock(a)
    BY <1>2, <1>3, <1>4 DEF KeepsLock, SameText, Owns, Locking, Position
  <2> QED
    BY <1>1, <1>2, <1>4, <1>5, <2>1, SameQueue, LockStep DEF ReadingInv, Held
<1>8. HeardInv'
  <2>1. KeepsHeard(a)
    BY <1>2, <1>3, <1>4 DEF KeepsHeard, SameText, HeardBefore
  <2> QED
    BY <1>2, <1>4, <1>5, <2>1, HeardStep DEF ReadingInv, ShapeInv
<1>9. AudioInv'
  <2>1. KeepsAudio(a)
    <3> SUFFICES ASSUME Straight PROVE ReadyFits(store') /\ AudioFits(actor[a])'
      BY DEF KeepsAudio, Straight
    <3>1. ReadyFits(store) /\ AudioFits(actor[a])
      BY <1>2 DEF Straight, ReadingInv, AudioInv
    <3> QED
      BY <1>1, <1>2, <1>4, <3>1 DEF AudioFits
  <2> QED
    BY <1>2, <1>4, <2>1, AudioStep DEF ReadingInv
<1>10. SendingInv'
  <2> SUFFICES ASSUME NEW b \in Actors, actor'[b].at = "send" PROVE actor'[b].job.sid \in sending'
    BY DEF SendingInv, Sent
  <2>1. actor'[b] = actor[b]
    BY <1>4 DEF Others
  <2> QED
    BY <1>2, <2>1 DEF Job
<1>11. FilesAccounted' /\ PartsOnceInOrder'
  <2>1. KeepsFiles(a)
    BY <1>2, <1>3 DEF KeepsFiles
  <2> QED
    BY <1>2, <1>4, <2>1, FilesStep, VoicesStep DEF ReadingInv
<1> QED
  BY <1>5, <1>6, <1>7, <1>8, <1>9, <1>10, <1>11 DEF ReadingInv

LEMMA ElapseStep ==
    ASSUME ReadingInv, Elapse
    PROVE  ReadingInv'
<1>1. /\ actor \in [Actors -> ActorStates] /\ ShapeInv /\ store \in Sessions
      /\ store.sid <= opened /\ (store.sid = 0 => store = NoSession)
  BY DEF ReadingInv, ShapeInv
<1>2. /\ store.generating = "yes" /\ store' = Aged(store) /\ causes' = causes \cup {"stale"}
      /\ actor' = [b \in Actors |-> [actor[b] EXCEPT !.seen = Aged(actor[b].seen)]]
      /\ disk' = disk /\ pending' = pending /\ heard' = heard /\ misheard' = misheard
      /\ ended' = ended /\ lost' = lost /\ marked' = marked /\ marker' = marker /\ sending' = sending
      /\ events' \in 0..MaxEvents /\ opened' = opened
  BY <1>1, EventBound DEF Elapse, voiceVars, markVars
<1>3. /\ store' \in Sessions /\ store'.sid = store.sid /\ store.sid # 0 /\ store'.index = store.index
      /\ store'.prefetch = store.prefetch /\ store'.pindex = store.pindex /\ store'.files = store.files
  BY <1>1, <1>2, AgedFields, Blank
<1>4. ASSUME NEW b \in Actors
      PROVE  /\ actor'[b] \in ActorStates /\ actor'[b].at = actor[b].at /\ actor'[b].job = actor[b].job
             /\ actor'[b].index = actor[b].index /\ actor'[b].putting = actor[b].putting
             /\ actor'[b].files = actor[b].files /\ actor'[b].then = actor[b].then
             /\ actor'[b].seen.sid = actor[b].seen.sid
             /\ actor'[b].seen.prefetch = actor[b].seen.prefetch
             /\ actor'[b].seen.pindex = actor[b].seen.pindex
             /\ actor'[b].seen.files = actor[b].seen.files
             /\ actor[b] = Idle => actor'[b] = Idle
  <2>1. actor[b] \in ActorStates /\ actor[b].seen \in Sessions
    BY <1>1 DEF ActorStates
  <2>2. PICK s \in Sessions : /\ s = Aged(actor[b].seen) /\ s.sid = actor[b].seen.sid
                              /\ s.prefetch = actor[b].seen.prefetch /\ s.pindex = actor[b].seen.pindex
                              /\ s.files = actor[b].seen.files
    BY <2>1, AgedFields
  <2> DEFINE r == [actor[b] EXCEPT !.seen = s]
  <2>3. actor'[b] = r
    BY <1>2, <2>2
  <2>4. /\ r \in ActorStates /\ r.at = actor[b].at /\ r.job = actor[b].job
        /\ r.index = actor[b].index /\ r.putting = actor[b].putting
        /\ r.files = actor[b].files /\ r.then = actor[b].then /\ r.seen = s
    BY <2>1 DEF ActorStates
  <2>5. ASSUME actor[b] = Idle PROVE r = Idle
    <3>1. s = NoSession
      BY <2>2, <2>5, Blank DEF Aged
    <3>2. [Idle EXCEPT !.seen = NoSession] = Idle
      BY DEF Idle, NoSession, NoJob
    <3> QED
      BY <2>5, <3>1, <3>2
  <2> HIDE DEF r
  <2> QED
    BY <2>2, <2>3, <2>4, <2>5
<1>5. ShapeInv'
  <2>1. actor' \in [Actors -> ActorStates]
    <3>1. DOMAIN actor' = Actors /\ actor' = [b \in Actors |-> actor'[b]]
      BY <1>2
    <3> QED
      BY <1>4, <3>1
  <2>2. ASSUME NEW b \in Actors
        PROVE  /\ PlaceFits(actor[b])' /\ HandsFit(actor'[b]) /\ ErasureFits(actor[b])'
               /\ actor'[b].seen.sid <= opened'
    <3>1. /\ PlaceFits(actor[b]) /\ HandsFit(actor[b]) /\ ErasureFits(actor[b])
          /\ actor[b].seen.sid <= opened
      BY <1>1 DEF ShapeInv
    <3>2. PlaceFits(actor[b])'
      BY <1>2, <1>4, <3>1 DEF PlaceFits, WorkFits, JobFits
    <3>3. HandsFit(actor'[b]) /\ ErasureFits(actor[b])'
      BY <1>2, <1>4, <3>1 DEF HandsFit, HasStarted, ErasureFits
    <3> QED
      BY <1>2, <1>4, <3>1, <3>2, <3>3
  <2>3. \A b, c \in Actors : b # c => ~(actor'[b].at = "mark" /\ actor'[c].at = "mark")
    BY <1>1, <1>4 DEF ShapeInv
  <2>4. \A j \in BagToSet(pending') : JobFits(j)' /\ j.kind \in Kinds
    BY <1>1, <1>2 DEF ShapeInv, JobFits
  <2> QED
    BY <1>1, <1>2, <1>3, <2>1, <2>2, <2>3, <2>4 DEF ShapeInv
<1>6. SessionsInv'
  <2>1. \A b \in Actors : Past(actor[b]) => Past(actor[b])'
    BY <1>2, <1>4 DEF Past
  <2> QED
    BY <1>2, <1>3, <2>1 DEF ReadingInv, SessionsInv, StoppedStaysStopped
<1>7. ~Clean'
  BY <1>2 DEF Clean
<1>8. LockInv' /\ HeardInv'
  <2>1. LockInv'
    BY <1>7 DEF LockInv
  <2>2. \A s \in Sids : s > opened' => heard'[s] = 0
    BY <1>2 DEF ReadingInv, HeardInv
  <2>3. HeardInv'
    BY <1>7, <2>2 DEF HeardInv
  <2> QED
    BY <2>1, <2>3
<1>9. AudioInv'
  <2> SUFFICES ASSUME Straight
               PROVE  ReadyFits(store') /\ \A b \in Actors : AudioFits(actor[b])'
    BY DEF AudioInv, Straight
  <2>1. ReadyFits(store) /\ \A b \in Actors : AudioFits(actor[b])
    BY <1>2 DEF Straight, ReadingInv, AudioInv
  <2>2. ReadyFits(store')
    BY <1>3, <2>1 DEF ReadyFits
  <2>3. ASSUME NEW b \in Actors PROVE AudioFits(actor[b])'
    <3>1. ReadyFits(actor'[b].seen)
      BY <1>4, <2>1 DEF AudioFits, ReadyFits
    <3> QED
      BY <1>2, <1>4, <2>1, <3>1 DEF AudioFits, OwnAudio
  <2> QED
    BY <2>2, <2>3
<1>10. SendingInv'
  BY <1>2, <1>4 DEF ReadingInv, SendingInv, Sent
<1>11. FilesAccounted'
  <2>1. FilesAccounted' <=>
            \A f \in disk' : \/ f \in store'.files \cup lost'
                             \/ \E b \in Actors : f \in actor'[b].files
    BY DEF FilesAccounted, Seen
  <2>2. \A b \in Actors : actor'[b].files = actor[b].files
    BY <1>4
  <2> QED
    BY <1>2, <1>3, <2>1, <2>2, AllHands DEF ReadingInv
<1>12. PartsOnceInOrder'
  BY <1>2, VoicesStep DEF ReadingInv
<1> QED
  BY <1>5, <1>6, <1>8, <1>9, <1>10, <1>11, <1>12 DEF ReadingInv

------------------------------------------------------------------------------
(* The invariant, from the first state on.                                 *)

LEMMA ReadingStarts ==
    ASSUME ReadingInit
    PROVE  ReadingInv
<1>1. Parts \in Nat \ {0} /\ MaxSessions \in Nat \ {0} /\ MaxEvents \in Nat
  BY RedisReadingAssumption
<1>2. /\ pending = EmptyBag /\ disk = {} /\ actor = [a \in Actors |-> Idle]
      /\ marked = 0 /\ marker = 0 /\ sending = {} /\ opened = 1 /\ events = 0
      /\ causes = {} /\ misheard = {} /\ ended = {} /\ lost = {}
      /\ heard = [s \in Sids |-> IF s = 1 THEN store.index ELSE 0]
  BY DEF ReadingInit
<1>3. PICK i \in 0..Parts : store = [NoSession EXCEPT !.sid = 1, !.index = i]
  BY DEF ReadingInit
<1>4. /\ store \in Sessions /\ store.sid = 1 /\ store.index \in 0..Parts
      /\ store.generating = "no" /\ store.prefetch = "none" /\ store.files = {}
  <2> DEFINE s == [NoSession EXCEPT !.sid = 1, !.index = i]
  <2>1. store = s
    BY <1>3
  <2>2. /\ s \in Sessions /\ s.sid = 1 /\ s.index = i /\ s.generating = "no"
        /\ s.prefetch = "none" /\ s.files = {}
    <3>1. 1 \in 0..MaxSessions
      BY <1>1
    <3> QED
      BY <3>1, Blank DEF Sessions
  <2> HIDE DEF s
  <2> QED
    BY <2>1, <2>2
<1>5. /\ actor \in [Actors -> ActorStates]
      /\ \A a \in Actors : actor[a] = Idle /\ Job(a) = NoJob
  BY <1>2, Blank DEF Job
<1>6. BagToSet(pending) = {} /\ IsABag(pending)
  BY <1>2, BagEmptied
<1>7. 1 \in Sids /\ heard[1] = store.index /\ (\A s \in Sids \ {1} : heard[s] = 0)
      /\ heard \in [Sids -> 0..Parts]
  <2>1. 1 \in Sids /\ store.index \in 0..Parts /\ 0 \in 0..Parts
    BY <1>1, <1>4 DEF Sids
  <2> QED
    BY <1>2, <2>1
<1>8. ShapeInv
  <2>1. JobFits(NoJob)
    BY <1>2, Blank DEF JobFits
  <2>2. \A a \in Actors : PlaceFits(actor[a]) /\ HandsFit(actor[a]) /\ ErasureFits(actor[a])
    BY <1>5, <2>1, Blank DEF PlaceFits, WorkFits, WorkPlaces, HandsFit, ErasureFits, KindsAt
  <2>3. \A a \in Actors : actor[a].seen.sid <= opened /\ actor[a].at # "mark"
    BY <1>2, <1>5, Blank
  <2> QED
    BY <1>1, <1>2, <1>4, <1>5, <1>6, <1>7, <2>2, <2>3 DEF ShapeInv
<1>9. SessionsInv
  BY <1>2, <1>4, <1>5, Blank DEF SessionsInv, StoppedStaysStopped, Past
<1>10. LockInv
  BY <1>2, <1>4, <1>5, <1>6, Blank
  DEF LockInv, OwnerAlone, OwnerMarks, Owns, Locking, Position, Abandoned
<1>11. HeardInv
  <2>1. \A s \in Sids : s > opened => heard[s] = 0
    BY <1>2, <1>7 DEF Sids
  <2>2. \A a \in Actors : HeardBefore(actor[a])
    BY <1>5, Blank DEF HeardBefore
  <2>3. heard[store.sid] <= store.index /\ heard[store.sid] = store.index
    BY <1>4, <1>7
  <2> QED
    BY <2>1, <2>2, <2>3 DEF HeardInv
<1>12. AudioInv /\ SendingInv
  BY <1>4, <1>5, Blank DEF AudioInv, AudioFits, ReadyFits, SendingInv, Sent
<1>13. FilesAccounted /\ PartsOnceInOrder
  BY <1>2 DEF FilesAccounted, PartsOnceInOrder
<1> QED
  BY <1>8, <1>9, <1>10, <1>11, <1>12, <1>13 DEF ReadingInv

LEMMA ReadingStutters ==
    ASSUME ReadingInv, UNCHANGED readingVars
    PROVE  ReadingInv'
<1>1. /\ store' = store /\ disk' = disk /\ actor' = actor /\ pending' = pending
      /\ opened' = opened /\ events' = events /\ causes' = causes
      /\ heard' = heard /\ misheard' = misheard /\ ended' = ended /\ lost' = lost
      /\ marked' = marked /\ marker' = marker /\ sending' = sending
  BY DEF readingVars, boundVars, voiceVars, markVars
<1>2. ShapeInv'
  BY <1>1 DEF ReadingInv, ShapeInv, PlaceFits, JobFits, ErasureFits
<1>3. SessionsInv'
  BY <1>1 DEF ReadingInv, SessionsInv, StoppedStaysStopped, Past
<1>4. LockInv'
  BY <1>1 DEF ReadingInv, LockInv, Clean, OwnerAlone, OwnerMarks, Position, Held, Abandoned, Job
<1>5. HeardInv'
  BY <1>1 DEF ReadingInv, HeardInv, Clean, HeardBefore, Job
<1>6. AudioInv' /\ SendingInv'
  BY <1>1 DEF ReadingInv, AudioInv, AudioFits, SendingInv, Sent
<1>7. FilesAccounted' /\ PartsOnceInOrder'
  BY <1>1 DEF ReadingInv, FilesAccounted, PartsOnceInOrder, Seen
<1> QED
  BY <1>2, <1>3, <1>4, <1>5, <1>6, <1>7 DEF ReadingInv

LEMMA ReadingSteps ==
    ASSUME ReadingInv, ReadingNext
    PROVE  ReadingInv'
<1>1. ASSUME NEW a \in Actors, SessionStep(a) PROVE ReadingInv'
  BY <1>1, ReadSessionStep, ReadForCleanupStep, DeleteSessionStep DEF SessionStep
<1>2. ASSUME NEW a \in Actors, HandlerStep(a) PROVE ReadingInv'
  BY <1>2, CommandStep, ContextStep, TryStartStep, CurrentStep, FlagStep, EnqueueStep, BusyStep,
     CreateStep, EraseStep, SetMarkerStep, ErasingStep, PurgeStep, HandlerRaisesStep, TurnsBackStep,
     SorryStep, UnlockStep
  DEF HandlerStep
<1>3. ASSUME NEW a \in Actors, ChunkStep(a) PROVE ReadingInv'
  BY <1>3, WaitedStep, ClaimStep, ResetStep, AdvanceStep, PremiumFailsStep, SendStep,
     SendFailsStep, QueueStep, PushStep, UnqueuedStep
  DEF ChunkStep
<1>4. ASSUME NEW a \in Actors, JobStep(a) PROVE ReadingInv'
  BY <1>4, TakeStep, CheckStep, FirstStep, SettingsStep, RunningStep, GenerateStep, AgainStep,
     SecondCheckStep, ThirdCheckStep, ReadyStep, FailedStep, LastStep, ReleaseStep
  DEF JobStep
<1>5. ASSUME NEW a \in Actors, Lose(a) PROVE ReadingInv'
  BY <1>5, LoseStep
<1> QED
  BY <1>1, <1>2, <1>3, <1>4, <1>5, ElapseStep DEF ReadingNext

LEMMA ReadingInvariant == RedisReadingSpec => []ReadingInv
<1>1. ReadingInit => ReadingInv
  BY ReadingStarts
<1>2. ReadingInv /\ [ReadingNext]_readingVars => ReadingInv'
  BY ReadingSteps, ReadingStutters
<1> QED
  BY <1>1, <1>2, PTL DEF RedisReadingSpec

------------------------------------------------------------------------------
(* What the invariant gives.                                               *)

\* The type invariant: session, queue, actors and files keep their shape through every
\* command to Redis (session_store.py).
THEOREM RedisReadingTypeCorrect == RedisReadingSpec => []RedisReadingTypeOK
<1>1. ReadingInv => RedisReadingTypeOK
  <2> SUFFICES ASSUME ReadingInv PROVE RedisReadingTypeOK
    OBVIOUS
  <2>1. ShapeInv /\ Parts \in Nat \ {0} /\ MaxSessions \in Nat
    BY RedisReadingAssumption DEF ReadingInv
  <2>2. \A a \in Actors : actor[a].files \subseteq Audio /\ actor[a].index \in 0..Parts
    BY <2>1 DEF ShapeInv, ActorStates
  <2>3. ended \subseteq Sids
    BY <2>1 DEF ShapeInv, Sids
  <2> QED
    BY <2>1, <2>2, <2>3 DEF ShapeInv, Sessions, RedisReadingTypeOK
<1> QED
  BY <1>1, ReadingInvariant, PTL

\* Every voice of a chunk brings the part that is due, once, with its own audio and not
\* after the deletion of the user's data, unless one of the named troubles happened first;
\* a repetition by the sender and an error after the index moved on are among them.
THEOREM PartsOnceInOrderHolds == RedisReadingSpec => []PartsOnceInOrder
<1>1. ReadingInv => PartsOnceInOrder
  BY DEF ReadingInv
<1> QED
  BY <1>1, ReadingInvariant, PTL

\* A session that cleanup deleted or a new text replaced is never the stored one again,
\* unless a get stored back what it had read before.
THEOREM StoppedStaysStoppedHolds == RedisReadingSpec => []StoppedStaysStopped
<1>1. ReadingInv => StoppedStaysStopped
  BY DEF ReadingInv, SessionsInv
<1> QED
  BY <1>1, ReadingInvariant, PTL

\* No audio file of a reading stays on disk without an owner, except where an update, a
\* cleanup or an error before the voice is sent is known to lose it.
THEOREM FilesAccountedHolds == RedisReadingSpec => []FilesAccounted
<1>1. ReadingInv => FilesAccounted
  BY DEF ReadingInv
<1> QED
  BY <1>1, ReadingInvariant, PTL

\* A session that is marked as generating has an actor or a job on its way that will
\* release the mark, unless the mark itself was disturbed, the data were deleted, or a
\* handler or a job left it behind by an exit that releases nothing.
THEOREM GenerationReleasedHolds == RedisReadingSpec => []GenerationReleased
<1>1. ReadingInv => GenerationReleased
  <2> SUFFICES ASSUME ReadingInv, store.generating = "yes", Clean, "abandoned" \notin causes,
                      ~(marked > 0)
               PROVE  \E j \in BagToSet(pending) \cup {Job(a) : a \in Actors} :
                          j.kind \in {"chunk", "export"} /\ j.sid = store.sid
    BY DEF GenerationReleased, Clean
  <2>1. Held
    BY DEF ReadingInv, ShapeInv, Held
  <2>2. ~Abandoned
    BY <2>1 DEF ReadingInv, LockInv
  <2>3. CASE \E a \in Actors : Owns(actor[a]) /\ Job(a).sid = store.sid
    BY <2>3 DEF Owns, Locking, Job
  <2>4. CASE \E j \in BagToSet(pending) : j.kind \in Locking /\ j.sid = store.sid
    BY <2>4 DEF Locking
  <2> QED
    BY <2>2, <2>3, <2>4 DEF Abandoned
<1> QED
  BY <1>1, ReadingInvariant, PTL
=============================================================================
