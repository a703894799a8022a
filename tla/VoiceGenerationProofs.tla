------------------------ MODULE VoiceGenerationProofs ------------------------
(***************************************************************************)
(* OwnersExact and VoiceFilesAccounted for any number of users, clips,     *)
(* concurrent calls, retries, cancellations, deletions and crashes.        *)
(*                                                                         *)
(* The inductive invariant has a part for each.  For the cache: what an    *)
(* index in doubt still owes (Covered), without which the erasure of its   *)
(* last owner could forget somebody.  For the files: every call has a      *)
(* number of its own, and its files bear it, so that a step of one call    *)
(* touches no file of another and no stray one (FilesStep, CallsStep).     *)
(* An action then has only to say which record its call goes on as and     *)
(* which files it drops and adds.                                          *)
(***************************************************************************)
EXTENDS VoiceGeneration, TLAPS

------------------------------------------------------------------------------
(* The entry of one clip, and what it owes to the users it was served to.  *)

Entries == [file : {"none", "part", "whole"}, owners : SUBSET Users, locked : BOOLEAN]

\* A clip in no doubt: what OwnersExact says of it.
Exact(entry, served) ==
    /\ entry.owners = served
    /\ entry.file = IF served = {} THEN "none" ELSE "whole"
    /\ ~entry.locked

\* Any clip: an index that can still be read names everybody it was served to, so that
\* its erasure forgets nobody, and a clip without a file owes nothing.
Covered(entry, served) ==
    /\ ~entry.locked /\ entry.owners # {} => served \subseteq entry.owners
    /\ entry.file = "none" => entry.locked \/ (entry.owners = {} /\ served = {})

CacheInv ==
    /\ cache \in [Clips -> Entries]
    /\ wanted \in [Clips -> SUBSET Users]
    /\ \A c \in Clips : Covered(cache[c], wanted[c])
    /\ \A c \in Clips \ blurred : Exact(cache[c], wanted[c])

LEMMA AbsentEntry == Absent \in Entries /\ Exact(Absent, {}) /\ Covered(Absent, {})
  BY DEF Absent, Entries, Exact, Covered

\* An owner is added to an index that exists and can be locked.
LEMMA RegisteredEntry ==
    ASSUME NEW e \in Entries, NEW u \in Users, NEW create \in BOOLEAN
    PROVE  /\ Registered(e, u, create) \in Entries
           /\ Registered(e, u, create).file = e.file
           /\ Registered(e, u, create).locked = e.locked
           /\ Registered(e, u, create).owners =
                 IF e.locked \/ (e.owners = {} /\ ~create) THEN e.owners ELSE e.owners \cup {u}
  BY DEF Registered, Entries

\* A clip whose file is there is served to one user more.
LEMMA HitEntry ==
    ASSUME NEW e \in Entries, NEW u \in Users, NEW w \in SUBSET Users,
           Covered(e, w), e.file # "none"
    PROVE  /\ Hit(e, u) \in Entries
           /\ Covered(Hit(e, u), w) /\ Covered(Hit(e, u), w \cup {u})
           /\ Exact(e, w) => Exact(Hit(e, u), w \cup {u})
<1>1. PICK f \in Entries : f = Hit(e, u)
  BY RegisteredEntry DEF Hit
<1>2. /\ f.file = e.file /\ f.locked = e.locked
      /\ f.owners = IF e.locked \/ e.owners = {} THEN e.owners ELSE e.owners \cup {u}
  BY <1>1, RegisteredEntry DEF Hit
<1>3. Covered(f, w) /\ Covered(f, w \cup {u})
  BY <1>2 DEF Covered
<1>4. Exact(e, w) => Exact(f, w \cup {u})
  BY <1>2 DEF Exact
<1> QED
  BY <1>1, <1>3, <1>4

\* A clip is stored.
LEMMA SavedEntry ==
    ASSUME NEW e \in Entries, NEW u \in Users, NEW w \in SUBSET Users, Covered(e, w)
    PROVE  /\ Saved(e, u) \in Entries
           /\ Saved(e, u).file # "none"
           /\ Covered(Saved(e, u), w) /\ Covered(Saved(e, u), w \cup {u})
           /\ Exact(e, w) => Exact(Saved(e, u), w \cup {u})
<1>1. CASE e.file # "none"
  <2>1. Saved(e, u) = Hit(e, u)
    BY <1>1 DEF Saved, Hit
  <2>2. Hit(e, u).file = e.file
    BY RegisteredEntry DEF Hit
  <2> QED
    BY <1>1, <2>1, <2>2, HitEntry
<1>2. CASE e.file = "none"
  <2> DEFINE f == [e EXCEPT !.file = "whole"]
  <2>1. f \in Entries /\ f.file = "whole" /\ f.owners = e.owners /\ f.locked = e.locked
    BY DEF Entries
  <2>2. Saved(e, u) = Registered(f, u, TRUE)
    BY <1>2 DEF Saved
  <2> HIDE DEF f
  <2>3. PICK g \in Entries : g = Saved(e, u)
    BY <2>1, <2>2, RegisteredEntry
  <2>4. /\ g.file = "whole" /\ g.locked = e.locked
        /\ g.owners = IF e.locked THEN e.owners ELSE e.owners \cup {u}
    BY <2>1, <2>2, <2>3 DEF Registered, Entries
  <2>5. Covered(g, w) /\ Covered(g, w \cup {u})
    BY <1>2, <2>4 DEF Covered
  <2>6. Exact(e, w) => Exact(g, w \cup {u})
    BY <1>2, <2>4 DEF Exact
  <2> QED
    BY <2>3, <2>4, <2>5, <2>6
<1> QED
  BY <1>1, <1>2

\* A user is erased from the index; the last owner takes the clip with them.
LEMMA ErasedEntry ==
    ASSUME NEW e \in Entries, NEW u \in Users, NEW w \in SUBSET Users, Covered(e, w)
    PROVE  /\ Erased(e, u) \in Entries
           /\ Covered(Erased(e, u), w \ {u})
           /\ Exact(e, w) => Exact(Erased(e, u), w \ {u})
<1>1. CASE e.locked \/ u \notin e.owners
  <2>1. Erased(e, u) = e
    BY <1>1 DEF Erased
  <2> QED
    BY <1>1, <2>1 DEF Covered, Exact
<1>2. CASE ~e.locked /\ e.owners = {u}
  <2>1. Erased(e, u) = Absent /\ w \ {u} = {}
    BY <1>2 DEF Erased, Covered
  <2> QED
    BY <2>1, AbsentEntry
<1>3. CASE ~e.locked /\ u \in e.owners /\ e.owners # {u}
  <2> DEFINE f == [e EXCEPT !.owners = @ \ {u}]
  <2>1. f \in Entries /\ f.owners = e.owners \ {u} /\ f.file = e.file /\ f.locked = e.locked
    BY DEF Entries
  <2>2. Erased(e, u) = f
    BY <1>3 DEF Erased
  <2> HIDE DEF f
  <2>3. e.file # "none" /\ w \subseteq e.owners
    BY <1>3 DEF Covered
  <2>4. Covered(f, w \ {u})
    BY <1>3, <2>1, <2>3 DEF Covered
  <2>5. ASSUME Exact(e, w) PROVE Exact(f, w \ {u})
    BY <1>3, <2>1, <2>3, <2>5 DEF Exact
  <2> QED
    BY <2>1, <2>2, <2>4, <2>5
<1> QED
  BY <1>1, <1>2, <1>3

\* What a crash leaves of a clip being stored.
LEMMA TornSaveEntry ==
    ASSUME NEW e \in Entries, NEW u \in Users, NEW w \in SUBSET Users, Covered(e, w),
           NEW torn \in TornSave(e, u)
    PROVE  torn \in Entries /\ Covered(torn, w)
<1>1. ASSUME NEW f \in Entries, Covered(f, w), NEW create \in BOOLEAN,
             NEW g \in TornRegister(f, u, create)
      PROVE  g \in Entries /\ Covered(g, w)
  <2>1. ASSUME NEW h \in Entries
        PROVE  [h EXCEPT !.locked = TRUE] \in Entries /\ [h EXCEPT !.locked = TRUE].locked
    BY DEF Entries
  <2>2. Registered(f, u, create) \in Entries
    BY RegisteredEntry
  <2>3. g = f \/ (g \in Entries /\ g.locked)
    BY <1>1, <2>1, <2>2 DEF TornRegister
  <2> QED
    BY <1>1, <2>3 DEF Covered
<1>2. CASE e.file # "none"
  BY <1>1, <1>2 DEF TornSave
<1>3. CASE e.file = "none"
  <2> DEFINE f(state) == [e EXCEPT !.file = state]
  <2>1. ASSUME NEW state \in {"part", "whole"} PROVE f(state) \in Entries /\ Covered(f(state), w)
    BY <1>3, <2>1 DEF Entries, Covered
  <2>2. torn = f("part") \/ torn \in TornRegister(f("whole"), u, TRUE)
    BY <1>3 DEF TornSave
  <2> HIDE DEF f
  <2> QED
    BY <1>1, <2>1, <2>2
<1> QED
  BY <1>2, <1>3

\* What a crash leaves of a clip being erased: its index stays locked.
LEMMA TornErasureEntry ==
    ASSUME NEW e \in Entries, NEW u \in Users, NEW w \in SUBSET Users, Covered(e, w),
           NEW torn \in TornErasure(e, u)
    PROVE  torn \in Entries /\ Covered(torn, w)
<1>1. ASSUME NEW h \in Entries
      PROVE  [h EXCEPT !.locked = TRUE] \in Entries /\ [h EXCEPT !.locked = TRUE].locked
  BY DEF Entries
<1>2. [e EXCEPT !.file = "none", !.locked = TRUE] \in Entries
      /\ [e EXCEPT !.file = "none", !.locked = TRUE].locked
  BY DEF Entries
<1>3. Erased(e, u) \in Entries
  BY ErasedEntry
<1>4. torn \in Entries /\ torn.locked
  BY <1>1, <1>2, <1>3 DEF TornErasure
<1> QED
  BY <1>4 DEF Covered

------------------------------------------------------------------------------
(* The calls of the cache preserve it, whatever happens around them.       *)

LEMMA CacheInitially == CacheInit => CacheInv
  BY AbsentEntry DEF CacheInit, CacheInv

\* A clip is doubted no longer only when nothing is left of it.
LEMMA UnblurredExact ==
    ASSUME NEW entries \in [Clips -> Entries], NEW served \in [Clips -> SUBSET Users],
           \A c \in Clips : Covered(entries[c], served[c]),
           NEW doubt, \A c \in Clips \ doubt : Exact(entries[c], served[c])
    PROVE  \A c \in Clips \ Unblurred(doubt, entries) : Exact(entries[c], served[c])
<1> SUFFICES ASSUME NEW c \in Clips, c \notin Unblurred(doubt, entries), c \in doubt
             PROVE  Exact(entries[c], served[c])
  OBVIOUS
<1>1. entries[c] = Absent
  BY DEF Unblurred
<1>2. served[c] = {}
  BY <1>1 DEF Covered, Absent
<1> QED
  BY <1>1, <1>2, AbsentEntry

LEMMA GetPreserves ==
    ASSUME CacheInv, NEW c, NEW u \in Users, NEW late \in BOOLEAN,
           cache[c].file # "none", GetAudioFromCache(c, u, late)
    PROVE  CacheInv'
<1>1. ASSUME NEW d \in Clips
      PROVE  /\ cache'[d] = IF d = c THEN Hit(cache[d], u) ELSE cache[d]
             /\ wanted'[d] = IF d = c /\ ~late THEN wanted[d] \cup {u} ELSE wanted[d]
             /\ d \in blurred' <=> d \in blurred \/ (d = c /\ late)
  BY DEF CacheInv, GetAudioFromCache, Remembered
<1>2. cache' \in [Clips -> Entries] /\ wanted' \in [Clips -> SUBSET Users]
  <2>1. c \in Clips => Hit(cache[c], u) \in Entries
    BY HitEntry DEF CacheInv
  <2> QED
    BY <2>1 DEF CacheInv, GetAudioFromCache, Remembered
<1>3. ASSUME NEW d \in Clips
      PROVE  /\ Covered(cache'[d], wanted'[d])
             /\ d \notin blurred' => Exact(cache'[d], wanted'[d])
  <2>1. CASE d # c
    BY <1>1, <2>1 DEF CacheInv
  <2>2. CASE d = c
    <3> DEFINE new == Hit(cache[d], u)
    <3>1. /\ Covered(new, wanted[d]) /\ Covered(new, wanted[d] \cup {u})
          /\ d \notin blurred => Exact(new, wanted[d] \cup {u})
      BY <2>2, HitEntry DEF CacheInv
    <3>2. cache'[d] = new
      BY <1>1, <2>2
    <3> HIDE DEF new
    <3> QED
      BY <1>1, <2>2, <3>1, <3>2
  <2> QED
    BY <2>1, <2>2
<1> QED
  BY <1>2, <1>3 DEF CacheInv

LEMMA SavePreserves ==
    ASSUME CacheInv, NEW c, NEW u \in Users, NEW late \in BOOLEAN, SaveAudioToCache(c, u, late)
    PROVE  CacheInv'
<1>1. ASSUME NEW d \in Clips
      PROVE  /\ cache'[d] = IF d = c THEN Saved(cache[d], u) ELSE cache[d]
             /\ wanted'[d] = IF d = c /\ ~late THEN wanted[d] \cup {u} ELSE wanted[d]
             /\ d \in blurred' <=> d \in blurred \/ (d = c /\ late)
  BY DEF CacheInv, SaveAudioToCache, Remembered
<1>2. cache' \in [Clips -> Entries] /\ wanted' \in [Clips -> SUBSET Users]
  <2>1. c \in Clips => Saved(cache[c], u) \in Entries
    BY SavedEntry DEF CacheInv
  <2> QED
    BY <2>1 DEF CacheInv, SaveAudioToCache, Remembered
<1>3. ASSUME NEW d \in Clips
      PROVE  /\ Covered(cache'[d], wanted'[d])
             /\ d \notin blurred' => Exact(cache'[d], wanted'[d])
  <2>1. CASE d # c
    BY <1>1, <2>1 DEF CacheInv
  <2>2. CASE d = c
    <3> DEFINE new == Saved(cache[d], u)
    <3>1. /\ Covered(new, wanted[d]) /\ Covered(new, wanted[d] \cup {u})
          /\ d \notin blurred => Exact(new, wanted[d] \cup {u})
      BY <2>2, SavedEntry DEF CacheInv
    <3>2. cache'[d] = new
      BY <1>1, <2>2
    <3> HIDE DEF new
    <3> QED
      BY <1>1, <2>2, <3>1, <3>2
  <2> QED
    BY <2>1, <2>2
<1> QED
  BY <1>2, <1>3 DEF CacheInv

LEMMA CleanupPreserves ==
    ASSUME CacheInv, NEW c, NEW u \in Users, NEW late \in BOOLEAN, NEW gone,
           CleanupAudioCache(c, u, late, gone)
    PROVE  CacheInv'
<1> DEFINE stored == [cache EXCEPT ![c] = Saved(@, u)]
           doubt == blurred \cup {d \in {c} : late}
<1>1. ASSUME NEW d \in Clips
      PROVE  stored[d] = IF d = c THEN Saved(cache[d], u) ELSE cache[d]
  BY DEF CacheInv
<1>2. ASSUME NEW d \in Clips
      PROVE  /\ cache'[d] = IF d \in gone THEN Absent ELSE stored[d]
             /\ wanted'[d] = IF d \in gone THEN {}
                             ELSE IF d = c /\ ~late THEN wanted[d] \cup {u} ELSE wanted[d]
  BY DEF CleanupAudioCache
<1>3. blurred' = Unblurred(doubt, cache')
  BY DEF CleanupAudioCache
<1>4. DOMAIN cache' = Clips /\ DOMAIN wanted' = Clips /\ cache' = [d \in Clips |-> cache'[d]]
      /\ wanted' = [d \in Clips |-> wanted'[d]]
  BY DEF CleanupAudioCache
<1> HIDE DEF stored
<1>5. ASSUME NEW d \in Clips
      PROVE  /\ cache'[d] \in Entries /\ wanted'[d] \in SUBSET Users
             /\ Covered(cache'[d], wanted'[d])
             /\ d \notin doubt => Exact(cache'[d], wanted'[d])
  <2>1. CASE d \in gone
    BY <1>2, <2>1, AbsentEntry
  <2>2. CASE d \notin gone /\ d # c
    BY <1>1, <1>2, <2>2 DEF CacheInv
  <2>3. CASE d \notin gone /\ d = c
    <3> DEFINE new == Saved(cache[d], u)
    <3>1. /\ new \in Entries
          /\ Covered(new, wanted[d]) /\ Covered(new, wanted[d] \cup {u})
          /\ d \notin blurred => Exact(new, wanted[d] \cup {u})
      BY SavedEntry DEF CacheInv
    <3>2. cache'[d] = new
      BY <1>1, <1>2, <2>3
    <3>3. wanted[d] \in SUBSET Users
      BY DEF CacheInv
    <3> HIDE DEF new
    <3> QED
      BY <1>2, <2>3, <3>1, <3>2, <3>3
  <2> QED
    BY <2>1, <2>2, <2>3
<1>6. cache' \in [Clips -> Entries] /\ wanted' \in [Clips -> SUBSET Users]
  BY <1>4, <1>5
<1>7. \A d \in Clips \ blurred' : Exact(cache'[d], wanted'[d])
  BY <1>3, <1>5, <1>6, UnblurredExact
<1> QED
  BY <1>5, <1>6, <1>7 DEF CacheInv

LEMMA DeletePreserves ==
    ASSUME CacheInv, NEW u \in Users, DeleteUserAudioCache(u)
    PROVE  CacheInv'
<1>1. ASSUME NEW d \in Clips
      PROVE  /\ cache'[d] = Erased(cache[d], u)
             /\ wanted'[d] = wanted[d] \ {u}
  BY DEF DeleteUserAudioCache
<1>2. blurred' = Unblurred(blurred, cache')
  BY DEF DeleteUserAudioCache
<1>3. cache' = [d \in Clips |-> cache'[d]] /\ wanted' = [d \in Clips |-> wanted'[d]]
  BY DEF DeleteUserAudioCache
<1>4. ASSUME NEW d \in Clips
      PROVE  /\ cache'[d] \in Entries /\ wanted'[d] \in SUBSET Users
             /\ Covered(cache'[d], wanted'[d])
             /\ d \notin blurred => Exact(cache'[d], wanted'[d])
  BY <1>1, ErasedEntry DEF CacheInv
<1>5. cache' \in [Clips -> Entries] /\ wanted' \in [Clips -> SUBSET Users]
  BY <1>3, <1>4
<1>6. \A d \in Clips \ blurred' : Exact(cache'[d], wanted'[d])
  BY <1>2, <1>4, <1>5, UnblurredExact
<1> QED
  BY <1>4, <1>5, <1>6 DEF CacheInv

LEMMA CrashInSavePreserves ==
    ASSUME CacheInv, NEW c, NEW u \in Users, CrashInSave(c, u)
    PROVE  CacheInv'
<1>1. PICK torn \in TornSave(cache[c], u) : cache' = [cache EXCEPT ![c] = torn]
  BY DEF CrashInSave
<1>2. c \in Clips => torn \in Entries /\ Covered(torn, wanted[c])
  BY TornSaveEntry DEF CacheInv
<1>3. cache' \in [Clips -> Entries]
  BY <1>1, <1>2 DEF CacheInv
<1>4. ASSUME NEW d \in Clips
      PROVE  cache'[d] = IF d = c THEN torn ELSE cache[d]
  BY <1>1 DEF CacheInv
<1> QED
  BY <1>2, <1>3, <1>4 DEF CacheInv, CrashInSave

LEMMA CrashInDeletePreserves ==
    ASSUME CacheInv, NEW c \in Clips, NEW u \in Users, NEW done, CrashInDelete(c, u, done)
    PROVE  CacheInv'
<1>1. PICK torn \in TornErasure(cache[c], u) :
          cache' = [d \in Clips |-> CASE d = c -> torn
                                      [] d \in done -> Erased(cache[d], u)
                                      [] OTHER -> cache[d]]
  BY DEF CrashInDelete
<1>2. torn \in Entries /\ Covered(torn, wanted[c]) /\ c \notin done
  BY TornErasureEntry DEF CacheInv, CrashInDelete
<1>3. wanted' = [d \in Clips |-> IF d \in done THEN wanted[d] \ {u} ELSE wanted[d]]
  BY DEF CrashInDelete
<1>4. ASSUME NEW d \in Clips
      PROVE  /\ cache'[d] \in Entries /\ wanted'[d] \in SUBSET Users
             /\ Covered(cache'[d], wanted'[d])
             /\ d \notin blurred \cup {c} => Exact(cache'[d], wanted'[d])
  <2>1. CASE d = c
    BY <1>1, <1>2, <1>3, <2>1 DEF CacheInv
  <2>2. CASE d \in done
    <3>1. cache'[d] = Erased(cache[d], u) /\ wanted'[d] = wanted[d] \ {u}
      BY <1>1, <1>2, <1>3, <2>2
    <3> QED
      BY <3>1, ErasedEntry DEF CacheInv
  <2>3. CASE d # c /\ d \notin done
    <3>1. cache'[d] = cache[d] /\ wanted'[d] = wanted[d]
      BY <1>1, <1>3, <2>3
    <3> QED
      BY <3>1 DEF CacheInv
  <2> QED
    BY <2>1, <2>2, <2>3
<1>5. cache' \in [Clips -> Entries] /\ wanted' \in [Clips -> SUBSET Users]
  <2>1. cache' = [d \in Clips |-> cache'[d]] /\ wanted' = [d \in Clips |-> wanted'[d]]
    BY <1>1, <1>3
  <2> QED
    BY <1>4, <2>1
<1>6. \A d \in Clips \ Unblurred(blurred \cup {c}, cache') : Exact(cache'[d], wanted'[d])
  BY <1>4, <1>5, UnblurredExact
<1>7. \A d \in Clips \ blurred' : d \notin Unblurred(blurred \cup {c}, cache')
  BY DEF CrashInDelete, Unblurred
<1> QED
  BY <1>4, <1>5, <1>6, <1>7 DEF CacheInv

------------------------------------------------------------------------------
(* The calls: each has a number of its own, which the files of no other    *)
(* call and no stray file bear.                                            *)

Places == {"idle", "waiting", "speaking", "packing", "converting", "pausing", "telling"}
Gemini == <<"gemini", "edge">>
Edge == <<"edge">>
CallRecords ==
    [at : Places, id : Nat, user : Users \cup {NoCall.user}, script : Scripts \cup {<<>>},
     piece : Nat, chain : {<<>>, Edge, Gemini}, attempt : Nat, model : Nat, late : BOOLEAN]

\* What is so of the record of a task that has begun a call.
Begun(r) ==
    /\ r.at # "idle" => r.user \in Users /\ r.id \in 1..calls /\ r.piece >= 1
    /\ r.at \in Working => r.chain # <<>>
    /\ r.at = "packing" => r.chain = Gemini

CallsInv ==
    /\ call \in [Callers -> CallRecords]
    /\ calls \in Nat
    /\ \A t \in Callers : Begun(call[t])
    /\ \A s, t \in Callers :
          s # t /\ call[s].at # "idle" /\ call[t].at # "idle" => call[s].id # call[t].id
    /\ \A f \in stray : f[1] \in 1..calls
    /\ \A f \in stray, t \in Callers : call[t].at # "idle" => f[1] # call[t].id

VoiceInv == CacheInv /\ CallsInv /\ VoiceFilesAccounted

------------------------------------------------------------------------------
(* The files of a call, from its record.                                   *)

Finished(r, n) == {<<r.id, i, "ogg">> : i \in 1..n}
RawOf(r) == {<<r.id, r.piece, "raw">>}
OggOf(r) == {<<r.id, r.piece, "ogg">>}
HeldBy(r) ==
    CASE r.at = "idle" -> {}
      [] r.at = "converting" -> Finished(r, r.piece - 1) \cup RawOf(r) \cup OggOf(r)
      [] r.at \in Working \ {"converting"} -> Finished(r, r.piece - 1) \cup RawOf(r)
      [] OTHER -> Finished(r, r.piece - IF r.at = "telling" THEN 0 ELSE 1)

LEMMA HeldOf ==
    ASSUME NEW t \in Callers
    PROVE  Held(t) = HeldBy(call[t])
<1>1. CASE call[t].at = "telling"
  BY <1>1 DEF Held, HeldBy, Generated, Raw, Ogg, Finished, RawOf, OggOf, Working
<1>2. CASE call[t].at # "telling"
  BY <1>2 DEF Held, HeldBy, Generated, Raw, Ogg, Finished, RawOf, OggOf, Working
<1> QED
  BY <1>1, <1>2

LEMMA HeldNext ==
    ASSUME NEW t \in Callers, NEW r, call'[t] = r
    PROVE  Held(t)' = HeldBy(r)
<1>1. CASE r.at = "telling"
  BY <1>1 DEF Held, HeldBy, Generated, Raw, Ogg, Finished, RawOf, OggOf, Working
<1>2. CASE r.at # "telling"
  BY <1>2 DEF Held, HeldBy, Generated, Raw, Ogg, Finished, RawOf, OggOf, Working
<1> QED
  BY <1>1, <1>2

\* What a record holds at each place.
LEMMA HeldAt ==
    ASSUME NEW r \in CallRecords
    PROVE  /\ r.at = "idle" => HeldBy(r) = {}
           /\ r.at = "waiting" => HeldBy(r) = Finished(r, r.piece - 1)
           /\ r.at = "converting" => HeldBy(r) = Finished(r, r.piece - 1) \cup RawOf(r) \cup OggOf(r)
           /\ r.at \in {"speaking", "packing", "pausing"}
                 => HeldBy(r) = Finished(r, r.piece - 1) \cup RawOf(r)
           /\ r.at = "telling" => HeldBy(r) = Finished(r, r.piece)
  BY DEF HeldBy, Working, CallRecords

\* The files of a record bear its number.
LEMMA HeldNumbered ==
    ASSUME NEW r \in CallRecords, NEW f \in HeldBy(r)
    PROVE  r.at # "idle" /\ f[1] = r.id
<1>1. r.at # "idle"
  BY HeldAt
<1>2. \/ f \in RawOf(r) \/ f \in OggOf(r)
      \/ f \in Finished(r, r.piece - 1) \/ f \in Finished(r, r.piece)
  BY <1>1, HeldAt DEF CallRecords, Places
<1>3. f[1] = r.id
  BY <1>2 DEF RawOf, OggOf, Finished
<1> QED
  BY <1>1, <1>3

\* The piece under way is no piece that is done, and becomes the last one.
LEMMA PieceFiles ==
    ASSUME NEW r \in CallRecords, r.piece >= 1
    PROVE  /\ Finished(r, r.piece) = Finished(r, r.piece - 1) \cup OggOf(r)
           /\ Finished(r, r.piece - 1) \cap OggOf(r) = {}
           /\ \A n : Finished(r, n) \cap RawOf(r) = {}
           /\ RawOf(r) \cap OggOf(r) = {}
<1>1. r.piece \in Nat
  BY DEF CallRecords
<1>2. 1..r.piece = (1..(r.piece - 1)) \cup {r.piece}
  BY <1>1
<1>3. Finished(r, r.piece) = Finished(r, r.piece - 1) \cup OggOf(r)
  BY <1>1, <1>2 DEF Finished, OggOf
<1>4. Finished(r, r.piece - 1) \cap OggOf(r) = {}
  BY <1>1 DEF Finished, OggOf
<1>5. \A n : Finished(r, n) \cap RawOf(r) = {}
  BY DEF Finished, RawOf
<1>6. RawOf(r) \cap OggOf(r) = {}
  BY DEF RawOf, OggOf
<1> QED
  BY <1>3, <1>4, <1>5, <1>6

------------------------------------------------------------------------------
(* One step of a call under way.                                           *)

\* `dropped' files are removed, `added' ones made, `left' ones left behind.
LEMMA FilesStep ==
    ASSUME CallsInv, VoiceFilesAccounted, NEW t \in Callers, call[t].at # "idle",
           NEW r \in CallRecords, call' = [call EXCEPT ![t] = r],
           NEW dropped, NEW added, NEW left,
           \A f \in dropped \cup added \cup left : f[1] = call[t].id,
           disk' = (disk \ dropped) \cup added, stray' = stray \cup left,
           HeldBy(r) \cup left = (HeldBy(call[t]) \ dropped) \cup added,
           HeldBy(r) \cap left = {}
    PROVE  VoiceFilesAccounted'
<1>1. /\ Held(t)' = HeldBy(r)
      /\ \A s \in Callers \ {t} : Held(s)' = HeldBy(call[s])
  <2>1. call'[t] = r /\ \A s \in Callers \ {t} : call'[s] = call[s]
    BY DEF CallsInv
  <2> QED
    BY <2>1, HeldNext
<1>2. \A s \in Callers : Held(s) = HeldBy(call[s])
  BY HeldOf
<1>3. \A s \in Callers : \A f \in HeldBy(call[s]) : call[s].at # "idle" /\ f[1] = call[s].id
  BY HeldNumbered DEF CallsInv
<1>4. \A s \in Callers \ {t} : \A f \in HeldBy(call[s]) : f[1] # call[t].id
  BY <1>3 DEF CallsInv
<1>5. \A f \in stray : f[1] # call[t].id
  BY DEF CallsInv
<1>6. /\ disk = stray \cup UNION {HeldBy(call[s]) : s \in Callers}
      /\ \A s \in Callers : HeldBy(call[s]) \cap stray = {}
  BY <1>2 DEF VoiceFilesAccounted
<1> DEFINE others == UNION {HeldBy(call[s]) : s \in Callers \ {t}}
<1>7. UNION {Held(s)' : s \in Callers} = HeldBy(r) \cup others
  BY <1>1
<1>8. UNION {HeldBy(call[s]) : s \in Callers} = HeldBy(call[t]) \cup others
  OBVIOUS
<1>9. \A f \in others : f[1] # call[t].id
  BY <1>4
<1> HIDE DEF others
<1>10. disk' = stray' \cup (HeldBy(r) \cup others)
  BY <1>5, <1>6, <1>8, <1>9
<1>11. HeldBy(r) \cap stray' = {}
  BY <1>5, <1>6
<1>12. \A s \in Callers \ {t} : HeldBy(call[s]) \cap stray' = {}
  BY <1>4, <1>6
<1>13. \A s \in Callers : Held(s)' \cap stray' = {}
  BY <1>1, <1>11, <1>12
<1> QED
  BY <1>7, <1>10, <1>13 DEF VoiceFilesAccounted

LEMMA CallsStep ==
    ASSUME CallsInv, NEW t \in Callers, call[t].at # "idle",
           NEW r \in CallRecords, call' = [call EXCEPT ![t] = r], UNCHANGED calls,
           Begun(r), r.at # "idle" => r.id = call[t].id,
           NEW left, left = {} \/ r.at = "idle",
           \A f \in left : f[1] = call[t].id, stray' = stray \cup left
    PROVE  CallsInv'
<1>1. call' \in [Callers -> CallRecords]
  BY DEF CallsInv
<1>2. call'[t] = r /\ \A s \in Callers \ {t} : call'[s] = call[s]
  BY DEF CallsInv
<1>3. \A s \in Callers : Begun(call[s])'
  BY <1>2 DEF CallsInv, Begun
<1>4. ASSUME NEW s \in Callers, call'[s].at # "idle"
      PROVE  call[s].at # "idle" /\ call'[s].id = call[s].id
  BY <1>2, <1>4
<1>5. \A s, p \in Callers :
          s # p /\ call'[s].at # "idle" /\ call'[p].at # "idle" => call'[s].id # call'[p].id
  BY <1>4 DEF CallsInv
<1>6. call[t].id \in 1..calls
  BY DEF CallsInv, Begun
<1>7. \A f \in stray' : f[1] \in 1..calls'
  BY <1>6 DEF CallsInv
<1>8. ASSUME NEW f \in stray', NEW s \in Callers, call'[s].at # "idle"
      PROVE  f[1] # call'[s].id
  <2>1. CASE f \in stray
    BY <1>4, <1>8, <2>1 DEF CallsInv
  <2>2. CASE f \in left
    <3>1. r.at = "idle" /\ f[1] = call[t].id
      BY <2>2
    <3>2. s # t
      BY <1>2, <1>8, <3>1
    <3> QED
      BY <1>4, <1>8, <3>1, <3>2 DEF CallsInv
  <2> QED
    BY <1>8, <2>1, <2>2
<1> QED
  BY <1>1, <1>3, <1>5, <1>7, <1>8 DEF CallsInv

\* The chains of the providers.
LEMMA ChainFacts ==
    /\ \A u : Chain(u) \in {Edge, Gemini}
    /\ Tail(Gemini) = Edge
    /\ Head(Gemini) = "gemini" /\ Head(Edge) = "edge"
    /\ Gemini # <<>> /\ Edge # <<>>
  BY DEF Chain, Gemini, Edge

\* A step that leaves nothing behind: the call goes on as r.
Same(r, me) == r.id = me.id /\ r.piece = me.piece /\ r.user = me.user

LEMMA SameFiles ==
    ASSUME NEW r, NEW me, Same(r, me)
    PROVE  /\ RawOf(r) = RawOf(me) /\ OggOf(r) = OggOf(me)
           /\ \A n : Finished(r, n) = Finished(me, n)
  BY DEF Same, RawOf, OggOf, Finished

LEMMA FilesOf ==
    ASSUME NEW r
    PROVE  \A f \in RawOf(r) \cup OggOf(r) : f[1] = r.id
  BY DEF RawOf, OggOf

LEMMA CallStep ==
    ASSUME VoiceInv, NEW t \in Callers, call[t].at # "idle",
           NEW r \in CallRecords, call' = [call EXCEPT ![t] = r], UNCHANGED <<calls, stray>>,
           Begun(r), r.at # "idle" => r.id = call[t].id,
           NEW dropped, NEW added, \A f \in dropped \cup added : f[1] = call[t].id,
           disk' = (disk \ dropped) \cup added,
           HeldBy(r) = (HeldBy(call[t]) \ dropped) \cup added
    PROVE  CallsInv' /\ VoiceFilesAccounted'
<1>1. PICK left : left = {}
  OBVIOUS
<1>2. stray' = stray \cup left /\ UNCHANGED calls /\ \A f \in left : f[1] = call[t].id
  BY <1>1
<1>3. /\ \A f \in dropped \cup added \cup left : f[1] = call[t].id
      /\ HeldBy(r) \cup left = (HeldBy(call[t]) \ dropped) \cup added
      /\ HeldBy(r) \cap left = {}
  BY <1>1
<1>4. VoiceFilesAccounted'
  BY <1>2, <1>3, FilesStep DEF VoiceInv
<1>5. CallsInv'
  BY <1>1, <1>2, CallsStep DEF VoiceInv
<1> QED
  BY <1>4, <1>5

LEMMA NoCallRecord ==
    /\ NoCall \in CallRecords
    /\ NoCall.at = "idle" /\ NoCall.id = 0 /\ NoCall.piece = 0
    /\ Begun(NoCall) /\ HeldBy(NoCall) = {}
<1>1. NoCall.at = "idle" /\ NoCall.id = 0 /\ NoCall.piece = 0
  BY DEF NoCall
<1>2. NoCall \in CallRecords
  <2>1. \A u : [at |-> "idle", id |-> 0, user |-> u, script |-> <<>>, piece |-> 0, chain |-> <<>>,
               attempt |-> 0, model |-> 0, late |-> FALSE]
            \in [at : Places, id : Nat, user : Users \cup {u}, script : Scripts \cup {<<>>},
                 piece : Nat, chain : {<<>>, Edge, Gemini}, attempt : Nat, model : Nat, late : BOOLEAN]
    BY DEF Places
  <2>2. NoCall.user = CHOOSE u \in Users : TRUE
    BY DEF NoCall
  <2> QED
    BY <2>1, <2>2 DEF CallRecords, NoCall
<1> QED
  BY <1>1, <1>2, HeldAt DEF Begun, Working

\* The record of a task that is in a call.
LEMMA InCall ==
    ASSUME VoiceInv, NEW t \in Callers, call[t].at # "idle"
    PROVE  /\ call[t] \in CallRecords
           /\ Begun(call[t])
           /\ call[t].user \in Users /\ call[t].id \in 1..calls /\ call[t].piece >= 1
           /\ Raw(t) = RawOf(call[t]) /\ Ogg(t) = OggOf(call[t])
           /\ call[t].at # "telling" => Generated(t) = Finished(call[t], call[t].piece - 1)
           /\ call[t].at = "telling" => Generated(t) = Finished(call[t], call[t].piece)
<1>1. call[t] \in CallRecords /\ Begun(call[t])
  BY DEF VoiceInv, CallsInv
<1>2. call[t].piece \in Nat
  BY <1>1 DEF CallRecords
<1>3. call[t].at = "telling" => Generated(t) = Finished(call[t], call[t].piece)
  BY <1>2 DEF Generated, Finished
<1>4. call[t].at # "telling" => Generated(t) = Finished(call[t], call[t].piece - 1)
  BY <1>2 DEF Generated, Finished
<1> QED
  BY <1>1, <1>3, <1>4 DEF Begun, Raw, Ogg, RawOf, OggOf

\* The cache step of a call.
LEMMA CacheUnchanged ==
    ASSUME VoiceInv, UNCHANGED cacheVars
    PROVE  CacheInv'
  BY DEF VoiceInv, CacheInv, cacheVars

\* Asking a provider: the files of the attempt before make room for those of the next.
LEMMA AskPreserves ==
    ASSUME VoiceInv, NEW t \in Callers, call[t].at # "idle", NEW chain \in {Edge, Gemini},
           NEW dropped \in SUBSET (RawOf(call[t]) \cup OggOf(call[t])),
           HeldBy(call[t]) = Finished(call[t], call[t].piece - 1) \cup dropped,
           Ask(t, chain, dropped), UNCHANGED <<calls, stray>>
    PROVE  VoiceInv'
<1> DEFINE me == call[t]
<1>1. /\ me \in CallRecords /\ Begun(me)
      /\ me.user \in Users /\ me.id \in 1..calls /\ me.piece >= 1
      /\ Raw(t) = RawOf(me) /\ Ogg(t) = OggOf(me)
  BY InCall
<1>2. me.late \in BOOLEAN
  BY <1>1 DEF CallRecords
<1>3. /\ Finished(me, me.piece) = Finished(me, me.piece - 1) \cup OggOf(me)
      /\ Finished(me, me.piece - 1) \cap (RawOf(me) \cup OggOf(me)) = {}
  BY <1>1, PieceFiles
<1>4. \A f \in RawOf(me) \cup OggOf(me) : f[1] = me.id
  BY FilesOf
<1>5. CASE /\ cache[Clip(t, Head(chain))].file # "none"
           /\ GetAudioFromCache(Clip(t, Head(chain)), me.user, me.late)
           /\ disk' = (disk \ dropped) \cup Ogg(t)
           /\ call' = [call EXCEPT ![t].at = "telling", ![t].chain = <<>>]
  <2> DEFINE r == [me EXCEPT !.at = "telling", !.chain = <<>>]
  <2>1. r \in CallRecords /\ r.at = "telling" /\ r.chain = <<>> /\ Same(r, me)
    BY <1>1 DEF CallRecords, Places, Same
  <2>2. call' = [call EXCEPT ![t] = r]
    BY <1>5
  <2> HIDE DEF r
  <2>3. Begun(r)
    BY <1>1, <2>1 DEF Begun, Same, Working
  <2>4. HeldBy(r) = Finished(me, me.piece)
    BY <2>1, HeldAt, SameFiles DEF Same
  <2>5. HeldBy(r) = (HeldBy(me) \ dropped) \cup OggOf(me)
    BY <1>3, <2>4
  <2>6. /\ disk' = (disk \ dropped) \cup OggOf(me)
        /\ \A f \in dropped \cup OggOf(me) : f[1] = me.id
        /\ r.id = me.id
    BY <1>1, <1>4, <1>5, <2>1 DEF Same
  <2>7. CallsInv' /\ VoiceFilesAccounted'
    BY <2>1, <2>2, <2>3, <2>5, <2>6, CallStep
  <2>8. CacheInv'
    BY <1>1, <1>2, <1>5, GetPreserves DEF VoiceInv
  <2> QED
    BY <2>7, <2>8 DEF VoiceInv
<1>6. CASE /\ disk' = (disk \ dropped) \cup Raw(t)
           /\ call' = [call EXCEPT ![t].at = "speaking", ![t].chain = chain,
                                   ![t].attempt = 1, ![t].model = 1]
           /\ UNCHANGED cacheVars
  <2> DEFINE r == [me EXCEPT !.at = "speaking", !.chain = chain, !.attempt = 1, !.model = 1]
  <2>1. r \in CallRecords /\ r.at = "speaking" /\ r.chain = chain /\ Same(r, me)
    BY <1>1 DEF CallRecords, Places, Same
  <2>2. call' = [call EXCEPT ![t] = r]
    BY <1>6
  <2> HIDE DEF r
  <2>3. Begun(r)
    BY <1>1, <2>1, ChainFacts DEF Begun, Same
  <2>4. HeldBy(r) = Finished(me, me.piece - 1) \cup RawOf(me)
    BY <2>1, HeldAt, SameFiles DEF Same
  <2>5. HeldBy(r) = (HeldBy(me) \ dropped) \cup RawOf(me)
    BY <1>3, <2>4
  <2>6. /\ disk' = (disk \ dropped) \cup RawOf(me)
        /\ \A f \in dropped \cup RawOf(me) : f[1] = me.id
        /\ r.id = me.id
    BY <1>1, <1>4, <1>6, <2>1 DEF Same
  <2>7. CallsInv' /\ VoiceFilesAccounted'
    BY <2>1, <2>2, <2>3, <2>5, <2>6, CallStep
  <2> QED
    BY <1>6, <2>7, CacheUnchanged DEF VoiceInv
<1> QED
  BY <1>5, <1>6 DEF Ask

\* Giving up: nothing of the call is kept.
LEMMA GiveUpPreserves ==
    ASSUME VoiceInv, NEW t \in Callers, call[t].at \notin {"idle", "telling"},
           NEW dropped \in SUBSET (RawOf(call[t]) \cup OggOf(call[t])),
           HeldBy(call[t]) = Finished(call[t], call[t].piece - 1) \cup dropped,
           GiveUp(t, dropped), UNCHANGED <<calls, stray>>
    PROVE  VoiceInv'
<1> DEFINE gone == dropped \cup Generated(t)
<1>1. gone = HeldBy(call[t]) /\ call[t] \in CallRecords
  BY InCall
<1>2. \A f \in gone \cup {} : f[1] = call[t].id
  BY <1>1, HeldNumbered
<1>3. disk' = (disk \ gone) \cup {} /\ call' = [call EXCEPT ![t] = NoCall]
  BY DEF GiveUp
<1>4. HeldBy(NoCall) = (HeldBy(call[t]) \ gone) \cup {}
  BY <1>1, NoCallRecord
<1> HIDE DEF gone
<1>5. CallsInv' /\ VoiceFilesAccounted'
  BY <1>2, <1>3, <1>4, NoCallRecord, CallStep
<1> QED
  BY <1>5, CacheUnchanged DEF GiveUp, VoiceInv

------------------------------------------------------------------------------
(* The actions of a task.                                                  *)

LEMMA CallPreserves ==
    ASSUME VoiceInv, NEW t \in Callers, Call(t)
    PROVE  VoiceInv'
<1>1. PICK u \in Users, script \in Scripts :
          call' = [call EXCEPT ![t] = [NoCall EXCEPT !.at = "waiting", !.id = calls + 1,
                                       !.user = u, !.script = script, !.piece = 1]]
  BY DEF Call
<1> DEFINE r == [NoCall EXCEPT !.at = "waiting", !.id = calls + 1,
                               !.user = u, !.script = script, !.piece = 1]
<1>2. calls \in Nat /\ call \in [Callers -> CallRecords] /\ call[t].at = "idle"
      /\ calls' = calls + 1 /\ UNCHANGED <<disk, stray>>
  BY DEF VoiceInv, CallsInv, Call
<1>3. r \in CallRecords /\ r.at = "waiting" /\ r.id = calls + 1 /\ r.user = u /\ r.piece = 1
  <2>1. NoCall \in CallRecords
    BY NoCallRecord
  <2>2. r.at = "waiting" /\ r.id = calls + 1 /\ r.user = u /\ r.piece = 1
    BY <2>1 DEF CallRecords
  <2>3. "waiting" \in Places /\ calls + 1 \in Nat /\ 1 \in Nat
    BY <1>2 DEF Places
  <2>4. r \in CallRecords
    BY <2>1, <2>3 DEF CallRecords
  <2> QED
    BY <2>2, <2>4
<1>4. call' = [call EXCEPT ![t] = r]
  BY <1>1
<1> HIDE DEF r
<1>5. call' \in [Callers -> CallRecords] /\ call'[t] = r
      /\ \A s \in Callers \ {t} : call'[s] = call[s]
  BY <1>2, <1>3, <1>4
<1>6. CallsInv'
  <2>1. \A s \in Callers \ {t} : call[s].at # "idle" => call[s].id \in 1..calls
    BY DEF VoiceInv, CallsInv, Begun
  <2>2. \A s \in Callers : Begun(call[s])'
    <3>1. Begun(call[t])'
      BY <1>2, <1>3, <1>5 DEF Begun, Working
    <3>2. ASSUME NEW s \in Callers \ {t} PROVE Begun(call[s])'
      BY <1>2, <1>5 DEF Begun, VoiceInv, CallsInv
    <3> QED
      BY <3>1, <3>2
  <2>3. ASSUME NEW s \in Callers, NEW p \in Callers, s # p,
               call'[s].at # "idle", call'[p].at # "idle"
        PROVE  call'[s].id # call'[p].id
    <3>1. CASE s = t
      BY <1>2, <1>3, <1>5, <2>1, <2>3, <3>1
    <3>2. CASE p = t
      BY <1>2, <1>3, <1>5, <2>1, <2>3, <3>2
    <3>3. CASE s # t /\ p # t
      BY <1>5, <2>3, <3>3 DEF VoiceInv, CallsInv
    <3> QED
      BY <3>1, <3>2, <3>3
  <2>4. \A f \in stray' : f[1] \in 1..calls /\ f[1] \in 1..calls'
    BY <1>2 DEF VoiceInv, CallsInv
  <2>5. ASSUME NEW f \in stray', NEW s \in Callers, call'[s].at # "idle"
        PROVE  f[1] # call'[s].id
    <3>1. CASE s = t
      BY <1>2, <1>3, <1>5, <2>4, <3>1
    <3>2. CASE s # t
      BY <1>2, <1>5, <2>5, <3>2 DEF VoiceInv, CallsInv
    <3> QED
      BY <3>1, <3>2
  <2>6. calls' \in Nat
    BY <1>2
  <2> QED
    BY <1>5, <2>2, <2>3, <2>4, <2>5, <2>6 DEF CallsInv
<1>7. VoiceFilesAccounted'
  <2>1. HeldBy(r) = {}
    BY <1>3, HeldAt DEF Finished
  <2>2. HeldBy(call[t]) = {}
    BY <1>2, HeldAt
  <2>3. \A s \in Callers : Held(s)' = Held(s)
    BY <1>5, <2>1, <2>2, HeldOf, HeldNext
  <2> QED
    BY <1>2, <2>3 DEF VoiceInv, VoiceFilesAccounted
<1> QED
  BY <1>6, <1>7, CacheUnchanged DEF VoiceInv, Call

LEMMA BeginPreserves ==
    ASSUME VoiceInv, NEW t \in Callers, Begin(t)
    PROVE  VoiceInv'
<1>1. call[t].at = "waiting" /\ Ask(t, Chain(call[t].user), {}) /\ UNCHANGED <<calls, stray>>
  BY DEF Begin
<1>2. HeldBy(call[t]) = Finished(call[t], call[t].piece - 1) \cup {}
  BY <1>1, InCall, HeldAt
<1> QED
  BY <1>1, <1>2, ChainFacts, AskPreserves

\* Only the place of a call changes, and perhaps its attempt.
LEMMA QuietStep ==
    ASSUME VoiceInv, NEW t \in Callers, call[t].at # "idle",
           NEW r \in CallRecords, call' = [call EXCEPT ![t] = r],
           Begun(r), r.id = call[t].id, HeldBy(r) = HeldBy(call[t]),
           UNCHANGED <<cacheVars, disk, calls, stray>>
    PROVE  VoiceInv'
<1>1. PICK none : none = {}
  OBVIOUS
<1>2. /\ disk' = (disk \ none) \cup none
      /\ HeldBy(r) = (HeldBy(call[t]) \ none) \cup none
      /\ \A f \in none \cup none : f[1] = call[t].id
  BY <1>1
<1>3. CallsInv' /\ VoiceFilesAccounted'
  BY <1>2, CallStep
<1> QED
  BY <1>3, CacheUnchanged DEF VoiceInv

LEMMA RetryPreserves ==
    ASSUME VoiceInv, NEW t \in Callers, Retry(t)
    PROVE  VoiceInv'
<1> DEFINE me == call[t]
           r == [me EXCEPT !.at = "speaking", !.attempt = @ + 1]
<1>1. /\ me.at = "pausing"
      /\ call' = [call EXCEPT ![t].at = "speaking", ![t].attempt = @ + 1]
      /\ UNCHANGED <<cacheVars, disk, calls, stray>>
  BY DEF Retry, cacheVars
<1>2. me \in CallRecords /\ Begun(me)
  BY <1>1, InCall
<1>3. r \in CallRecords /\ r.at = "speaking" /\ r.chain = me.chain /\ Same(r, me)
  <2>1. me.attempt + 1 \in Nat /\ "speaking" \in Places
    BY <1>2 DEF CallRecords, Places
  <2> QED
    BY <1>2, <2>1 DEF CallRecords, Same
<1>4. call' = [call EXCEPT ![t] = r]
  BY <1>1 DEF VoiceInv, CallsInv
<1> HIDE DEF r
<1>5. Begun(r)
  BY <1>1, <1>2, <1>3 DEF Begun, Same, Working
<1>6. HeldBy(r) = HeldBy(me)
  <2>1. /\ HeldBy(r) = Finished(r, r.piece - 1) \cup RawOf(r)
        /\ HeldBy(me) = Finished(me, me.piece - 1) \cup RawOf(me)
    BY <1>1, <1>2, <1>3, HeldAt
  <2> QED
    BY <1>3, <2>1, SameFiles DEF Same
<1> QED
  BY <1>1, <1>3, <1>4, <1>5, <1>6, QuietStep DEF Same

\* A task that speaks or packs begins to convert.
LEMMA ConvertStep ==
    ASSUME VoiceInv, NEW t \in Callers, call[t].at \in {"speaking", "packing"},
           At(t, "converting"), disk' = disk \cup Ogg(t),
           UNCHANGED <<cacheVars, calls, stray>>
    PROVE  VoiceInv'
<1> DEFINE me == call[t]
           r == [me EXCEPT !.at = "converting"]
<1>1. /\ me \in CallRecords /\ Begun(me) /\ Ogg(t) = OggOf(me) /\ me.at # "idle"
  BY InCall
<1>2. r \in CallRecords /\ r.at = "converting" /\ r.chain = me.chain /\ Same(r, me)
  BY <1>1 DEF CallRecords, Places, Same
<1>3. call' = [call EXCEPT ![t] = r]
  BY DEF At
<1> HIDE DEF r
<1>4. Begun(r)
  BY <1>1, <1>2 DEF Begun, Same, Working
<1>5. HeldBy(r) = HeldBy(me) \cup OggOf(me)
  <2>1. /\ HeldBy(r) = Finished(r, r.piece - 1) \cup RawOf(r) \cup OggOf(r)
        /\ HeldBy(me) = Finished(me, me.piece - 1) \cup RawOf(me)
    BY <1>1, <1>2, HeldAt
  <2> QED
    BY <1>2, <2>1, SameFiles DEF Same
<1>6. PICK none : none = {}
  OBVIOUS
<1>7. /\ disk' = (disk \ none) \cup OggOf(me)
      /\ HeldBy(r) = (HeldBy(me) \ none) \cup OggOf(me)
      /\ \A f \in none \cup OggOf(me) : f[1] = me.id
  BY <1>1, <1>5, <1>6, FilesOf
<1>8. r.id = me.id /\ UNCHANGED <<calls, stray>>
  BY <1>2 DEF Same
<1>9. CallsInv' /\ VoiceFilesAccounted'
  BY <1>1, <1>2, <1>3, <1>4, <1>7, <1>8, CallStep
<1> QED
  BY <1>9, CacheUnchanged DEF VoiceInv

LEMMA SpokenPreserves ==
    ASSUME VoiceInv, NEW t \in Callers, Spoken(t)
    PROVE  VoiceInv'
<1> DEFINE me == call[t]
<1>1. CASE Head(me.chain) # "gemini"
  BY <1>1, ConvertStep DEF Spoken, cacheVars
<1>2. CASE Head(me.chain) = "gemini"
  <2> DEFINE r == [me EXCEPT !.at = "packing"]
  <2>1. /\ me.at = "speaking" /\ At(t, "packing") /\ UNCHANGED <<cacheVars, disk, calls, stray>>
    BY <1>2 DEF Spoken, cacheVars
  <2>2. me \in CallRecords /\ Begun(me)
    BY <2>1, InCall
  <2>3. me.chain = Gemini
    BY <1>2, <2>1, <2>2, ChainFacts DEF Begun, Working, CallRecords
  <2>4. r \in CallRecords /\ r.at = "packing" /\ r.chain = me.chain /\ Same(r, me)
    BY <2>2 DEF CallRecords, Places, Same
  <2>5. call' = [call EXCEPT ![t] = r]
    BY <2>1 DEF At
  <2> HIDE DEF r
  <2>6. Begun(r)
    BY <2>1, <2>2, <2>3, <2>4, ChainFacts DEF Begun, Same
  <2>7. HeldBy(r) = HeldBy(me)
    BY <2>1, <2>2, <2>4, HeldAt, SameFiles DEF Same
  <2> QED
    BY <2>1, <2>4, <2>5, <2>6, <2>7, QuietStep DEF Same
<1> QED
  BY <1>1, <1>2

LEMMA PackedPreserves ==
    ASSUME VoiceInv, NEW t \in Callers, Packed(t)
    PROVE  VoiceInv'
  BY ConvertStep DEF Packed, cacheVars

\* Gemini is out: its files go, and edge is asked.
LEMMA NextProviderPreserves ==
    ASSUME VoiceInv, NEW t \in Callers, call[t].at \in Working, Head(call[t].chain) = "gemini",
           NEW dropped \in SUBSET (RawOf(call[t]) \cup OggOf(call[t])),
           HeldBy(call[t]) = Finished(call[t], call[t].piece - 1) \cup dropped,
           NextProvider(t, dropped), UNCHANGED <<calls, stray>>
    PROVE  VoiceInv'
<1>1. call[t].at # "idle"
  BY DEF Working
<1>2. call[t].chain = Gemini
  BY <1>1, InCall, ChainFacts DEF CallRecords, Begun
<1>3. Ask(t, Edge, dropped)
  BY <1>2, ChainFacts DEF NextProvider
<1> QED
  BY <1>1, <1>3, AskPreserves

LEMMA EdgeFailedPreserves ==
    ASSUME VoiceInv, NEW t \in Callers, call[t].at \in {"speaking", "converting"},
           NEW dropped \in SUBSET OggOf(call[t]),
           HeldBy(call[t]) = Finished(call[t], call[t].piece - 1) \cup RawOf(call[t]) \cup dropped,
           EdgeFailed(t, dropped), UNCHANGED <<calls, stray>>
    PROVE  VoiceInv'
<1> DEFINE me == call[t]
<1>1. /\ me \in CallRecords /\ Begun(me) /\ Raw(t) = RawOf(me) /\ me.at # "idle" /\ me.piece >= 1
  BY InCall
<1>2. CASE disk' = disk \ dropped /\ At(t, "pausing") /\ UNCHANGED cacheVars
  <2> DEFINE r == [me EXCEPT !.at = "pausing"]
  <2>1. r \in CallRecords /\ r.at = "pausing" /\ r.chain = me.chain /\ Same(r, me)
    BY <1>1 DEF CallRecords, Places, Same
  <2>2. call' = [call EXCEPT ![t] = r]
    BY <1>2 DEF At
  <2> HIDE DEF r
  <2>3. Begun(r)
    BY <1>1, <2>1 DEF Begun, Same, Working
  <2>4. HeldBy(r) = Finished(me, me.piece - 1) \cup RawOf(me)
    BY <2>1, HeldAt, SameFiles DEF Same
  <2>5. PICK none : none = {}
    OBVIOUS
  <2>6. HeldBy(r) = (HeldBy(me) \ dropped) \cup none
    BY <1>1, <2>4, <2>5, PieceFiles
  <2>7. /\ disk' = (disk \ dropped) \cup none
        /\ \A f \in dropped \cup none : f[1] = me.id
    BY <1>2, <2>5, FilesOf
  <2>8. CallsInv' /\ VoiceFilesAccounted'
    BY <1>1, <2>1, <2>2, <2>3, <2>6, <2>7, CallStep DEF Same
  <2> QED
    BY <1>2, <2>8, CacheUnchanged DEF VoiceInv
<1>3. CASE GiveUp(t, dropped \cup Raw(t))
  <2> DEFINE all == dropped \cup RawOf(me)
  <2>1. /\ all \in SUBSET (RawOf(me) \cup OggOf(me))
        /\ HeldBy(me) = Finished(me, me.piece - 1) \cup all
        /\ GiveUp(t, all)
    BY <1>1, <1>3
  <2> HIDE DEF all
  <2> QED
    BY <2>1, GiveUpPreserves
<1> QED
  BY <1>2, <1>3 DEF EdgeFailed

\* Gemini fails: the same model again, the next model, or the next provider.
LEMMA GeminiFailedPreserves ==
    ASSUME VoiceInv, NEW t \in Callers, call[t].at = "speaking", Head(call[t].chain) = "gemini",
           GeminiFailed(t), UNCHANGED <<calls, stray>>
    PROVE  VoiceInv'
<1> DEFINE me == call[t]
<1>1. /\ me \in CallRecords /\ Begun(me) /\ Raw(t) = RawOf(me) /\ me.piece >= 1
  BY InCall
<1>2. me.attempt + 1 \in Nat /\ me.model + 1 \in Nat /\ 1 \in Nat
  BY <1>1 DEF CallRecords
<1>3. ASSUME NEW r \in CallRecords, call' = [call EXCEPT ![t] = r], r.at = me.at,
             r.chain = me.chain, Same(r, me), UNCHANGED <<cacheVars, disk>>
      PROVE  VoiceInv'
  <2>1. Begun(r)
    BY <1>1, <1>3 DEF Begun, Same, Working
  <2>2. HeldBy(r) = HeldBy(me)
    <3>1. /\ HeldBy(r) = Finished(r, r.piece - 1) \cup RawOf(r)
          /\ HeldBy(me) = Finished(me, me.piece - 1) \cup RawOf(me)
      BY <1>1, <1>3, HeldAt
    <3> QED
      BY <1>3, <3>1, SameFiles DEF Same
  <2>3. r.id = me.id /\ UNCHANGED <<cacheVars, disk, calls, stray>>
    BY <1>3 DEF Same
  <2> QED
    BY <1>3, <2>1, <2>2, <2>3, QuietStep
<1>4. CASE call' = [call EXCEPT ![t].attempt = @ + 1] /\ UNCHANGED <<cacheVars, disk>>
  <2> DEFINE r == [me EXCEPT !.attempt = @ + 1]
  <2>1. r \in CallRecords /\ r.at = me.at /\ r.chain = me.chain /\ Same(r, me)
    BY <1>1, <1>2 DEF CallRecords, Same
  <2>2. call' = [call EXCEPT ![t] = r]
    BY <1>4 DEF VoiceInv, CallsInv
  <2> HIDE DEF r
  <2> QED
    BY <1>3, <1>4, <2>1, <2>2
<1>5. CASE /\ call' = [call EXCEPT ![t].attempt = 1, ![t].model = @ + 1]
           /\ UNCHANGED <<cacheVars, disk>>
  <2> DEFINE r == [me EXCEPT !.attempt = 1, !.model = @ + 1]
  <2>1. r \in CallRecords /\ r.at = me.at /\ r.chain = me.chain /\ Same(r, me)
    BY <1>1, <1>2 DEF CallRecords, Same
  <2>2. call' = [call EXCEPT ![t] = r]
    BY <1>5 DEF VoiceInv, CallsInv
  <2> HIDE DEF r
  <2> QED
    BY <1>3, <1>5, <2>1, <2>2
<1>6. CASE NextProvider(t, Raw(t))
  <2>1. NextProvider(t, RawOf(me)) /\ me.at \in Working
    BY <1>1, <1>6 DEF Working
  <2>2. HeldBy(me) = Finished(me, me.piece - 1) \cup RawOf(me)
    BY <1>1, HeldAt
  <2> QED
    BY <2>1, <2>2, NextProviderPreserves
<1> QED
  BY <1>4, <1>5, <1>6 DEF GeminiFailed

LEMMA SpeechFailsPreserves ==
    ASSUME VoiceInv, NEW t \in Callers, SpeechFails(t)
    PROVE  VoiceInv'
<1> DEFINE me == call[t]
<1>1. me.at = "speaking" /\ UNCHANGED <<calls, stray>>
  BY DEF SpeechFails
<1>2. CASE Head(me.chain) = "gemini"
  <2>1. GeminiFailed(t)
    BY <1>2 DEF SpeechFails
  <2> QED
    BY <1>1, <1>2, <2>1, GeminiFailedPreserves
<1>3. CASE Head(me.chain) # "gemini"
  <2>1. EdgeFailed(t, {})
    BY <1>3 DEF SpeechFails
  <2>2. HeldBy(me) = Finished(me, me.piece - 1) \cup RawOf(me) \cup {}
    BY <1>1, InCall, HeldAt
  <2> QED
    BY <1>1, <2>1, <2>2, EdgeFailedPreserves
<1> QED
  BY <1>2, <1>3

LEMMA PackingFailsPreserves ==
    ASSUME VoiceInv, NEW t \in Callers, PackingFails(t)
    PROVE  VoiceInv'
<1> DEFINE me == call[t]
<1>1. me.at = "packing" /\ NextProvider(t, Raw(t)) /\ UNCHANGED <<calls, stray>>
  BY DEF PackingFails
<1>2. me \in CallRecords /\ Begun(me) /\ Raw(t) = RawOf(me)
  BY <1>1, InCall
<1>3. Head(me.chain) = "gemini" /\ me.at \in Working
  BY <1>1, <1>2, ChainFacts DEF Begun, Working
<1>4. HeldBy(me) = Finished(me, me.piece - 1) \cup RawOf(me)
  BY <1>1, <1>2, HeldAt
<1>5. NextProvider(t, RawOf(me))
  BY <1>1, <1>2
<1> QED
  BY <1>1, <1>3, <1>4, <1>5, NextProviderPreserves

LEMMA ConversionFailsPreserves ==
    ASSUME VoiceInv, NEW t \in Callers, ConversionFails(t)
    PROVE  VoiceInv'
<1> DEFINE me == call[t]
           both == RawOf(me) \cup OggOf(me)
<1>1. me.at = "converting" /\ UNCHANGED <<calls, stray>>
  BY DEF ConversionFails
<1>2. me \in CallRecords /\ Raw(t) = RawOf(me) /\ Ogg(t) = OggOf(me)
  BY <1>1, InCall
<1>3. /\ HeldBy(me) = Finished(me, me.piece - 1) \cup RawOf(me) \cup OggOf(me)
      /\ HeldBy(me) = Finished(me, me.piece - 1) \cup both
  BY <1>1, <1>2, HeldAt
<1>4. CASE Head(me.chain) = "gemini"
  <2>1. NextProvider(t, both) /\ both \in SUBSET (RawOf(me) \cup OggOf(me)) /\ me.at \in Working
    BY <1>1, <1>2, <1>4 DEF ConversionFails, Working
  <2> HIDE DEF both
  <2> QED
    BY <1>1, <1>3, <1>4, <2>1, NextProviderPreserves
<1>5. CASE Head(me.chain) # "gemini"
  <2>1. EdgeFailed(t, OggOf(me))
    BY <1>2, <1>5 DEF ConversionFails
  <2> QED
    BY <1>1, <1>3, <2>1, EdgeFailedPreserves
<1> QED
  BY <1>4, <1>5

LEMMA ConvertedPreserves ==
    ASSUME VoiceInv, NEW t \in Callers, Converted(t)
    PROVE  VoiceInv'
<1> DEFINE me == call[t]
           r == [me EXCEPT !.at = "telling", !.chain = <<>>]
<1>1. /\ me.at = "converting" /\ disk' = disk \ Raw(t)
      /\ call' = [call EXCEPT ![t].at = "telling", ![t].chain = <<>>]
      /\ UNCHANGED <<calls, stray>>
  BY DEF Converted
<1>2. /\ me \in CallRecords /\ Begun(me) /\ Raw(t) = RawOf(me) /\ me.piece >= 1
      /\ me.user \in Users
  BY <1>1, InCall
<1>3. me.late \in BOOLEAN
  BY <1>2 DEF CallRecords
<1>4. r \in CallRecords /\ r.at = "telling" /\ r.chain = <<>> /\ Same(r, me)
  BY <1>2 DEF CallRecords, Places, Same
<1>5. call' = [call EXCEPT ![t] = r]
  BY <1>1
<1> HIDE DEF r
<1>6. Begun(r)
  BY <1>1, <1>2, <1>4 DEF Begun, Same, Working
<1>7. PICK none : none = {}
  OBVIOUS
<1>8. HeldBy(r) = (HeldBy(me) \ RawOf(me)) \cup none
  <2>1. /\ HeldBy(r) = Finished(r, r.piece)
        /\ HeldBy(me) = Finished(me, me.piece - 1) \cup RawOf(me) \cup OggOf(me)
    BY <1>1, <1>2, <1>4, HeldAt
  <2>2. HeldBy(r) = Finished(me, me.piece)
    BY <1>4, <2>1, SameFiles DEF Same
  <2>3. /\ Finished(me, me.piece) = Finished(me, me.piece - 1) \cup OggOf(me)
        /\ Finished(me, me.piece - 1) \cap RawOf(me) = {}
        /\ RawOf(me) \cap OggOf(me) = {}
    BY <1>2, PieceFiles
  <2> QED
    BY <1>7, <2>1, <2>2, <2>3
<1>9. /\ disk' = (disk \ RawOf(me)) \cup none
      /\ \A f \in RawOf(me) \cup none : f[1] = me.id
      /\ r.id = me.id /\ me.at # "idle" /\ UNCHANGED <<calls, stray>>
  BY <1>1, <1>2, <1>4, <1>7, FilesOf DEF Same
<1>10. CallsInv' /\ VoiceFilesAccounted'
  BY <1>4, <1>5, <1>6, <1>8, <1>9, CallStep
<1>11. CacheInv'
  <2> DEFINE clip == Clip(t, Head(me.chain))
  <2>1. CASE SaveAudioToCache(clip, me.user, me.late)
    BY <1>2, <1>3, <2>1, SavePreserves DEF VoiceInv
  <2>2. ASSUME NEW gone, CleanupAudioCache(clip, me.user, me.late, gone)
        PROVE  CacheInv'
    BY <1>2, <1>3, <2>2, CleanupPreserves DEF VoiceInv
  <2> HIDE DEF clip
  <2> QED
    BY <2>1, <2>2 DEF Converted, clip
<1> QED
  BY <1>10, <1>11 DEF VoiceInv

LEMMA ToldPreserves ==
    ASSUME VoiceInv, NEW t \in Callers, Told(t)
    PROVE  VoiceInv'
<1> DEFINE me == call[t]
<1>1. me.at = "telling" /\ UNCHANGED <<cacheVars, calls, stray>>
  BY DEF Told, cacheVars
<1>2. /\ me \in CallRecords /\ Begun(me) /\ Generated(t) = Finished(me, me.piece)
      /\ me.piece >= 1
  BY <1>1, InCall
<1>3. me.piece \in Nat
  BY <1>2 DEF CallRecords
<1>4. HeldBy(me) = Finished(me, me.piece)
  BY <1>1, <1>2, HeldAt
<1>5. CASE call' = [call EXCEPT ![t].at = "waiting", ![t].piece = @ + 1] /\ UNCHANGED disk
  <2> DEFINE r == [me EXCEPT !.at = "waiting", !.piece = @ + 1]
  <2>1. /\ r \in CallRecords /\ r.at = "waiting" /\ r.id = me.id /\ r.user = me.user
        /\ r.piece = me.piece + 1
    <3>1. me.piece + 1 \in Nat /\ "waiting" \in Places
      BY <1>3 DEF Places
    <3> QED
      BY <1>2, <3>1 DEF CallRecords
  <2>2. call' = [call EXCEPT ![t] = r]
    BY <1>5 DEF VoiceInv, CallsInv
  <2> HIDE DEF r
  <2>3. Begun(r)
    BY <1>1, <1>2, <1>3, <2>1 DEF Begun, Working
  <2>4. HeldBy(r) = HeldBy(me)
    <3>1. HeldBy(r) = Finished(r, r.piece - 1)
      BY <2>1, HeldAt
    <3>2. r.piece - 1 = me.piece
      BY <1>3, <2>1
    <3>3. Finished(r, me.piece) = Finished(me, me.piece)
      BY <2>1 DEF Finished
    <3> QED
      BY <1>4, <3>1, <3>2, <3>3
  <2> QED
    BY <1>1, <1>5, <2>1, <2>2, <2>3, <2>4, QuietStep
<1>6. CASE call' = [call EXCEPT ![t] = NoCall] /\ disk' = disk \ Generated(t)
  <2>1. PICK none : none = {}
    OBVIOUS
  <2>2. /\ disk' = (disk \ HeldBy(me)) \cup none
        /\ HeldBy(NoCall) = (HeldBy(me) \ HeldBy(me)) \cup none
        /\ \A f \in HeldBy(me) \cup none : f[1] = me.id
    BY <1>2, <1>4, <1>6, <2>1, NoCallRecord, HeldNumbered
  <2>3. me.at # "idle" /\ UNCHANGED <<calls, stray>> /\ call' = [call EXCEPT ![t] = NoCall]
    BY <1>1, <1>6
  <2>4. CallsInv' /\ VoiceFilesAccounted'
    BY <2>2, <2>3, NoCallRecord, CallStep
  <2> QED
    BY <1>1, <2>4, CacheUnchanged DEF VoiceInv
<1> QED
  BY <1>5, <1>6 DEF Told

\* A cancelled call leaves what its conversion or its thread may still write.
LEMMA CancelPreserves ==
    ASSUME VoiceInv, NEW t \in Callers, Cancel(t)
    PROVE  VoiceInv'
<1> DEFINE me == call[t]
<1>1. PICK left \in CancelLeaves(t) :
          disk' = disk \ (Held(t) \ left) /\ stray' = stray \cup left
  BY DEF Cancel
<1>2. me.at # "idle" /\ call' = [call EXCEPT ![t] = NoCall] /\ UNCHANGED <<cacheVars, calls>>
  BY DEF Cancel, cacheVars
<1>3. /\ me \in CallRecords /\ Raw(t) = RawOf(me) /\ Ogg(t) = OggOf(me)
  BY <1>2, InCall
<1>4. left \subseteq HeldBy(me)
  <2>1. CASE me.at = "converting"
    BY <1>1, <1>3, <2>1, HeldAt DEF CancelLeaves
  <2>2. CASE me.at = "packing"
    BY <1>1, <1>3, <2>2, HeldAt DEF CancelLeaves
  <2>3. CASE me.at \notin {"converting", "packing"}
    BY <1>1, <2>3 DEF CancelLeaves
  <2> QED
    BY <2>1, <2>2, <2>3
<1>5. PICK none : none = {}
  OBVIOUS
<1> DEFINE dropped == HeldBy(me) \ left
<1>6. Held(t) = HeldBy(me)
  BY HeldOf
<1>7. /\ disk' = (disk \ dropped) \cup none
      /\ HeldBy(NoCall) \cup left = (HeldBy(me) \ dropped) \cup none
      /\ HeldBy(NoCall) \cap left = {}
      /\ \A f \in dropped \cup none \cup left : f[1] = me.id
  BY <1>1, <1>3, <1>4, <1>5, <1>6, NoCallRecord, HeldNumbered
<1> HIDE DEF dropped
<1>8. VoiceFilesAccounted'
  BY <1>1, <1>2, <1>7, NoCallRecord, FilesStep DEF VoiceInv
<1>9. CallsInv'
  <2>1. \A f \in left : f[1] = me.id
    BY <1>7
  <2> QED
    BY <1>1, <1>2, <2>1, NoCallRecord, CallsStep DEF VoiceInv
<1> QED
  BY <1>2, <1>8, <1>9, CacheUnchanged DEF VoiceInv

------------------------------------------------------------------------------
(* The steps of nobody's call.                                             *)

\* A deletion marks the calls of its user, which keep their files.
LEMMA ErasePreserves ==
    ASSUME VoiceInv, NEW u \in Users, Erase(u)
    PROVE  VoiceInv'
<1>1. /\ DeleteUserAudioCache(u)
      /\ UNCHANGED <<disk, calls, stray>>
      /\ call' = [t \in Callers |->
                     IF call[t].at # "idle" /\ call[t].user = u
                     THEN [call[t] EXCEPT !.late = TRUE] ELSE call[t]]
  BY DEF Erase
<1>2. ASSUME NEW t \in Callers
      PROVE  /\ call'[t] \in CallRecords
             /\ call'[t].at = call[t].at /\ call'[t].chain = call[t].chain
             /\ Same(call'[t], call[t])
  <2>1. call[t] \in CallRecords
    BY DEF VoiceInv, CallsInv
  <2> DEFINE r == [call[t] EXCEPT !.late = TRUE]
  <2>2. r \in CallRecords /\ r.at = call[t].at /\ r.chain = call[t].chain /\ Same(r, call[t])
    BY <2>1 DEF CallRecords, Same
  <2>3. call'[t] = r \/ call'[t] = call[t]
    BY <1>1
  <2> HIDE DEF r
  <2> QED
    BY <2>1, <2>2, <2>3 DEF Same
<1>3. call' = [t \in Callers |-> call'[t]]
  BY <1>1
<1>4. CallsInv'
  <2>1. call' \in [Callers -> CallRecords]
    BY <1>2, <1>3
  <2>2. \A t \in Callers : Begun(call[t])'
    BY <1>1, <1>2 DEF VoiceInv, CallsInv, Begun, Same
  <2>3. /\ calls' = calls /\ stray' = stray
        /\ \A t \in Callers : call'[t].at = call[t].at /\ call'[t].id = call[t].id
    BY <1>1, <1>2 DEF Same
  <2> QED
    BY <2>1, <2>2, <2>3 DEF VoiceInv, CallsInv
<1>5. ASSUME NEW t \in Callers PROVE Held(t)' = Held(t)
  <2>1. Held(t)' = HeldBy(call'[t]) /\ Held(t) = HeldBy(call[t])
    BY HeldOf, HeldNext
  <2>2. PICK r : r = call'[t]
    OBVIOUS
  <2>3. r.at = call[t].at /\ r.piece = call[t].piece /\ Same(r, call[t])
    BY <1>2, <2>2 DEF Same
  <2>4. /\ RawOf(r) = RawOf(call[t]) /\ OggOf(r) = OggOf(call[t])
        /\ \A n : Finished(r, n) = Finished(call[t], n)
    BY <2>3, SameFiles
  <2>5. HeldBy(r) = HeldBy(call[t])
    <3>1. CASE r.at = "telling"
      BY <2>3, <2>4, <3>1 DEF HeldBy, Working
    <3>2. CASE r.at # "telling"
      BY <2>3, <2>4, <3>2 DEF HeldBy, Working
    <3> QED
      BY <3>1, <3>2
  <2> QED
    BY <2>1, <2>2, <2>5
<1>6. VoiceFilesAccounted'
  BY <1>1, <1>5 DEF VoiceInv, VoiceFilesAccounted
<1> QED
  BY <1>1, <1>4, <1>6, DeletePreserves DEF VoiceInv

\* After a crash nobody counts on anything, and every file on disk is astray.
LEMMA CrashPreserves ==
    ASSUME VoiceInv, Crash
    PROVE  VoiceInv'
<1>1. call' = [t \in Callers |-> NoCall] /\ stray' = disk /\ UNCHANGED <<disk, calls>>
  BY DEF Crash
<1>2. \A t \in Callers : call'[t] = NoCall
  BY <1>1
<1>3. \A t \in Callers : Held(t)' = {}
  BY <1>2, HeldNext, NoCallRecord
<1>4. VoiceFilesAccounted'
  BY <1>1, <1>3 DEF VoiceFilesAccounted
<1>5. \A f \in disk : f[1] \in 1..calls
  <2> SUFFICES ASSUME NEW f \in disk PROVE f[1] \in 1..calls
    OBVIOUS
  <2>1. CASE f \in stray
    BY <2>1 DEF VoiceInv, CallsInv
  <2>2. CASE \E t \in Callers : f \in Held(t)
    <3>1. PICK t \in Callers : f \in HeldBy(call[t])
      BY <2>2, HeldOf
    <3>2. call[t] \in CallRecords /\ Begun(call[t])
      BY DEF VoiceInv, CallsInv
    <3> QED
      BY <3>1, <3>2, HeldNumbered DEF Begun
  <2> QED
    BY <2>1, <2>2 DEF VoiceInv, VoiceFilesAccounted
<1>6. CallsInv'
  <2>1. call' \in [Callers -> CallRecords]
    BY <1>1, NoCallRecord
  <2>2. \A t \in Callers : Begun(call[t])' /\ call'[t].at = "idle"
    BY <1>2, NoCallRecord DEF Begun, Working
  <2> QED
    BY <1>1, <1>5, <2>1, <2>2 DEF VoiceInv, CallsInv
<1>7. CacheInv'
  <2>1. CASE UNCHANGED cacheVars
    BY <2>1, CacheUnchanged
  <2>2. ASSUME NEW t \in Callers, call[t].at = "converting",
               CrashInSave(Clip(t, Head(call[t].chain)), call[t].user)
        PROVE  CacheInv'
    BY <2>2, InCall, CrashInSavePreserves DEF VoiceInv
  <2>3. ASSUME NEW c \in Clips, NEW u \in Users, NEW done, CrashInDelete(c, u, done)
        PROVE  CacheInv'
    BY <2>3, CrashInDeletePreserves DEF VoiceInv
  <2> QED
    BY <2>1, <2>2, <2>3 DEF Crash
<1> QED
  BY <1>4, <1>6, <1>7 DEF VoiceInv

------------------------------------------------------------------------------
(* The theorems.                                                           *)

LEMMA VoiceInitially == VoiceInit => VoiceInv
<1> SUFFICES ASSUME VoiceInit PROVE VoiceInv
  OBVIOUS
<1>1. call = [t \in Callers |-> NoCall] /\ disk = {} /\ calls = 0 /\ stray = {}
  BY DEF VoiceInit
<1>2. \A t \in Callers : call[t] = NoCall
  BY <1>1
<1>3. CallsInv
  BY <1>1, <1>2, NoCallRecord DEF CallsInv
<1>4. \A t \in Callers : Held(t) = {}
  BY <1>2, HeldOf, NoCallRecord
<1> QED
  BY <1>1, <1>3, <1>4, CacheInitially DEF VoiceInv, VoiceInit, VoiceFilesAccounted

LEMMA VoiceStep == VoiceInv /\ [VoiceNext]_voiceVars => VoiceInv'
<1> SUFFICES ASSUME VoiceInv, [VoiceNext]_voiceVars PROVE VoiceInv'
  OBVIOUS
<1>1. CASE UNCHANGED voiceVars
  <2>1. UNCHANGED cacheVars /\ UNCHANGED <<call, disk, calls, stray>>
    BY <1>1 DEF voiceVars, cacheVars
  <2>2. CallsInv'
    BY <2>1 DEF VoiceInv, CallsInv, Begun
  <2>3. \A t \in Callers : Held(t)' = Held(t)
    BY <2>1 DEF Held, Generated, Raw, Ogg
  <2>4. VoiceFilesAccounted'
    BY <2>1, <2>3 DEF VoiceInv, VoiceFilesAccounted
  <2> QED
    BY <2>1, <2>2, <2>4, CacheUnchanged DEF VoiceInv
<1>2. ASSUME NEW t \in Callers,
             \/ Call(t) \/ Begin(t) \/ Spoken(t) \/ SpeechFails(t) \/ Retry(t)
             \/ Packed(t) \/ PackingFails(t) \/ Converted(t) \/ ConversionFails(t)
             \/ Told(t) \/ Cancel(t)
      PROVE  VoiceInv'
  BY <1>2, CallPreserves, BeginPreserves, SpokenPreserves, SpeechFailsPreserves, RetryPreserves,
     PackedPreserves, PackingFailsPreserves, ConvertedPreserves, ConversionFailsPreserves,
     ToldPreserves, CancelPreserves
<1> QED
  BY <1>1, <1>2, ErasePreserves, CrashPreserves DEF VoiceNext

LEMMA VoiceInvHolds == VoiceSpec => []VoiceInv
  BY VoiceInitially, VoiceStep, PTL DEF VoiceSpec

(* A deletion of a user's data takes the audio made for that user only and *)
(* no other: for every number of users, clips, tasks, deletions, failures  *)
(* and crashes, a clip that neither a crash nor a late generation touched  *)
(* is owned by exactly those it was served to and who were not erased      *)
(* since (OwnersExact, services/audio_cache.py).                           *)
THEOREM OwnersExactHolds == VoiceSpec => []OwnersExact
<1>1. VoiceInv => OwnersExact
  BY DEF VoiceInv, CacheInv, OwnersExact, Exact
<1> QED
  BY <1>1, VoiceInvHolds, PTL

(* For every number of concurrent calls of generate_voice, every chain of  *)
(* retries and providers and every cancellation: a temporary file on disk  *)
(* is held by one call under way, or was left by a cancelled conversion or *)
(* a crash, and no call lacks a file it counts on (VoiceFilesAccounted).   *)
THEOREM VoiceFilesHold == VoiceSpec => []VoiceFilesAccounted
<1>1. VoiceInv => VoiceFilesAccounted
  BY DEF VoiceInv
<1> QED
  BY <1>1, VoiceInvHolds, PTL
=============================================================================
