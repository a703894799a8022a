----------------------------- MODULE AudioCache -----------------------------
(***************************************************************************)
(* The shared audio cache (services/audio_cache.py): an audio file per     *)
(* clip, an index of the users it was spoken for, and a lock file around   *)
(* the index.  Nothing in it suspends, so each function is one step; only  *)
(* a crash leaves one half done.                                           *)
(*                                                                         *)
(* A clip stands for the hash of a text, a voice and a rate.  Which files  *)
(* are too old or too many is data: a cleanup removes any set of them.     *)
(***************************************************************************)
EXTENDS Naturals, FiniteSets

CONSTANTS Users, Clips

VARIABLES
    cache,      \* the cache directory: file, owners (none: no index), stale lock
    wanted,     \* history: who was served a clip since it was stored, erased users excepted
    blurred     \* history: clips a crash, or a generation its user erased, left in doubt

cacheVars == <<cache, wanted, blurred>>

Absent == [file |-> "none", owners |-> {}, locked |-> FALSE]
CacheInit ==
    /\ cache = [c \in Clips |-> Absent]
    /\ wanted = [c \in Clips |-> {}]
    /\ blurred = {}

------------------------------------------------------------------------------
\* What the functions do to the entry of one clip.

\* A lock nobody will release: two seconds of waiting, a logged TimeoutError, no owner.
Registered(entry, u, create) ==
    IF entry.locked \/ (entry.owners = {} /\ ~create) THEN entry
    ELSE [entry EXCEPT !.owners = @ \cup {u}]

Hit(entry, u) == Registered(entry, u, FALSE)

Saved(entry, u) ==
    IF entry.file # "none" THEN Registered(entry, u, FALSE)
    ELSE Registered([entry EXCEPT !.file = "whole"], u, TRUE)

\* Slip: the file goes with the first owner.
ErasedForAll(entry, u) == IF ~entry.locked /\ u \in entry.owners THEN Absent ELSE entry

Erased(entry, u) ==
    CASE entry.locked \/ u \notin entry.owners -> entry
      [] ~entry.locked /\ entry.owners = {u} -> Absent
      [] OTHER -> [entry EXCEPT !.owners = @ \ {u}]

\* The states a crash leaves: while the file is copied, before the lock, under it.
TornRegister(entry, u, create) ==
    {entry, [entry EXCEPT !.locked = TRUE], [Registered(entry, u, create) EXCEPT !.locked = TRUE]}

TornSave(entry, u) ==
    IF entry.file = "none"
    THEN {[entry EXCEPT !.file = "part"]} \cup TornRegister([entry EXCEPT !.file = "whole"], u, TRUE)
    ELSE IF entry.owners = {} THEN {entry} ELSE TornRegister(entry, u, FALSE)

TornErasure(entry, u) ==
    {[entry EXCEPT !.locked = TRUE], [Erased(entry, u) EXCEPT !.locked = TRUE]}
    \cup (IF entry.owners = {u} THEN {[entry EXCEPT !.file = "none", !.locked = TRUE]} ELSE {})

------------------------------------------------------------------------------
\* The calls.  `late': u had their data erased while this generation was under way.

Unblurred(doubt, files) == {c \in doubt : files[c] # Absent}

Remembered(c, u, late) ==
    /\ wanted' = IF late THEN wanted ELSE [wanted EXCEPT ![c] = @ \cup {u}]
    /\ blurred' = IF late THEN blurred \cup {c} ELSE blurred

GetAudioFromCache(c, u, late) ==
    /\ cache' = [cache EXCEPT ![c] = Hit(@, u)]
    /\ Remembered(c, u, late)

\* A file that was not there yet may trigger the hourly cleanup.
SaveAudioToCache(c, u, late) ==
    /\ cache' = [cache EXCEPT ![c] = Saved(@, u)]
    /\ Remembered(c, u, late)

CleanupAudioCache(c, u, late, gone) ==
    LET stored == [cache EXCEPT ![c] = Saved(@, u)]
        left == [d \in Clips |-> IF d \in gone THEN Absent ELSE stored[d]] IN
    /\ cache[c].file = "none"
    /\ gone \subseteq {d \in Clips : stored[d].file # "none"}
    /\ cache' = left
    /\ wanted' = [d \in Clips |-> IF d \in gone THEN {}
                                  ELSE wanted[d] \cup {v \in {u} : d = c /\ ~late}]
    /\ blurred' = Unblurred(blurred \cup {d \in {c} : late}, left)

DeleteUserAudioCache(u) ==
    LET left == [c \in Clips |-> Erased(cache[c], u)] IN
    /\ cache' = left
    /\ wanted' = [c \in Clips |-> wanted[c] \ {u}]
    /\ blurred' = Unblurred(blurred, left)

CrashInSave(c, u) ==
    /\ \E torn \in TornSave(cache[c], u) : cache' = [cache EXCEPT ![c] = torn]
    /\ blurred' = blurred \cup {c}
    /\ UNCHANGED wanted

\* The crash loses the deletion that was under way: the user is erased from some clips.
CrashInDelete(c, u, done) ==
    /\ c \in Clips \ done
    /\ cache[c].owners # {} /\ ~cache[c].locked
    /\ \E torn \in TornErasure(cache[c], u) :
           cache' = [d \in Clips |-> CASE d = c -> torn
                                       [] d \in done -> Erased(cache[d], u)
                                       [] OTHER -> cache[d]]
    /\ wanted' = [d \in Clips |-> IF d \in done THEN wanted[d] \ {u} ELSE wanted[d]]
    /\ blurred' = Unblurred(blurred, cache') \cup {c}

------------------------------------------------------------------------------
(* Deleting a user's data removes the audio made for that user only, and   *)
(* never the audio another user owns: except for clips a crash or a late   *)
(* generation touched, the index names exactly the users a clip was served *)
(* to and who were not erased since, and a clip nobody owns is gone.       *)
OwnersExact ==
    \A c \in Clips \ blurred :
        /\ cache[c].owners = wanted[c]
        /\ cache[c].file = IF wanted[c] = {} THEN "none" ELSE "whole"
        /\ ~cache[c].locked
=============================================================================
