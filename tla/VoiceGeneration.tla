--------------------------- MODULE VoiceGeneration --------------------------
(***************************************************************************)
(* generate_voice (services/tts.py) over the shared cache: the pieces of a *)
(* text are spoken one by one, each under a permit of the TTS semaphore,   *)
(* by the first provider of the user's chain that succeeds.                *)
(*                                                                         *)
(* One action is one stretch between two awaits that suspend.  The speech  *)
(* services, ffmpeg and the files are modelled by their outcomes; recording *)
(* a metric does not suspend.  The callers' cancellations, restarts and    *)
(* deletions may come at every suspension.                                 *)
(***************************************************************************)
EXTENDS AudioCache, Sequences

CONSTANTS Texts,           \* pieces of text, with voice and rate
          Scripts,         \* what split_text makes of the texts: sequences of pieces
          Premium,         \* users whose chain is gemini, then edge
          Callers,         \* tasks that call generate_voice
          Permits,         \* TTS_CONCURRENCY_LIMIT
          RetryAttempts,   \* TTS_RETRY_ATTEMPTS
          GeminiAttempts,  \* GEMINI_RETRY_ATTEMPTS
          GeminiModels,    \* length of the normalized model chain
          MaxCalls,        \* bound: calls of generate_voice
          MaxTroubles      \* bound: deletions, cancellations, crashes, cleanups, failures

ASSUME VoiceAssumption ==
    /\ Premium \subseteq Users
    /\ Clips = Texts \X {"edge", "gemini"}
    /\ Scripts \subseteq Seq(Texts) \ {<<>>}
    /\ {Permits, RetryAttempts, GeminiAttempts, GeminiModels} \subseteq Nat \ {0}

VARIABLES
    call,       \* where each task is, and its local variables
    disk,       \* temporary audio files
    calls,      \* number of the last call
    troubles,
    stray       \* history: files left by cancelled conversions and crashes

voiceVars == <<cacheVars, call, disk, calls, troubles, stray>>

NoCall == [at |-> "idle", id |-> 0, user |-> CHOOSE u \in Users : TRUE, script |-> <<>>,
           piece |-> 0, chain |-> <<>>, attempt |-> 0, model |-> 0, late |-> FALSE]
VoiceInit ==
    /\ CacheInit
    /\ call = [t \in Callers |-> NoCall]
    /\ disk = {}
    /\ calls = 0
    /\ troubles = 0
    /\ stray = {}

------------------------------------------------------------------------------
\* The files of a call, by unique path.

Raw(t) == {<<call[t].id, call[t].piece, "raw">>}
Ogg(t) == {<<call[t].id, call[t].piece, "ogg">>}

\* generated_files
Generated(t) ==
    {<<call[t].id, n, "ogg">> : n \in 1..(call[t].piece - IF call[t].at = "telling" THEN 0 ELSE 1)}

Working == {"speaking", "packing", "converting", "pausing"}
Held(t) ==
    CASE call[t].at = "idle" -> {}
      [] call[t].at = "converting" -> Generated(t) \cup Raw(t) \cup Ogg(t)
      [] call[t].at \in Working \ {"converting"} -> Generated(t) \cup Raw(t)
      [] OTHER -> Generated(t)

Chain(u) == IF u \in Premium THEN <<"gemini", "edge">> ELSE <<"edge">>
Clip(t, provider) == <<call[t].script[call[t].piece], provider>>
SemaphoreFree == Cardinality({t \in Callers : call[t].at \in Working}) < Permits

At(t, place) == call' = [call EXCEPT ![t].at = place]
Trouble ==
    /\ troubles < MaxTroubles
    /\ troubles' = troubles + 1

------------------------------------------------------------------------------
\* A task asks for the audio of a text.
Call(t) ==
    /\ call[t].at = "idle"
    /\ calls < MaxCalls
    /\ calls' = calls + 1
    /\ \E u \in Users, script \in Scripts :
           call' = [call EXCEPT ![t] = [NoCall EXCEPT !.at = "waiting", !.id = calls + 1,
                                        !.user = u, !.script = script, !.piece = 1]]
    /\ UNCHANGED <<cacheVars, disk, troubles, stray>>

\* The loop over the providers: those not tried yet, looked up in the cache and asked.
\* `dropped' are the files of the provider before.
Ask(t, chain, dropped) ==
    LET me == call[t] clip == Clip(t, Head(chain)) IN
    \/ /\ cache[clip].file # "none"
       /\ GetAudioFromCache(clip, me.user, me.late)
       /\ disk' = (disk \ dropped) \cup Ogg(t)
       /\ call' = [call EXCEPT ![t].at = "telling", ![t].chain = <<>>]
    \/ /\ cache[clip].file = "none"
       /\ disk' = (disk \ dropped) \cup Raw(t)
       /\ call' = [call EXCEPT ![t].at = "speaking", ![t].chain = chain,
                               ![t].attempt = 1, ![t].model = 1]
       /\ UNCHANGED cacheVars

\* The next piece gets its permit.
Begin(t) ==
    /\ call[t].at = "waiting"
    /\ SemaphoreFree
    /\ Ask(t, Chain(call[t].user), {})
    /\ UNCHANGED <<calls, troubles, stray>>

\* Slip: the files of the attempt are left where they are.
GiveUpKeeps(t, dropped) ==
    /\ disk' = disk \ dropped
    /\ call' = [call EXCEPT ![t] = NoCall]
    /\ UNCHANGED cacheVars

\* generate_voice gives up: the files it made are removed, the caller gets [].
GiveUp(t, dropped) ==
    /\ disk' = disk \ (dropped \cup Generated(t))
    /\ call' = [call EXCEPT ![t] = NoCall]
    /\ UNCHANGED cacheVars

\* Edge is the last provider of every chain the handlers build, gemini the first.
NextProvider(t, dropped) == Ask(t, Tail(call[t].chain), dropped)

------------------------------------------------------------------------------
\* Edge: speech, then conversion, retried together.

EdgeFailed(t, dropped) ==
    \/ /\ call[t].attempt < RetryAttempts
       /\ disk' = disk \ dropped
       /\ At(t, "pausing")
       /\ UNCHANGED cacheVars
    \/ /\ call[t].attempt = RetryAttempts
       /\ GiveUp(t, dropped \cup Raw(t))

\* The pause ends: the old mp3 is removed and a new one begun.
Retry(t) ==
    /\ call[t].at = "pausing"
    /\ call' = [call EXCEPT ![t].at = "speaking", ![t].attempt = @ + 1]
    /\ UNCHANGED <<cacheVars, disk, calls, troubles, stray>>

\* Gemini: each model has its attempts; quota and missing models end them at once,
\* an error of no known kind ends the provider.
GeminiFailed(t) ==
    \/ /\ call[t].attempt < GeminiAttempts
       /\ call' = [call EXCEPT ![t].attempt = @ + 1]
       /\ UNCHANGED <<cacheVars, disk>>
    \/ /\ call[t].model < GeminiModels
       /\ call' = [call EXCEPT ![t].attempt = 1, ![t].model = @ + 1]
       /\ UNCHANGED <<cacheVars, disk>>
    \/ /\ call[t].attempt = GeminiAttempts \/ call[t].model = GeminiModels
       /\ NextProvider(t, Raw(t))

Spoken(t) ==
    /\ call[t].at = "speaking"
    /\ IF Head(call[t].chain) = "gemini"
       THEN At(t, "packing") /\ UNCHANGED disk
       ELSE At(t, "converting") /\ disk' = disk \cup Ogg(t)
    /\ UNCHANGED <<cacheVars, calls, troubles, stray>>

SpeechFails(t) ==
    /\ call[t].at = "speaking"
    /\ Trouble
    /\ IF Head(call[t].chain) = "gemini" THEN GeminiFailed(t) ELSE EdgeFailed(t, {})
    /\ UNCHANGED <<calls, stray>>

\* The thread has written the WAV file.
Packed(t) ==
    /\ call[t].at = "packing"
    /\ At(t, "converting")
    /\ disk' = disk \cup Ogg(t)
    /\ UNCHANGED <<cacheVars, calls, troubles, stray>>

PackingFails(t) ==
    /\ call[t].at = "packing"
    /\ Trouble
    /\ NextProvider(t, Raw(t))
    /\ UNCHANGED <<calls, stray>>

ConversionFails(t) ==
    /\ call[t].at = "converting"
    /\ Trouble
    /\ IF Head(call[t].chain) = "gemini" THEN NextProvider(t, Raw(t) \cup Ogg(t))
                                        ELSE EdgeFailed(t, Ogg(t))
    /\ UNCHANGED <<calls, stray>>

\* ffmpeg is done: the raw file goes, the permit is returned, the clip is cached.
Converted(t) ==
    LET me == call[t] clip == Clip(t, Head(me.chain)) IN
    /\ me.at = "converting"
    /\ disk' = disk \ Raw(t)
    /\ call' = [call EXCEPT ![t].at = "telling", ![t].chain = <<>>]
    /\ \/ /\ SaveAudioToCache(clip, me.user, me.late)
          /\ UNCHANGED troubles
       \/ \E gone \in SUBSET Clips \ {{}} :
             /\ CleanupAudioCache(clip, me.user, me.late, gone)
             /\ Trouble
    /\ UNCHANGED <<calls, stray>>

\* The progress callback is back: the next piece, or the files go to the caller.
Told(t) ==
    /\ call[t].at = "telling"
    /\ \/ /\ call[t].piece < Len(call[t].script)
          /\ call' = [call EXCEPT ![t].at = "waiting", ![t].piece = @ + 1]
          /\ UNCHANGED disk
       \/ /\ call[t].piece = Len(call[t].script)
          /\ call' = [call EXCEPT ![t] = NoCall]
          /\ disk' = disk \ Generated(t)
    /\ UNCHANGED <<cacheVars, calls, troubles, stray>>

------------------------------------------------------------------------------
\* CancelledError at the await the task is suspended at.  convert_to_ogg does not
\* catch it, and the packing thread may write the file after it was removed.
CancelLeaves(t) ==
    CASE call[t].at = "converting" -> {Ogg(t)}
      [] call[t].at = "packing" -> {{}, Raw(t)}
      [] OTHER -> {{}}

Cancel(t) ==
    /\ call[t].at # "idle"
    /\ Trouble
    /\ \E left \in CancelLeaves(t) :
           /\ disk' = disk \ (Held(t) \ left)
           /\ stray' = stray \cup left
    /\ call' = [call EXCEPT ![t] = NoCall]
    /\ UNCHANGED <<cacheVars, calls>>

\* /delete_my_data of u; the generations under way are not stopped by it.
Erase(u) ==
    /\ \E c \in Clips : cache[c] # Absent
    /\ Trouble
    /\ DeleteUserAudioCache(u)
    /\ call' = [t \in Callers |->
                    IF call[t].at # "idle" /\ call[t].user = u
                    THEN [call[t] EXCEPT !.late = TRUE] ELSE call[t]]
    /\ UNCHANGED <<disk, calls, stray>>

\* The process dies, between two steps or in the middle of one.
Crash ==
    /\ Trouble
    /\ \/ UNCHANGED cacheVars
       \/ \E t \in Callers :
             /\ call[t].at = "converting"
             /\ CrashInSave(Clip(t, Head(call[t].chain)), call[t].user)
       \/ \E c \in Clips, u \in Users : \E done \in SUBSET {d \in Clips \ {c} : u \in cache[d].owners} :
             CrashInDelete(c, u, done)
    /\ call' = [t \in Callers |-> NoCall]
    /\ stray' = disk
    /\ UNCHANGED <<disk, calls>>

VoiceNext ==
    \/ \E t \in Callers :
           \/ Call(t) \/ Begin(t) \/ Spoken(t) \/ SpeechFails(t) \/ Retry(t)
           \/ Packed(t) \/ PackingFails(t) \/ Converted(t) \/ ConversionFails(t)
           \/ Told(t) \/ Cancel(t)
    \/ \E u \in Users : Erase(u)
    \/ Crash

VoiceSpec == VoiceInit /\ [][VoiceNext]_voiceVars

------------------------------------------------------------------------------
(* Whatever fails, retries or is cancelled, every temporary audio file on  *)
(* disk belongs to a call under way, except those a cancelled conversion   *)
(* or a crash left behind, and no call lacks a file it counts on.          *)
VoiceFilesAccounted ==
    /\ disk = stray \cup UNION {Held(t) : t \in Callers}
    /\ \A t \in Callers : Held(t) \cap stray = {}
=============================================================================
