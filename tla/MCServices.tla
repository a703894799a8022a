----------------------------- MODULE MCServices -----------------------------
(***************************************************************************)
(* The services that share no state with one another, side by side: a      *)
(* behaviour is one of the service `focus' names, while the others stand   *)
(* still, so that their state spaces add up instead of multiplying.        *)
(***************************************************************************)
EXTENDS VoiceGeneration, UserActivity, RateLimit, Telemetry, TextSplitter, SequencesExt, TLC

CONSTANTS u1, u2, x, y, t1, t2, m1, m2, e1, e2

VARIABLE focus

MCClips == {x, y} \X {"edge", "gemini"}
MCScripts == {<<x, y>>}

\* Paragraphs of short and long words, with a double blank, at every boundary of MaxLength.
MCWords ==
    {<<a>> : a \in {1, 2, 4, 5, 6, 11}} \cup {<<a, b>> : a, b \in {1, 3, 5}}
    \cup {<<1, 0, 2>>, <<2, 11, 1>>, <<5, 0, 10>>}
MCParagraphs ==
    {[length |-> FoldSeq(LAMBDA a, sum : a + sum, Len(w) - 1, w), words |-> w] : w \in MCWords}
MCInputs == UNION {[1..n -> MCParagraphs] : n \in 1..3}
MCSymmetry == Permutations({t1, t2}) \cup Permutations({m1, m2}) \cup Permutations({e1, e2})

ServicesInit ==
    /\ focus \in {"voice", "activity", "limit", "telemetry", "splitter"}
    /\ VoiceInit /\ ActivityInit /\ LimitInit /\ TelemetryInit /\ SplitterInit
    /\ focus # "splitter" => text = <<[length |-> 1, words |-> <<1>>]>>

ServicesNext ==
    /\ UNCHANGED focus
    /\ \/ /\ focus = "voice"
          /\ VoiceNext
          /\ UNCHANGED <<activityVars, limitVars, telemetryVars, splitterVars>>
       \/ /\ focus = "activity"
          /\ ActivityNext
          /\ UNCHANGED <<voiceVars, limitVars, telemetryVars, splitterVars>>
       \/ /\ focus = "limit"
          /\ LimitNext
          /\ UNCHANGED <<voiceVars, activityVars, telemetryVars, splitterVars>>
       \/ /\ focus = "telemetry"
          /\ TelemetryNext
          /\ UNCHANGED <<voiceVars, activityVars, limitVars, splitterVars>>
       \/ /\ focus = "splitter"
          /\ SplitterNext
          /\ UNCHANGED <<voiceVars, activityVars, limitVars, telemetryVars>>

ServicesSpec ==
    ServicesInit
        /\ [][ServicesNext]_<<focus, voiceVars, activityVars, limitVars, telemetryVars, splitterVars>>
=============================================================================
