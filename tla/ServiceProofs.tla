---------------------------- MODULE ServiceProofs ----------------------------
(***************************************************************************)
(* Four services that stand alone.                                         *)
(*                                                                         *)
(* ActivityTrue for any number of concurrent updates and any length of a   *)
(* behaviour: a snapshot that spares the registration stands for a row     *)
(* with the user's name.                                                   *)
(*                                                                         *)
(* TextKept for every text and every MaxLength: no chunk is empty or too   *)
(* long, and the chunks hold the words in order, each once.                *)
(*                                                                         *)
(* MetricsOutliveClose for every size of the queue and any number of       *)
(* metrics and faults: what was recorded before the telemetry is closed is *)
(* accounted for when it has closed, and join() waits for exactly what is  *)
(* queued or held.                                                         *)
(*                                                                         *)
(* WindowRespected for every period, limit and number of updates: a window *)
(* holds all that its limiter let through and may still count.             *)
(***************************************************************************)
EXTENDS UserActivity, TextSplitter, Telemetry, RateLimit, Integers, FiniteSetTheorems, TLAPS

------------------------------------------------------------------------------
(* The inductive invariant: an update that has registered the user, and is *)
(* about to remember it, knows whether a deletion undid the registration.  *)

ActivityTypes ==
    /\ row \in [name : {"absent", "real", "erased"}, banned : BOOLEAN]
    /\ update \in [Updates -> [at : {"idle", "registering", "remembering", "screening", "handled"},
                               now : Nat, undone : BOOLEAN]]
    /\ clock \in Nat
    /\ snapshot \in Nat

RegistrationKnown ==
    \A m \in Updates :
        update[m].at = "remembering" /\ ~update[m].undone => row.name = "real"

ActivityInv == ActivityTypes /\ RegistrationKnown /\ ActivityTrue

\* Nothing is remembered before the first update.
LEMMA ActivityInitially == ActivityInit => ActivityInv
  BY ActivityAssumption
  DEF ActivityInit, ActivityInv, ActivityTypes, RegistrationKnown, ActivityTrue, Resting, Never

\* What moving an update does to the records of the updates.
LEMMA UpdateMoved ==
    ASSUME ActivityTypes, NEW m \in Updates, NEW now \in Nat,
           NEW place \in {"idle", "registering", "remembering", "screening", "handled"},
           update' = UpdateAt(m, place, now)
    PROVE  /\ update' \in [Updates -> [at : {"idle", "registering", "remembering", "screening", "handled"},
                                       now : Nat, undone : BOOLEAN]]
           /\ update'[m].at = place
           /\ \A k \in Updates : update'[k].undone = update[k].undone
           /\ \A k \in Updates : k # m => update'[k].at = update[k].at
  BY DEF ActivityTypes, UpdateAt

\* A step of an update in the middleware preserves the invariant.
LEMMA MiddlewareStep ==
    ASSUME ActivityInv, NEW m \in Updates, Arrive(m) \/ Register(m) \/ Remember(m)
    PROVE  ActivityInv'
<1> USE DEF ActivityInv
<1>1. CASE Arrive(m)
  <2>1. PICK place \in {"registering", "screening"}, now \in Nat : update' = UpdateAt(m, place, now)
    BY <1>1 DEF Arrive, ActivityTypes
  <2>2. ActivityTypes'
    BY <1>1, <2>1, UpdateMoved DEF Arrive, ActivityTypes
  <2>3. RegistrationKnown'
    BY <1>1, <2>1, UpdateMoved DEF Arrive, RegistrationKnown
  <2> QED
    BY <1>1, <2>2, <2>3 DEF Arrive, ActivityTrue
<1>2. CASE Register(m)
  <2>0. update[m].now \in Nat
    BY DEF ActivityTypes
  <2>1. CASE row' = [row EXCEPT !.name = "real"] /\ update' = UpdateAt(m, "remembering", update[m].now)
    <3>1. row'.name = "real"
      BY <2>1 DEF ActivityTypes
    <3>2. ActivityTypes'
      BY <1>2, <2>0, <2>1, UpdateMoved DEF Register, ActivityTypes
    <3> QED
      BY <3>1, <3>2 DEF RegistrationKnown, ActivityTrue
  <2>2. CASE update' = UpdateAt(m, "screening", 0) /\ UNCHANGED row
    <3>1. ActivityTypes'
      BY <1>2, <2>2, UpdateMoved DEF Register, ActivityTypes
    <3>2. RegistrationKnown'
      BY <2>2, UpdateMoved DEF RegistrationKnown
    <3> QED
      BY <1>2, <2>2, <3>1, <3>2 DEF Register, ActivityTrue
  <2> QED
    BY <1>2, <2>1, <2>2 DEF Register
<1>3. CASE Remember(m)
  <2>1. /\ snapshot' = update[m].now /\ raced' = update[m].undone /\ UNCHANGED <<clock, row, eraser>>
        /\ update' = [update EXCEPT ![m] = [Resting EXCEPT !.at = "screening"]]
    BY <1>3 DEF Remember
  <2>2. ActivityTypes'
    BY <2>1 DEF ActivityTypes, Resting
  <2>3. RegistrationKnown'
    BY <2>1 DEF RegistrationKnown, ActivityTypes, Resting
  <2>4. ActivityTrue'
    BY <1>3, <2>1 DEF Remember, ActivityTrue, RegistrationKnown
  <2> QED
    BY <2>2, <2>3, <2>4
<1> QED
  BY <1>1, <1>2, <1>3

\* So does every step.
LEMMA ActivityStep ==
    ASSUME ActivityInv, [ActivityNext]_activityVars PROVE ActivityInv'
<1> USE DEF ActivityInv
<1>1. CASE \E m \in Updates : Arrive(m) \/ Register(m) \/ Remember(m)
  BY <1>1, MiddlewareStep
<1>2. ASSUME NEW m \in Updates, Screen(m) \/ Handle(m) PROVE ActivityInv'
  <2>1. UNCHANGED <<clock, row, snapshot, invalidated, eraser, raced>>
    BY <1>2 DEF Screen, Handle
  <2>2. \/ update' = [update EXCEPT ![m] = Resting]
        \/ update' = UpdateAt(m, "handled", 0)
    BY <1>2 DEF Screen, Handle
  <2>3. ActivityTypes' /\ RegistrationKnown'
    <3>1. CASE update' = [update EXCEPT ![m] = Resting]
      BY <2>1, <3>1 DEF ActivityTypes, RegistrationKnown, Resting
    <3>2. CASE update' = UpdateAt(m, "handled", 0)
      BY <2>1, <3>2, UpdateMoved DEF ActivityTypes, RegistrationKnown
    <3> QED
      BY <2>2, <3>1, <3>2
  <2> QED
    BY <2>1, <2>3 DEF ActivityTrue
<1>3. CASE Evict
  BY <1>3, ActivityAssumption DEF Evict, ActivityTypes, RegistrationKnown, ActivityTrue, Never
<1>4. CASE ErasePrivateData
  <2>1. \A m \in Updates : update'[m] = [update[m] EXCEPT !.undone = update[m].at = "remembering"]
    BY <1>4 DEF ErasePrivateData
  <2>2. ActivityTypes'
    BY <1>4 DEF ErasePrivateData, ActivityTypes
  <2>3. ASSUME NEW m \in Updates, update'[m].at = "remembering" PROVE update'[m].undone
    <3>1. update'[m].at = update[m].at
      BY <2>1 DEF ActivityTypes
    <3>2. update'[m].undone = (update[m].at = "remembering")
      BY <2>1 DEF ActivityTypes
    <3> QED
      BY <2>3, <3>1, <3>2
  <2>4. RegistrationKnown'
    BY <2>3 DEF RegistrationKnown
  <2> QED
    BY <1>4, <2>2, <2>4 DEF ErasePrivateData, ActivityTrue
<1>5. CASE Invalidate
  BY <1>5 DEF Invalidate, ActivityTypes, RegistrationKnown, ActivityTrue
<1>6. CASE SetBan
  <2>1. row'.name = row.name /\ row' \in [name : {"absent", "real", "erased"}, banned : BOOLEAN]
    BY <1>6 DEF SetBan, ActivityTypes
  <2> QED
    BY <1>6, <2>1 DEF SetBan, ActivityTypes, RegistrationKnown, ActivityTrue
<1>7. CASE ActivityTick
  BY <1>7 DEF ActivityTick, ActivityTypes, RegistrationKnown, ActivityTrue
<1>8. CASE UNCHANGED activityVars
  BY <1>8 DEF activityVars, ActivityTypes, RegistrationKnown, ActivityTrue
<1> QED
  BY <1>1, <1>2, <1>3, <1>4, <1>5, <1>6, <1>7, <1>8 DEF ActivityNext

\* A user whose data were deleted is registered again before the next update goes on,
\* unless the deletion fell between a registration and its snapshot.
THEOREM ActivityTrueHolds == ActivitySpec => []ActivityTrue
<1>1. ActivityInv => ActivityTrue
  BY DEF ActivityInv
<1>2. ActivityInv /\ [ActivityNext]_activityVars => ActivityInv'
  BY ActivityStep
<1> QED
  BY <1>1, <1>2, ActivityInitially, PTL DEF ActivitySpec

------------------------------------------------------------------------------
(* The inductive invariant: the chunks cut so far follow one another up to *)
(* the letter that the next chunk will begin with; what is being collected *)
(* is empty, or holds more than its trailing separator and fits without    *)
(* it.                                                                     *)

Chunk == [first : Nat, last : Nat, length : Nat]
Collected == [first : Nat, length : Nat, blank : Nat]

KeptUpTo(pieces, next) ==
    /\ pieces \in Seq(Chunk)
    /\ \A n \in DOMAIN pieces :
          /\ ChunkFits(pieces[n])
          /\ pieces[n].first = IF n = 1 THEN 1 ELSE pieces[n - 1].last + 1
    /\ next = IF pieces = <<>> THEN 1 ELSE pieces[Len(pieces)].last + 1

NextFirst == IF current.length = 0 THEN taken + 1 ELSE current.first

CurrentFits ==
    \/ current = Empty
    \/ /\ current.length > current.blank
       /\ current.length - current.blank <= MaxLength

SplitterInv ==
    /\ text \in Seq(Paragraph)
    /\ words \in Seq(Nat)
    /\ taken \in Nat
    /\ current \in Collected
    /\ CurrentFits
    /\ KeptUpTo(chunks, NextFirst)

LEMMA EmptyCollected ==
    Empty \in Collected /\ Empty.length = 0 /\ Empty.blank = 0 /\ Empty.first = 0
  BY DEF Empty, Collected

LEMMA ParagraphFields ==
    ASSUME NEW p \in Paragraph
    PROVE  /\ p.length \in Nat \ {0} /\ p.words \in Seq(Nat)
           /\ Letters(p) \in Nat
<1>1. p.length \in Nat /\ p.words \in Seq(Nat) /\ Len(p.words) \in 1..p.length
  BY DEF Paragraph
<1>2. Len(p.words) \in Nat
  BY <1>1
<1> QED
  BY <1>1, <1>2 DEF Letters

------------------------------------------------------------------------------
\* A chunk that begins where the others end, and fits, can be added.
LEMMA ChunkAdded ==
    ASSUME NEW pieces, NEW next \in Nat, NEW chunk \in Chunk,
           KeptUpTo(pieces, next), ChunkFits(chunk), chunk.first = next
    PROVE  KeptUpTo(Append(pieces, chunk), chunk.last + 1)
<1> DEFINE longer == Append(pieces, chunk)
<1>1. pieces \in Seq(Chunk)
  BY DEF KeptUpTo
<1>2. /\ longer \in Seq(Chunk)
      /\ Len(longer) = Len(pieces) + 1 /\ Len(pieces) \in Nat
      /\ longer[Len(pieces) + 1] = chunk
      /\ \A n \in 1..Len(pieces) : longer[n] = pieces[n]
      /\ DOMAIN longer = 1..(Len(pieces) + 1)
      /\ DOMAIN pieces = 1..Len(pieces)
      /\ longer # <<>>
  <2>1. longer \in Seq(Chunk)
    BY <1>1
  <2>2. Len(longer) = Len(pieces) + 1 /\ Len(pieces) \in Nat
    BY <1>1
  <2>3. longer[Len(pieces) + 1] = chunk
    BY <1>1
  <2>4. ASSUME NEW n \in 1..Len(pieces) PROVE longer[n] = pieces[n]
    BY <1>1
  <2>5. DOMAIN longer = 1..(Len(pieces) + 1) /\ DOMAIN pieces = 1..Len(pieces)
    BY <1>1
  <2>6. longer # <<>>
    BY <2>2
  <2> QED
    BY <2>1, <2>2, <2>3, <2>4, <2>5, <2>6
<1>3. longer[Len(longer)] = chunk
  BY <1>2
<1>4. pieces = <<>> <=> Len(pieces) = 0
  BY <1>1
<1>5. ASSUME NEW n \in DOMAIN longer
      PROVE  /\ ChunkFits(longer[n])
             /\ longer[n].first = IF n = 1 THEN 1 ELSE longer[n - 1].last + 1
  <2> HIDE DEF longer
  <2>1. n \in 1..(Len(pieces) + 1) /\ Len(pieces) \in Nat
    BY <1>2
  <2>2. CASE n \in 1..Len(pieces)
    <3>1. longer[n] = pieces[n] /\ n \in DOMAIN pieces
      BY <1>2, <2>2
    <3>2. n # 1 => n - 1 \in 1..Len(pieces)
      BY <2>1, <2>2
    <3>3. n # 1 => longer[n - 1] = pieces[n - 1]
      BY <1>2, <3>2
    <3> QED
      BY <3>1, <3>3 DEF KeptUpTo
  <2>3. CASE n = Len(pieces) + 1
    <3>1. longer[n] = chunk
      BY <1>2, <2>3
    <3>2. n = 1 <=> pieces = <<>>
      BY <1>4, <2>1, <2>3
    <3>3. n # 1 => longer[n - 1] = pieces[Len(pieces)]
      BY <1>2, <2>1, <2>3
    <3> QED
      BY <3>1, <3>2, <3>3 DEF KeptUpTo
  <2> QED
    BY <2>1, <2>2, <2>3
<1> HIDE DEF longer
<1>6. KeptUpTo(longer, chunk.last + 1)
  BY <1>2, <1>3, <1>5 DEF KeptUpTo
<1> QED
  BY <1>6 DEF longer

\* _append_chunk keeps the order, whether there is something to append or not.
LEMMA AppendedKept ==
    ASSUME SplitterInv PROVE KeptUpTo(Appended, taken + 1)
<1> USE SplitterAssumption
<1>1. CASE current.length = current.blank
  <2>1. current.length = 0
    BY <1>1, EmptyCollected DEF SplitterInv, CurrentFits, Collected
  <2> QED
    BY <1>1, <2>1 DEF SplitterInv, Appended, NextFirst
<1>2. CASE current.length # current.blank
  <2> DEFINE chunk == [first |-> current.first, last |-> taken,
                       length |-> current.length - current.blank]
  <2>1. current.length > current.blank /\ current.length - current.blank <= MaxLength
    BY <1>2, EmptyCollected DEF SplitterInv, CurrentFits
  <2>2. chunk.length \in 1..MaxLength /\ chunk \in Chunk
    BY <2>1 DEF SplitterInv, Collected, Chunk
  <2>3. ChunkFits(chunk) /\ chunk.first = current.first /\ chunk.last = taken
    BY <2>2 DEF ChunkFits
  <2>4. KeptUpTo(chunks, current.first) /\ current.first \in Nat
    BY <2>1 DEF SplitterInv, Collected, NextFirst
  <2>5. Appended = Append(chunks, chunk)
    BY <1>2 DEF Appended
  <2> HIDE DEF chunk
  <2>6. KeptUpTo(Append(chunks, chunk), chunk.last + 1)
    BY <2>2, <2>3, <2>4, ChunkAdded
  <2> QED
    BY <2>3, <2>5, <2>6
<1> QED
  BY <1>1, <1>2

\* A piece that fits is collected: at once, or in a chunk of its own.
LEMMA PieceCollected ==
    ASSUME SplitterInv, NEW length \in Nat \ {0}, NEW blank \in Nat, length <= MaxLength,
           taken' \in Nat,
           \/ /\ Fits(length, blank)
              /\ current' = Extended(length, blank)
              /\ UNCHANGED chunks
           \/ /\ ~Fits(length, blank)
              /\ current' = Started(length, blank)
              /\ chunks' = Appended
    PROVE  current' \in Collected /\ CurrentFits' /\ KeptUpTo(chunks, NextFirst)'
<1> USE SplitterAssumption
<1>1. CASE Fits(length, blank) /\ current' = Extended(length, blank) /\ UNCHANGED chunks
  <2>1. current' \in Collected
    BY <1>1 DEF SplitterInv, Collected, Extended
  <2>2. current'.length = current.length + length + blank /\ current'.blank = blank
    BY <1>1 DEF Extended
  <2>3. CurrentFits'
    <3>1. current.length \in Nat /\ current.length + length + blank <= MaxLength
      BY <1>1 DEF SplitterInv, Collected, Fits
    <3>2. current'.length > current'.blank /\ current'.length - current'.blank <= MaxLength
      BY <2>2, <3>1
    <3> QED
      BY <3>2 DEF CurrentFits
  <2>4. current'.length # 0
    BY <2>2 DEF SplitterInv, Collected
  <2>5. NextFirst' = NextFirst
    BY <1>1, <2>4 DEF NextFirst, Extended
  <2> QED
    BY <1>1, <2>1, <2>3, <2>5 DEF SplitterInv, KeptUpTo
<1>2. CASE ~Fits(length, blank) /\ current' = Started(length, blank) /\ chunks' = Appended
  <2>1. current' \in Collected
    BY <1>2 DEF SplitterInv, Collected, Started
  <2>2. current'.length = length + blank /\ current'.blank = blank /\ current'.first = taken + 1
    BY <1>2 DEF Started
  <2>3. CurrentFits'
    BY <2>2 DEF CurrentFits
  <2>4. NextFirst' = taken + 1
    BY <2>2 DEF NextFirst
  <2> QED
    BY <1>2, <2>1, <2>3, <2>4, AppendedKept DEF KeptUpTo
<1> QED
  BY <1>1, <1>2

------------------------------------------------------------------------------
\* The invariant holds of an input no letter of which was taken yet.
LEMMA SplitterInitially == SplitterInit => SplitterInv
<1> SUFFICES ASSUME SplitterInit PROVE SplitterInv
  OBVIOUS
<1>1. text \in Seq(Paragraph)
  BY SplitterAssumption DEF SplitterInit
<1>2. words \in Seq(Nat) /\ taken \in Nat /\ current \in Collected /\ CurrentFits
  BY EmptyCollected DEF SplitterInit, CurrentFits
<1>3. chunks = <<>> /\ <<>> \in Seq(Chunk) /\ DOMAIN chunks = {}
  BY DEF SplitterInit
<1>4. NextFirst = 1
  BY EmptyCollected DEF SplitterInit, NextFirst
<1>5. KeptUpTo(chunks, NextFirst)
  BY <1>3, <1>4 DEF KeptUpTo
<1> QED
  BY <1>1, <1>2, <1>5 DEF SplitterInv

\* Every turn of a loop preserves it.
LEMMA SplitterStep ==
    ASSUME SplitterInv, [SplitterNext]_splitterVars PROVE SplitterInv'
<1> USE SplitterAssumption
<1>1. CASE TakeParagraph
  <2> DEFINE p == Head(text)
  <2>1. p \in Paragraph /\ text' \in Seq(Paragraph)
    BY <1>1 DEF TakeParagraph, SplitterInv
  <2>2. p.length \in Nat \ {0} /\ Letters(p) \in Nat
    BY <2>1, ParagraphFields
  <2>3. p.length <= MaxLength /\ Separator \in Nat
    BY <1>1, <2>2 DEF TakeParagraph, Separator
  <2>4. taken' \in Nat /\ words' \in Seq(Nat)
    BY <1>1, <2>2 DEF TakeParagraph, SplitterInv
  <2>5. \/ /\ Fits(p.length, Separator)
           /\ current' = Extended(p.length, Separator)
           /\ UNCHANGED chunks
        \/ /\ ~Fits(p.length, Separator)
           /\ current' = Started(p.length, Separator)
           /\ chunks' = Appended
    BY <1>1 DEF TakeParagraph
  <2> HIDE DEF p
  <2>6. current' \in Collected /\ CurrentFits' /\ KeptUpTo(chunks, NextFirst)'
    BY <2>2, <2>3, <2>4, <2>5, PieceCollected
  <2> QED
    BY <2>1, <2>4, <2>6 DEF SplitterInv
<1>2. CASE OpenParagraph
  <2>1. Head(text) \in Paragraph /\ text' \in Seq(Paragraph)
    BY <1>2 DEF OpenParagraph, SplitterInv
  <2>2. words' \in Seq(Nat)
    BY <1>2, <2>1, ParagraphFields DEF OpenParagraph
  <2> QED
    BY <1>2, <2>1, <2>2
    DEF OpenParagraph, SplitterInv, CurrentFits, NextFirst, KeptUpTo
<1>3. CASE SkipWord
  <2>1. words' \in Seq(Nat)
    BY <1>3 DEF SkipWord, SplitterInv
  <2> QED
    BY <1>3, <2>1 DEF SkipWord, SplitterInv, CurrentFits, NextFirst, KeptUpTo
<1>4. CASE AddWord
  <2>1. words' \in Seq(Nat) /\ text' \in Seq(Paragraph) /\ taken' \in Nat
    BY <1>4 DEF AddWord, SplitterInv
  <2>2. Head(words) \in Nat \ {0} /\ Head(words) <= MaxLength
    BY <1>4 DEF AddWord
  <2>3. \/ /\ Fits(Head(words), 1)
           /\ current' = Extended(Head(words), 1)
           /\ UNCHANGED chunks
        \/ /\ ~Fits(Head(words), 1)
           /\ current' = Started(Head(words), 1)
           /\ chunks' = Appended
    BY <1>4 DEF AddWord
  <2>4. current' \in Collected /\ CurrentFits' /\ KeptUpTo(chunks, NextFirst)'
    BY <2>1, <2>2, <2>3, PieceCollected
  <2> QED
    BY <2>1, <2>4 DEF SplitterInv
<1>5. CASE SplitWord
  <2> DEFINE part == [first |-> taken + 1, last |-> taken + MaxLength, length |-> MaxLength]
  <2>1. Head(words) - MaxLength \in Nat /\ Tail(words) \in Seq(Nat)
    BY <1>5 DEF SplitWord, SplitterInv
  <2>2. words' \in Seq(Nat)
    <3>1. <<Head(words) - MaxLength>> \in Seq(Nat)
      BY <2>1
    <3> QED
      BY <1>5, <2>1, <3>1 DEF SplitWord
  <2>3. text' \in Seq(Paragraph) /\ taken' = taken + MaxLength /\ taken \in Nat /\ taken' \in Nat
    BY <1>5 DEF SplitWord, SplitterInv
  <2>4. current' \in Collected /\ CurrentFits' /\ NextFirst' = taken' + 1
    BY <1>5, EmptyCollected DEF SplitWord, CurrentFits, NextFirst
  <2>5. part \in Chunk /\ ChunkFits(part) /\ part.first = taken + 1 /\ part.last + 1 = taken' + 1
    BY <2>3 DEF Chunk, ChunkFits
  <2>6. chunks' = Append(Appended, part) /\ taken + 1 \in Nat
    BY <1>5, <2>3 DEF SplitWord, PartAdded
  <2> HIDE DEF part
  <2>7. KeptUpTo(Append(Appended, part), part.last + 1)
    BY <2>5, <2>6, AppendedKept, ChunkAdded
  <2>8. KeptUpTo(chunks', NextFirst')
    BY <2>4, <2>5, <2>6, <2>7
  <2>9. KeptUpTo(chunks, NextFirst)'
    BY <2>8 DEF KeptUpTo
  <2> QED
    BY <2>2, <2>3, <2>4, <2>9 DEF SplitterInv
<1>6. CASE Finish
  <2>1. current' \in Collected /\ CurrentFits' /\ NextFirst' = taken' + 1 /\ taken' = taken
    BY <1>6, EmptyCollected DEF Finish, CurrentFits, NextFirst
  <2>2. KeptUpTo(chunks', NextFirst')
    BY <1>6, <2>1, AppendedKept DEF Finish
  <2>3. KeptUpTo(chunks, NextFirst)'
    BY <2>2 DEF KeptUpTo
  <2> QED
    BY <1>6, <2>1, <2>3 DEF Finish, SplitterInv
<1>7. CASE UNCHANGED splitterVars
  BY <1>7 DEF splitterVars, SplitterInv, CurrentFits, NextFirst, KeptUpTo
<1> QED
  BY <1>1, <1>2, <1>3, <1>4, <1>5, <1>6, <1>7 DEF SplitterNext

\* Chunks of a legal length that hold the letters of the text from the first on, each
\* once and in order, and at the end all of them.
THEOREM TextKeptHolds == SplitterSpec => []TextKept
<1>1. SplitterInv => TextKept
  <2> SUFFICES ASSUME SplitterInv PROVE TextKept
    OBVIOUS
  <2>1. KeptUpTo(chunks, NextFirst) /\ taken \in Nat /\ chunks \in Seq(Chunk)
    BY DEF SplitterInv, KeptUpTo
  <2>2. LastLetter \in Nat /\ NextFirst = LastLetter + 1
    <3>1. chunks # <<>> => chunks[Len(chunks)] \in Chunk
      BY <2>1
    <3> QED
      BY <2>1, <3>1 DEF KeptUpTo, LastLetter, Chunk
  <2>3. CASE current = Empty
    BY <2>1, <2>2, <2>3, EmptyCollected DEF NextFirst, KeptUpTo, TextKept
  <2>4. CASE current # Empty
    <3>1. current.length # 0
      BY <2>4 DEF SplitterInv, CurrentFits, Collected
    <3> QED
      BY <2>1, <2>2, <2>4, <3>1 DEF NextFirst, KeptUpTo, TextKept
  <2> QED
    BY <2>3, <2>4
<1>2. SplitterInv /\ [SplitterNext]_splitterVars => SplitterInv'
  BY SplitterStep
<1> QED
  BY <1>1, <1>2, SplitterInitially, PTL DEF SplitterSpec

------------------------------------------------------------------------------
(* The inductive invariant.                                                *)

WorkerStates == {"none", "getting", "writing", "publishing", "cancelled", "stopping", "leaving"}
Phases == {"running", "flushing", "flushed", "cancelling", "ended", "broken"}

TelemetryTypes ==
    /\ queue \in 0..2
    /\ made \in 0..2
    /\ pending \in [Queues -> Seq(Metrics)]
    /\ unfinished \in [Queues -> Int]
    /\ worker \in [Queues -> [at : WorkerStates, metric : Nat]]
    /\ recorded \in Nat
    /\ phase \in Phases
    /\ outcome \in [stored : SUBSET Nat, failed : SUBSET Nat, dropped : SUBSET Nat]

\* A queue not made yet is empty and nobody works on it.
UnmadeEmpty ==
    \A q \in Queues : q > made =>
        worker[q].at = "none" /\ pending[q] = <<>> /\ unfinished[q] = 0

\* A worker holds a metric exactly between get() and task_done().
HeldExact ==
    \A q \in Queues : worker[q].metric = 0 <=> worker[q].at \in {"none", "getting", "cancelled"}

CountOf(q) == Len(pending[q]) + IF worker[q].metric = 0 THEN 0 ELSE 1
CountExact == \A q \in Queues : worker[q].at # "none" => unfinished[q] = CountOf(q)

\* Only the first queue is flushed and closed; a second one is made after that.
PhaseExact ==
    /\ queue # 0 => queue = made /\ worker[queue].at \in {"getting", "writing", "publishing"}
    /\ phase \in {"running", "flushing", "flushed", "broken"} => queue = made /\ made <= 1
    /\ phase \in {"flushing", "flushed"} => queue = 1
    /\ \A q \in Queues :
          worker[q].at \in {"cancelled", "stopping", "leaving"} => phase = "cancelling" /\ q = 1

\* Where the metrics recorded before the closing are.
Known == outcome.stored \cup outcome.failed \cup outcome.dropped
Elements(s) == {s[i] : i \in DOMAIN s}
Waiting(q) == Elements(pending[q])
HeldBy(q) == IF worker[q].at = "writing" THEN {worker[q].metric} ELSE {}
EarlyKept ==
    /\ made = 0 => early = {}
    /\ phase \in {"running", "flushing"} => early \subseteq Known \cup Waiting(1) \cup HeldBy(1)
    /\ phase \in {"flushed", "cancelling", "ended"} /\ ~late => early \subseteq Known

TelemetryInv ==
    TelemetryTypes /\ UnmadeEmpty /\ HeldExact /\ CountExact /\ PhaseExact /\ EarlyKept

------------------------------------------------------------------------------
\* Appending to and taking from a queue.
LEMMA QueueAppended ==
    ASSUME NEW S, NEW s \in Seq(S), NEW e \in S
    PROVE  /\ Append(s, e) \in Seq(S) /\ Len(Append(s, e)) = Len(s) + 1
           /\ Elements(Append(s, e)) = Elements(s) \cup {e}
<1> DEFINE t == Append(s, e)
<1>1. /\ t \in Seq(S) /\ Len(t) = Len(s) + 1 /\ Len(s) \in Nat
      /\ DOMAIN t = 1..(Len(s) + 1) /\ DOMAIN s = 1..Len(s)
      /\ t[Len(s) + 1] = e
      /\ \A i \in 1..Len(s) : t[i] = s[i]
  OBVIOUS
<1> DEFINE n == Len(s)
<1> HIDE DEF t, n
<1>2. /\ n \in Nat /\ DOMAIN t = 1..(n + 1) /\ DOMAIN s = 1..n
      /\ t[n + 1] = e /\ \A i \in 1..n : t[i] = s[i]
  BY <1>1 DEF n
<1>3. \A i \in DOMAIN t : i \in DOMAIN s \/ i = n + 1
  BY <1>2
<1>4. DOMAIN s \subseteq DOMAIN t /\ n + 1 \in DOMAIN t
  BY <1>2
<1>5. Elements(t) = Elements(s) \cup {e}
  BY <1>2, <1>3, <1>4 DEF Elements
<1> QED
  BY <1>1, <1>5 DEF t

LEMMA QueueTaken ==
    ASSUME NEW S, NEW s \in Seq(S), s # <<>>
    PROVE  /\ Head(s) \in S /\ Tail(s) \in Seq(S) /\ Len(Tail(s)) = Len(s) - 1
           /\ Elements(s) = Elements(Tail(s)) \cup {Head(s)}
<1> DEFINE t == Tail(s)
<1>1. /\ Head(s) \in S /\ t \in Seq(S) /\ Len(t) = Len(s) - 1 /\ Len(s) \in Nat /\ Len(s) > 0
      /\ DOMAIN t = 1..(Len(s) - 1) /\ DOMAIN s = 1..Len(s)
      /\ s[1] = Head(s)
      /\ \A i \in 1..(Len(s) - 1) : t[i] = s[i + 1]
  OBVIOUS
<1> DEFINE n == Len(s)
<1> HIDE DEF t, n
<1>2. /\ n \in Nat /\ n > 0 /\ DOMAIN t = 1..(n - 1) /\ DOMAIN s = 1..n
      /\ s[1] = Head(s) /\ \A i \in 1..(n - 1) : t[i] = s[i + 1]
  BY <1>1 DEF n
<1>3. ASSUME NEW i \in DOMAIN s, i # 1 PROVE i - 1 \in DOMAIN t /\ t[i - 1] = s[i]
  BY <1>2, <1>3
<1>4. \A i \in DOMAIN t : i + 1 \in DOMAIN s /\ t[i] = s[i + 1]
  BY <1>2
<1>5. 1 \in DOMAIN s
  BY <1>2
<1>6. Elements(s) \subseteq Elements(t) \cup {Head(s)}
  <2> SUFFICES ASSUME NEW i \in DOMAIN s PROVE s[i] \in Elements(t) \cup {Head(s)}
    BY DEF Elements
  <2>1. CASE i = 1
    BY <1>2, <2>1
  <2>2. CASE i # 1
    BY <1>3, <2>2 DEF Elements
  <2> QED
    BY <2>1, <2>2
<1>7. Elements(t) \cup {Head(s)} \subseteq Elements(s)
  BY <1>2, <1>4, <1>5 DEF Elements
<1> QED
  BY <1>1, <1>6, <1>7 DEF t

------------------------------------------------------------------------------
\* Before the first metric there is no queue.
LEMMA TelemetryInitially == TelemetryInit => TelemetryInv
<1> SUFFICES ASSUME TelemetryInit PROVE TelemetryInv
  OBVIOUS
<1>1. <<>> \in Seq(Metrics)
  OBVIOUS
<1>2. TelemetryTypes
  BY <1>1 DEF TelemetryInit, TelemetryTypes, WorkerStates, Phases
<1>3. UnmadeEmpty /\ HeldExact /\ CountExact /\ PhaseExact /\ EarlyKept
  BY DEF TelemetryInit, UnmadeEmpty, HeldExact, CountExact, PhaseExact, EarlyKept, Queues
<1> QED
  BY <1>2, <1>3 DEF TelemetryInv

\* A metric recorded: queued, or counted as dropped, in a queue made on demand.
LEMMA RecordStep == TelemetryInv /\ Record => TelemetryInv'
<1> SUFFICES ASSUME TelemetryInv, Record PROVE TelemetryInv'
  OBVIOUS
<1> USE DEF TelemetryInv
<1>1. PICK q \in Queues, metric \in Metrics :
      /\ q = IF queue = 0 THEN made + 1 ELSE queue
      /\ metric = recorded + 1 /\ metric \in Nat \ {0} /\ phase \notin {"ended", "broken"}
      /\ queue' = q /\ recorded' = metric /\ UNCHANGED <<phase, late>>
      /\ made' = IF queue = 0 THEN q ELSE made
      /\ worker' = IF queue = 0 THEN [worker EXCEPT ![q].at = "getting"] ELSE worker
      /\ early' = IF phase = "running" THEN early \cup {metric} ELSE early
      /\ \/ /\ pending' = [pending EXCEPT ![q] = Append(@, metric)]
            /\ unfinished' = [unfinished EXCEPT ![q] = @ + 1]
            /\ UNCHANGED outcome
         \/ /\ outcome' = [outcome EXCEPT !.dropped = @ \cup {metric}]
            /\ UNCHANGED <<pending, unfinished>>
  <2>1. recorded + 1 \in Metrics /\ recorded + 1 \in Nat \ {0}
    BY TelemetryAssumption DEF Record, TelemetryTypes, Metrics
  <2> QED
    BY <2>1 DEF Record
<1>2. \/ /\ pending' = [pending EXCEPT ![q] = Append(@, metric)]
         /\ unfinished' = [unfinished EXCEPT ![q] = @ + 1]
         /\ UNCHANGED outcome
      \/ /\ outcome' = [outcome EXCEPT !.dropped = @ \cup {metric}]
         /\ UNCHANGED <<pending, unfinished>>
  BY <1>1
<1>3. /\ made' = q /\ made' \in 0..2 /\ made' # 0 /\ made <= made'
      /\ queue # 0 => made' = made
  BY <1>1 DEF TelemetryTypes, PhaseExact, Queues
<1>4. /\ worker'[q].at \in {"getting", "writing", "publishing"}
      /\ \A r \in Queues : r # q => worker'[r] = worker[r]
      /\ worker'[q].metric = worker[q].metric
      /\ queue = 0 => worker[q].at = "none" /\ worker'[q].at = "getting"
      /\ queue # 0 => worker'[q] = worker[q]
      /\ worker' \in [Queues -> [at : WorkerStates, metric : Nat]]
  <2>1. CASE queue = 0
    <3>1. q > made
      BY <1>1, <2>1 DEF TelemetryTypes
    <3>2. worker[q].at = "none"
      BY <1>1, <3>1 DEF UnmadeEmpty
    <3>3. worker' = [worker EXCEPT ![q].at = "getting"]
      BY <1>1, <2>1
    <3>4. worker'[q].at = "getting" /\ worker'[q].metric = worker[q].metric
      BY <3>3 DEF TelemetryTypes
    <3>5. worker' \in [Queues -> [at : WorkerStates, metric : Nat]]
      BY <3>3 DEF TelemetryTypes, WorkerStates
    <3>6. \A r \in Queues : r # q => worker'[r] = worker[r]
      BY <3>3 DEF TelemetryTypes
    <3> QED
      BY <2>1, <3>2, <3>4, <3>5, <3>6
  <2>2. CASE queue # 0
    BY <1>1, <2>2 DEF PhaseExact, TelemetryTypes
  <2> QED
    BY <2>1, <2>2
<1>5. /\ pending' \in [Queues -> Seq(Metrics)] /\ unfinished' \in [Queues -> Int]
      /\ \A r \in Queues : r # q => pending'[r] = pending[r] /\ unfinished'[r] = unfinished[r]
      /\ unfinished'[q] - Len(pending'[q]) = unfinished[q] - Len(pending[q])
      /\ outcome' \in [stored : SUBSET Nat, failed : SUBSET Nat, dropped : SUBSET Nat]
      /\ Known \subseteq Known'
      /\ Waiting(q) \subseteq Waiting(q)'
      /\ metric \in Known' \cup Waiting(q)'
  <2>1. CASE /\ pending' = [pending EXCEPT ![q] = Append(@, metric)]
             /\ unfinished' = [unfinished EXCEPT ![q] = @ + 1]
             /\ UNCHANGED outcome
    <3>1. pending[q] \in Seq(Metrics) /\ unfinished[q] \in Int
      BY <1>1 DEF TelemetryTypes
    <3>2. pending'[q] = Append(pending[q], metric) /\ unfinished'[q] = unfinished[q] + 1
      BY <1>1, <2>1 DEF TelemetryTypes
    <3>3. /\ pending'[q] \in Seq(Metrics) /\ Len(pending'[q]) = Len(pending[q]) + 1
          /\ Waiting(q)' = Waiting(q) \cup {metric}
      BY <1>1, <3>1, <3>2, QueueAppended DEF Waiting
    <3>4. Len(pending[q]) \in Nat
      BY <3>1
    <3>5. unfinished'[q] - Len(pending'[q]) = unfinished[q] - Len(pending[q])
      BY <3>1, <3>2, <3>3, <3>4
    <3>6. pending' \in [Queues -> Seq(Metrics)] /\ unfinished' \in [Queues -> Int]
      BY <2>1, <3>1, <3>2, <3>3 DEF TelemetryTypes
    <3> QED
      BY <2>1, <3>3, <3>5, <3>6 DEF TelemetryTypes, Known
  <2>2. CASE /\ outcome' = [outcome EXCEPT !.dropped = @ \cup {metric}]
             /\ UNCHANGED <<pending, unfinished>>
    <3>1. /\ outcome' \in [stored : SUBSET Nat, failed : SUBSET Nat, dropped : SUBSET Nat]
          /\ Known' = Known \cup {metric}
      BY <1>1, <2>2 DEF TelemetryTypes, Known
    <3>2. Waiting(q)' = Waiting(q)
      BY <2>2 DEF Waiting
    <3> QED
      BY <2>2, <3>1, <3>2 DEF TelemetryTypes
  <2> QED
    BY <1>2, <2>1, <2>2
<1>6. TelemetryTypes'
  BY <1>1, <1>3, <1>4, <1>5 DEF TelemetryTypes, Queues
<1>7. UnmadeEmpty'
  <2> SUFFICES ASSUME NEW r \in Queues, r > made'
               PROVE  worker'[r].at = "none" /\ pending'[r] = <<>> /\ unfinished'[r] = 0
    BY DEF UnmadeEmpty
  <2>1. r # q /\ r > made
    BY <1>1, <1>3 DEF TelemetryTypes, Queues
  <2> QED
    BY <1>4, <1>5, <2>1 DEF UnmadeEmpty
<1>8. HeldExact'
  BY <1>1, <1>4 DEF HeldExact
<1>9. CountExact'
  <2> SUFFICES ASSUME NEW r \in Queues, worker'[r].at # "none"
               PROVE  unfinished'[r] = CountOf(r)'
    BY DEF CountExact
  <2>1. CASE r # q
    BY <1>4, <1>5, <2>1 DEF CountExact, CountOf
  <2>2. CASE r = q
    <3>1. unfinished[q] = CountOf(q)
      <4>1. CASE queue = 0
        <5>1. q > made
          BY <1>1, <4>1 DEF TelemetryTypes
        <5>2. worker[q].at = "none" /\ pending[q] = <<>> /\ unfinished[q] = 0
          BY <1>1, <5>1 DEF UnmadeEmpty
        <5> QED
          BY <1>1, <5>2 DEF HeldExact, CountOf
      <4>2. CASE queue # 0
        BY <1>1, <1>4, <4>2 DEF CountExact
      <4> QED
        BY <4>1, <4>2
    <3>2. pending[q] \in Seq(Metrics) /\ pending'[q] \in Seq(Metrics) /\ unfinished'[q] \in Int
      BY <1>1, <1>5 DEF TelemetryTypes
    <3>3. Len(pending[q]) \in Nat /\ Len(pending'[q]) \in Nat
      BY <3>2
    <3> DEFINE n == Len(pending[q])
               m == Len(pending'[q])
               held == IF worker[q].metric = 0 THEN 0 ELSE 1
    <3>4. unfinished[q] = n + held /\ CountOf(q)' = m + held
      BY <1>4, <3>1 DEF CountOf
    <3>5. unfinished'[q] - m = unfinished[q] - n
      BY <1>5
    <3>6. n \in Nat /\ m \in Nat /\ held \in Nat
      BY <3>3
    <3> HIDE DEF n, m, held
    <3>7. unfinished'[q] = m + held
      <4>1. unfinished[q] \in Int
        BY <3>4, <3>6
      <4>2. \A a, b \in Int : \A i, j, k \in Nat : a = i + k /\ b - j = a - i => b = j + k
        OBVIOUS
      <4> QED
        BY <3>2, <3>4, <3>5, <3>6, <4>1, <4>2
    <3>8. unfinished'[q] = CountOf(q)'
      BY <3>4, <3>7
    <3> QED
      BY <2>2, <3>8
  <2> QED
    BY <2>1, <2>2
<1>10. PhaseExact'
  BY <1>1, <1>3, <1>4 DEF PhaseExact, TelemetryTypes, Queues, Phases
<1>11. EarlyKept'
  <2>1. phase \in {"running", "flushing"} => q = 1
    BY <1>1, <1>3 DEF PhaseExact, TelemetryTypes, Queues
  <2>2. ASSUME phase \in {"running", "flushing"}
        PROVE  early' \subseteq Known' \cup Waiting(1)' \cup HeldBy(1)'
    <3>1. HeldBy(1) \subseteq HeldBy(1)'
      BY <1>4, <2>1, <2>2 DEF HeldBy
    <3>2. early \subseteq Known \cup Waiting(1) \cup HeldBy(1)
      BY <2>2 DEF EarlyKept
    <3>3. Known \subseteq Known' /\ Waiting(1) \subseteq Waiting(1)' /\ metric \in Known' \cup Waiting(1)'
      BY <1>5, <2>1, <2>2
    <3>4. early' \subseteq early \cup {metric}
      BY <1>1
    <3> QED
      BY <3>1, <3>2, <3>3, <3>4
  <2>3. ASSUME phase \in {"flushed", "cancelling", "ended"}, ~late PROVE early' \subseteq Known'
    BY <1>1, <1>5, <2>3 DEF EarlyKept
  <2> QED
    BY <1>1, <1>3, <2>2, <2>3 DEF EarlyKept
<1> QED
  BY <1>6, <1>7, <1>8, <1>9, <1>10, <1>11

\* get() moves a metric from the queue to the worker's hand.
LEMMA GetStep == ASSUME TelemetryInv, NEW q \in Queues, Get(q) PROVE TelemetryInv'
<1> USE DEF TelemetryInv
<1>1. /\ pending[q] \in Seq(Metrics) /\ pending[q] # <<>> /\ worker[q].at = "getting"
      /\ pending'[q] = Tail(pending[q])
      /\ worker'[q] = [at |-> "writing", metric |-> Head(pending[q])]
      /\ \A r \in Queues : r # q => worker'[r] = worker[r] /\ pending'[r] = pending[r]
      /\ UNCHANGED <<queue, made, unfinished, phase, recorded, outcome, early, late>>
  BY DEF Get, TelemetryTypes
<1>2. /\ Head(pending[q]) \in Metrics /\ pending'[q] \in Seq(Metrics)
      /\ Len(pending'[q]) = Len(pending[q]) - 1
      /\ Waiting(q) = Waiting(q)' \cup {Head(pending[q])}
  BY <1>1, QueueTaken DEF Waiting
<1>3. Head(pending[q]) \in Nat /\ Head(pending[q]) # 0 /\ worker[q].metric = 0
  BY <1>1, <1>2 DEF HeldExact, Metrics
<1>4. pending' \in [Queues -> Seq(Metrics)]
  BY <1>1, <1>2 DEF Get, TelemetryTypes
<1>5. worker' \in [Queues -> [at : WorkerStates, metric : Nat]]
  BY <1>1, <1>3 DEF Get, TelemetryTypes, WorkerStates
<1>6. TelemetryTypes'
  BY <1>1, <1>4, <1>5 DEF TelemetryTypes
<1>7. UnmadeEmpty' /\ HeldExact'
  BY <1>1, <1>3 DEF UnmadeEmpty, HeldExact
<1>8. CountOf(q)' = CountOf(q)
  <2>1. Len(pending[q]) \in Nat
    BY <1>1
  <2> QED
    BY <1>1, <1>2, <1>3, <2>1 DEF CountOf
<1>9. CountExact'
  BY <1>1, <1>8 DEF CountExact, CountOf
<1>10. PhaseExact'
  BY <1>1 DEF PhaseExact, TelemetryTypes, Queues
<1>11. Waiting(1) \cup HeldBy(1) \subseteq (Waiting(1) \cup HeldBy(1))'
  <2>1. CASE q = 1
    BY <1>1, <1>2, <2>1 DEF HeldBy
  <2>2. CASE q # 1
    BY <1>1, <2>2 DEF HeldBy, Waiting, Queues
  <2> QED
    BY <2>1, <2>2
<1>12. EarlyKept'
  BY <1>1, <1>11 DEF EarlyKept, Known
<1> QED
  BY <1>6, <1>7, <1>9, <1>10, <1>12

\* A metric written, or its failure logged, is known.
LEMMA WriteStep == ASSUME TelemetryInv, NEW q \in Queues, Write(q) PROVE TelemetryInv'
<1> USE DEF TelemetryInv
<1>1. /\ worker[q].at = "writing" /\ worker'[q].at = "publishing" /\ worker'[q].metric = worker[q].metric
      /\ \A r \in Queues : r # q => worker'[r] = worker[r]
      /\ worker' \in [Queues -> [at : WorkerStates, metric : Nat]]
      /\ UNCHANGED <<queue, made, pending, unfinished, phase, recorded, early, late>>
  BY DEF Write, TelemetryTypes, WorkerStates
<1>2. /\ outcome' \in [stored : SUBSET Nat, failed : SUBSET Nat, dropped : SUBSET Nat]
      /\ Known' = Known \cup {worker[q].metric}
  <2>1. worker[q].metric \in Nat
    BY DEF TelemetryTypes
  <2>2. \/ outcome' = [outcome EXCEPT !.stored = @ \cup {worker[q].metric}]
        \/ outcome' = [outcome EXCEPT !.failed = @ \cup {worker[q].metric}]
    BY DEF Write
  <2> QED
    BY <2>1, <2>2 DEF TelemetryTypes, Known
<1>3. TelemetryTypes' /\ UnmadeEmpty' /\ HeldExact' /\ CountExact' /\ PhaseExact'
  <2>1. TelemetryTypes'
    BY <1>1, <1>2 DEF TelemetryTypes
  <2>2. UnmadeEmpty' /\ HeldExact'
    BY <1>1 DEF UnmadeEmpty, HeldExact
  <2>3. CountExact'
    BY <1>1 DEF CountExact, CountOf
  <2>4. PhaseExact'
    BY <1>1 DEF PhaseExact, TelemetryTypes, Queues
  <2> QED
    BY <2>1, <2>2, <2>3, <2>4
<1>4. Known \cup HeldBy(1) \subseteq (Known \cup HeldBy(1))' /\ Waiting(1)' = Waiting(1)
  BY <1>1, <1>2 DEF HeldBy, Waiting, Queues
<1>5. EarlyKept'
  BY <1>1, <1>2, <1>4 DEF EarlyKept
<1> QED
  BY <1>3, <1>5

\* task_done() lets go of a metric that is known.
LEMMA PublishStep == ASSUME TelemetryInv, NEW q \in Queues, Publish(q) PROVE TelemetryInv'
<1> USE DEF TelemetryInv
<1>1. /\ worker[q].at = "publishing" /\ worker[q].metric # 0
      /\ worker'[q] = [at |-> "getting", metric |-> 0]
      /\ unfinished'[q] = unfinished[q] - 1
      /\ \A r \in Queues : r # q => worker'[r] = worker[r] /\ unfinished'[r] = unfinished[r]
      /\ worker' \in [Queues -> [at : WorkerStates, metric : Nat]]
      /\ unfinished' \in [Queues -> Int]
      /\ UNCHANGED <<queue, made, pending, phase, recorded, outcome, early, late>>
  <2>1. worker[q].metric # 0
    BY DEF Publish, HeldExact
  <2> QED
    BY <2>1 DEF Publish, TelemetryTypes, WorkerStates
<1>2. TelemetryTypes'
  BY <1>1 DEF TelemetryTypes
<1>6. HeldExact'
  BY <1>1 DEF HeldExact
<1>7. UnmadeEmpty'
  <2>1. ~(q > made)
    BY <1>1 DEF UnmadeEmpty
  <2> QED
    BY <1>1, <2>1 DEF UnmadeEmpty
<1>3. CountExact'
  <2>1. Len(pending[q]) \in Nat /\ unfinished[q] = Len(pending[q]) + 1
    BY <1>1 DEF CountExact, CountOf, TelemetryTypes
  <2>2. unfinished'[q] = CountOf(q)'
    BY <1>1, <2>1 DEF CountOf
  <2> QED
    BY <1>1, <2>2 DEF CountExact, CountOf
<1>4. PhaseExact'
  BY <1>1 DEF PhaseExact, TelemetryTypes, Queues
<1>5. EarlyKept'
  BY <1>1 DEF EarlyKept, Known, Waiting, HeldBy, Queues
<1> QED
  BY <1>2, <1>3, <1>4, <1>5, <1>6, <1>7

\* When join() returns, everything queued is known.
LEMMA FlushedStep == TelemetryInv /\ Flushed => TelemetryInv'
<1> SUFFICES ASSUME TelemetryInv, Flushed PROVE TelemetryInv'
  OBVIOUS
<1> USE DEF TelemetryInv
<1>1. /\ phase = "flushing" /\ phase' = "flushed" /\ queue = 1 /\ made = 1
      /\ unfinished[1] = 0 \/ late'
      /\ UNCHANGED <<queue, made, pending, unfinished, worker, recorded, outcome, early>>
  BY DEF Flushed, PhaseExact
<1>2. TelemetryTypes' /\ UnmadeEmpty' /\ HeldExact' /\ CountExact' /\ PhaseExact'
  BY <1>1 DEF TelemetryTypes, Phases, UnmadeEmpty, HeldExact, CountExact, CountOf, PhaseExact, Queues
<1>3. ASSUME ~late' PROVE early' \subseteq Known'
  <2>1. 1 \in Queues /\ worker[1].at # "none" /\ pending[1] \in Seq(Metrics)
    BY <1>1 DEF PhaseExact, Queues, TelemetryTypes
  <2>2. Len(pending[1]) \in Nat
    BY <2>1
  <2>3. Len(pending[1]) = 0 /\ worker[1].metric = 0
    <3>1. CountOf(1) = 0
      BY <1>1, <1>3, <2>1 DEF CountExact
    <3> DEFINE n == Len(pending[1])
    <3>2. n + (IF worker[1].metric = 0 THEN 0 ELSE 1) = 0
      BY <3>1 DEF CountOf
    <3> HIDE DEF n
    <3>3. n \in Nat
      BY <2>2 DEF n
    <3>4. n = 0 /\ worker[1].metric = 0
      BY <3>2, <3>3
    <3> QED
      BY <3>4 DEF n
  <2>4. Waiting(1) = {}
    <3>1. DOMAIN pending[1] = {}
      BY <2>1, <2>3
    <3> QED
      BY <3>1 DEF Waiting, Elements
  <2>5. HeldBy(1) = {}
    BY <2>1, <2>3 DEF HeldBy, HeldExact
  <2> QED
    BY <1>1, <2>4, <2>5 DEF EarlyKept, Known
<1>4. EarlyKept'
  BY <1>1, <1>3 DEF EarlyKept
<1> QED
  BY <1>2, <1>4

\* close_telemetry_service forgets the queue and cancels its worker.
LEMMA CancelStep == TelemetryInv /\ CancelWorker => TelemetryInv'
<1> SUFFICES ASSUME TelemetryInv, CancelWorker PROVE TelemetryInv'
  OBVIOUS
<1> USE DEF TelemetryInv
<1>1. /\ phase = "flushed" /\ phase' = "cancelling" /\ queue = 1 /\ made = 1 /\ queue' = 0
      /\ UNCHANGED <<made, pending, unfinished, recorded, outcome, early, late>>
      /\ worker[1].at \in {"getting", "writing", "publishing"}
  BY DEF CancelWorker, PhaseExact
<1>2. /\ worker' \in [Queues -> [at : WorkerStates, metric : Nat]]
      /\ worker'[2] = worker[2]
      /\ worker'[1].metric = worker[1].metric
      /\ worker'[1].at = CASE worker[1].at = "getting" -> "cancelled"
                           [] worker[1].at = "writing" -> "stopping" [] OTHER -> "leaving"
  BY <1>1 DEF CancelWorker, TelemetryTypes, Queues, WorkerStates
<1>3. TelemetryTypes'
  BY <1>1, <1>2 DEF TelemetryTypes, Phases
<1>4. UnmadeEmpty' /\ HeldExact' /\ CountExact'
  <2>1. worker'[1].at # "none" /\ (worker'[1].at = "cancelled" <=> worker[1].at = "getting")
    BY <1>1, <1>2
  <2>2. worker'[1].at \notin {"none", "getting"}
    BY <1>1, <1>2
  <2>3. Queues = {1, 2}
    BY DEF Queues
  <2>4. UnmadeEmpty'
    BY <1>1, <1>2, <2>3 DEF UnmadeEmpty
  <2>5. HeldExact'
    BY <1>1, <1>2, <2>1, <2>2, <2>3 DEF HeldExact
  <2>6. CountExact'
    BY <1>1, <1>2, <2>3 DEF CountExact, CountOf
  <2> QED
    BY <2>4, <2>5, <2>6
<1>5. PhaseExact' /\ EarlyKept'
  BY <1>1, <1>2 DEF PhaseExact, EarlyKept, Known, Queues
<1> QED
  BY <1>3, <1>4, <1>5

\* The cancelled worker leaves.
LEMMA CancelledStep ==
    ASSUME TelemetryInv, NEW q \in Queues, WorkerCancelled(q) PROVE TelemetryInv'
<1> USE DEF TelemetryInv
<1>1. /\ worker[q].at \in {"cancelled", "stopping", "leaving"} /\ phase = "cancelling" /\ phase' = "ended"
      /\ worker'[q] = [at |-> "none", metric |-> 0]
      /\ \A r \in Queues : r # q => worker'[r] = worker[r] /\ unfinished'[r] = unfinished[r]
      /\ worker' \in [Queues -> [at : WorkerStates, metric : Nat]]
      /\ unfinished' \in [Queues -> Int]
      /\ UNCHANGED <<queue, made, pending, recorded, early, late>>
  BY DEF WorkerCancelled, TelemetryTypes, WorkerStates, PhaseExact
<1>2. /\ outcome' \in [stored : SUBSET Nat, failed : SUBSET Nat, dropped : SUBSET Nat]
      /\ Known \subseteq Known'
  <2>1. worker[q].metric \in Nat
    BY DEF TelemetryTypes
  <2>2. outcome' = outcome \/ outcome' = [outcome EXCEPT !.stored = @ \cup {worker[q].metric}]
    BY DEF WorkerCancelled
  <2> QED
    BY <2>1, <2>2 DEF TelemetryTypes, Known
<1>3. q <= made /\ queue # q
  BY <1>1 DEF UnmadeEmpty, PhaseExact, TelemetryTypes, Queues
<1>4. TelemetryTypes' /\ UnmadeEmpty' /\ HeldExact' /\ CountExact'
  BY <1>1, <1>2, <1>3 DEF TelemetryTypes, Phases, UnmadeEmpty, HeldExact, CountExact, CountOf, Queues
<1>5. PhaseExact' /\ EarlyKept'
  BY <1>1, <1>2, <1>3 DEF PhaseExact, EarlyKept, TelemetryTypes, Queues
<1> QED
  BY <1>4, <1>5

\* Every step preserves the invariant.
LEMMA TelemetryStep == TelemetryInv /\ [TelemetryNext]_telemetryVars => TelemetryInv'
<1> SUFFICES ASSUME TelemetryInv, [TelemetryNext]_telemetryVars PROVE TelemetryInv'
  OBVIOUS
<1> USE DEF TelemetryInv
<1>1. CASE HookRaises
  BY <1>1 DEF HookRaises, TelemetryTypes, Phases, UnmadeEmpty, HeldExact, CountExact, CountOf,
       PhaseExact, EarlyKept
<1>2. CASE Flush
  <2>1. UNCHANGED <<queue, made, pending, unfinished, worker, recorded, outcome, early, late>>
    BY <1>2 DEF Flush
  <2>2. phase = "running" /\ phase' = IF queue = 0 THEN "ended" ELSE "flushing"
    BY <1>2 DEF Flush
  <2>3. /\ TelemetryTypes' /\ UnmadeEmpty' /\ HeldExact' /\ CountExact'
    BY <2>1, <2>2 DEF TelemetryTypes, Phases, UnmadeEmpty, HeldExact, CountExact, CountOf
  <2>4. PhaseExact'
    BY <2>1, <2>2 DEF PhaseExact, TelemetryTypes
  <2>5. EarlyKept'
    BY <2>1, <2>2 DEF EarlyKept, PhaseExact, Known, Waiting, HeldBy
  <2> QED
    BY <2>3, <2>4, <2>5
<1>3. CASE UNCHANGED telemetryVars
  BY <1>3 DEF telemetryVars, TelemetryTypes, UnmadeEmpty, HeldExact, CountExact, CountOf,
       PhaseExact, EarlyKept, Known, Waiting, HeldBy
<1> QED
  BY <1>1, <1>2, <1>3, RecordStep, GetStep, WriteStep, PublishStep, FlushedStep, CancelStep,
     CancelledStep DEF TelemetryNext

\* Closing the service loses no metric recorded before, and join() waits for exactly
\* the metrics that are queued or held, for every queue size.
THEOREM MetricsOutliveCloseHolds == TelemetrySpec => []MetricsOutliveClose
<1>1. TelemetryInv => MetricsOutliveClose
  BY DEF TelemetryInv, MetricsOutliveClose, EarlyKept, CountExact, CountOf, Known
<1> QED
  BY <1>1, TelemetryInitially, TelemetryStep, PTL DEF TelemetrySpec

------------------------------------------------------------------------------
(* The windows: each holds all that its limiter let through and may still  *)
(* count.                                                                  *)

Stamped(events) == IsFiniteSet(events) /\ \A e \in events : e[1] \in Nat
Within(events, from, to) == {e \in events : from <= e[1] /\ e[1] <= to}

ClocksFit ==
    /\ time \in Times /\ newest \in 0..time /\ overtaken \in BOOLEAN
    /\ expires \in (time + 1)..NeverExpires
    /\ DOMAIN event = Events
    /\ \A m \in Events : event[m].now \in 0..time
    /\ DOMAIN passed = {"redis", "memory"}
    /\ Stamped(window) /\ Stamped(fallback)
    /\ Stamped(passed["redis"]) /\ Stamped(passed["memory"])

MemoryWindow ==
    /\ \A e \in passed["memory"] : e[1] <= time
    /\ \A e \in passed["memory"] : e[1] >= From(time, Period) => e \in fallback
    /\ \A t \in Times : Cardinality(Within(passed["memory"], From(t, Period), t)) <= MaxEvents

\* Redis drops the key only when nothing in it counts any more.
RedisWindow ==
    /\ \A e \in window \cup passed["redis"] : e[1] <= time /\ e[1] + Period <= expires
    /\ ~overtaken =>
          /\ \A e \in passed["redis"] : e[1] <= newest
          /\ \A e \in passed["redis"] : e[1] >= From(newest + 1, Period) => e \in window
          /\ \A t \in Times :
                Cardinality(Within(passed["redis"], From(t + 1, Period), t)) <= MaxEvents

LimitInv == ClocksFit /\ MemoryWindow /\ RedisWindow

\* The bounds are positive natural numbers.
LEMMA LimitNumbers == MaxEvents \in Nat \ {0} /\ Period \in Nat \ {0} /\ MaxTime \in Nat \ {0}
  BY LimitAssumption

\* The start of a window moves on with its end.
LEMMA FromMoves ==
    ASSUME NEW s \in Nat, NEW t \in Nat, s <= t
    PROVE  /\ From(s, Period) \in Nat /\ From(s, Period) <= From(t, Period)
           /\ From(s, Period) <= s /\ From(s + 1, Period) <= s
  BY LimitNumbers DEF From

\* What is trimmed or extended by one event is again a finite set of events.
LEMMA StampedSets ==
    ASSUME NEW events, Stamped(events), NEW n, n[1] \in Nat, NEW oldest \in Nat
    PROVE  /\ Stamped(events \cup {n}) /\ Stamped(Trimmed(events, oldest))
           /\ Cardinality(events) \in Nat
           /\ Cardinality(events \cup {n}) <= Cardinality(events) + 1
<1>1. IsFiniteSet(events \cup {n}) /\ IsFiniteSet(Trimmed(events, oldest))
  BY FS_AddElement, FS_Subset DEF Stamped, Trimmed
<1>2. /\ Cardinality(events) \in Nat
      /\ Cardinality(events \cup {n}) = Cardinality(events)
           \/ Cardinality(events \cup {n}) = Cardinality(events) + 1
  BY FS_AddElement, FS_CardinalityType DEF Stamped
<1> QED
  BY <1>1, <1>2 DEF Stamped, Trimmed

\* An event let through while the window is not full leaves no period with too many.
LEMMA OneMore ==
    ASSUME NEW events, NEW gone, Stamped(events), Stamped(gone), NEW n, n[1] \in Nat,
           NEW from \in Nat, NEW to \in Nat,
           Cardinality(Within(gone, from, to)) <= MaxEvents,
           n[1] <= to => Within(gone, from, to) \subseteq events,
           ~Full(events)
    PROVE  Cardinality(Within(gone \cup {n}, from, to)) <= MaxEvents
<1>1. CASE n[1] > to
  <2>1. Within(gone \cup {n}, from, to) = Within(gone, from, to)
    BY <1>1 DEF Within
  <2> QED
    BY <2>1
<1>2. CASE n[1] <= to
  <2>1. Within(gone \cup {n}, from, to) \subseteq events \cup {n}
    BY <1>2 DEF Within
  <2>2. IsFiniteSet(events \cup {n}) /\ Cardinality(events \cup {n}) <= Cardinality(events) + 1
        /\ Cardinality(events) \in Nat
    BY StampedSets DEF Stamped
  <2>3. Cardinality(Within(gone \cup {n}, from, to)) \in Nat
        /\ Cardinality(Within(gone \cup {n}, from, to)) <= Cardinality(events \cup {n})
        /\ Cardinality(events \cup {n}) \in Nat
    BY <2>1, <2>2, FS_Subset, FS_CardinalityType
  <2> QED
    BY <2>2, <2>3, LimitNumbers DEF Full
<1> QED
  BY <1>1, <1>2

------------------------------------------------------------------------------
(* The script, the fallback and the clock.                                 *)

LEMMA LimitStarts == LimitInit => LimitInv
<1> SUFFICES ASSUME LimitInit PROVE LimitInv
  OBVIOUS
<1>1. /\ time = 0 /\ newest = 0 /\ overtaken = FALSE /\ expires = NeverExpires
      /\ event = [m \in Events |-> Away]
      /\ window = {} /\ fallback = {} /\ passed["redis"] = {} /\ passed["memory"] = {}
      /\ DOMAIN passed = {"redis", "memory"}
  BY DEF LimitInit, NoEvents
<1>2. Stamped({}) /\ \A from, to : Cardinality(Within({}, from, to)) = 0
  <2>1. \A from, to : Within({}, from, to) = {}
    BY DEF Within
  <2> QED
    BY <2>1, FS_EmptySet DEF Stamped
<1>3. ClocksFit
  <2>1. \A m \in Events : event[m].now = 0
    BY <1>1 DEF Away
  <2>2. NeverExpires \in Nat \ {0}
    BY LimitNumbers DEF NeverExpires
  <2>3. DOMAIN event = Events /\ overtaken \in BOOLEAN
    BY <1>1
  <2>4. time \in Times /\ newest \in 0..time /\ expires \in (time + 1)..NeverExpires
    BY <1>1, <2>2, LimitNumbers DEF Times
  <2> QED
    BY <1>1, <1>2, <2>1, <2>3, <2>4 DEF ClocksFit
<1>4. MemoryWindow /\ RedisWindow
  BY <1>1, <1>2, LimitNumbers DEF MemoryWindow, RedisWindow
<1> QED
  BY <1>3, <1>4 DEF LimitInv

\* The script keeps in the window whatever may still count, whether or not its answer
\* arrives, and lets nothing through when the window is full.
LEMMA ScriptRuns ==
    ASSUME LimitInv, NEW m \in Events, Script(m), time' = time, event[m].now \in 0..time,
           \/ passed'["redis"] = passed["redis"]
           \/ Counted(m) /\ passed'["redis"] = passed["redis"] \cup {EventId(m)}
    PROVE  /\ RedisWindow' /\ Stamped(window)' /\ Stamped(passed["redis"])'
           /\ newest' \in 0..time /\ overtaken' \in BOOLEAN
           /\ expires' \in (time + 1)..NeverExpires
<1> DEFINE now == event[m].now
           n == EventId(m)
           events == RedisTrimmed(now)
<1>1. /\ n[1] = now /\ now \in Nat /\ now <= time /\ time \in Nat /\ time <= MaxTime
      /\ newest \in Nat /\ newest <= time
      /\ Stamped(window) /\ Stamped(passed["redis"])
  BY LimitNumbers DEF LimitInv, ClocksFit, EventId, Fresh, Times
<1>2. /\ events = Trimmed(window, From(now + 1, Period))
      /\ From(now + 1, Period) \in Nat
  BY <1>1, FromMoves DEF RedisTrimmed
<1>3. /\ window' = events \/ (Counted(m) /\ window' = events \cup {n})
      /\ Counted(m) => window' = events \cup {n}
      /\ expires' = time + Period
      /\ newest' = LaterOf(newest, now)
      /\ overtaken' = (overtaken \/ now < newest)
      /\ \/ passed'["redis"] = passed["redis"]
         \/ Counted(m) /\ passed'["redis"] = passed["redis"] \cup {n}
  BY DEF Script
<1>4. Stamped(events) /\ Stamped(events \cup {n}) /\ Stamped(passed["redis"] \cup {n})
  BY <1>1, <1>2, StampedSets
<1> HIDE DEF n, events
<1>5. /\ newest' \in 0..time /\ overtaken' \in BOOLEAN /\ expires' \in (time + 1)..NeverExpires
      /\ Stamped(window)' /\ Stamped(passed["redis"])'
  <2>1. newest' \in 0..time /\ expires' \in (time + 1)..NeverExpires
    BY <1>1, <1>3, LimitNumbers DEF LaterOf, NeverExpires
  <2>2. overtaken' \in BOOLEAN
    BY <1>3
  <2>3. Stamped(window') /\ Stamped(passed'["redis"])
    BY <1>1, <1>3, <1>4
  <2> QED
    BY <2>1, <2>2, <2>3 DEF Stamped
<1>6. \A e \in window' \cup passed'["redis"] : e[1] <= time' /\ e[1] + Period <= expires'
  <2> SUFFICES ASSUME NEW e \in window' \cup passed'["redis"]
               PROVE  e[1] <= time' /\ e[1] + Period <= expires'
    OBVIOUS
  <2>1. CASE e = n
    BY <1>1, <1>3, <2>1, LimitNumbers
  <2>2. CASE e \in window \cup passed["redis"]
    <3>1. e[1] \in Nat
      BY <1>1, <2>2 DEF Stamped
    <3>2. e[1] <= time
      BY <2>2 DEF LimitInv, RedisWindow
    <3> QED
      BY <1>1, <1>3, <3>1, <3>2, LimitNumbers
  <2>3. events \subseteq window
    BY <1>2 DEF Trimmed
  <2> QED
    BY <1>3, <2>1, <2>2, <2>3
<1>7. ASSUME ~overtaken'
      PROVE  /\ \A e \in passed'["redis"] : e[1] <= newest'
             /\ \A e \in passed'["redis"] : e[1] >= From(newest' + 1, Period) => e \in window'
             /\ \A t \in Times :
                   Cardinality(Within(passed'["redis"], From(t + 1, Period), t)) <= MaxEvents
  <2>1. ~overtaken /\ newest <= now /\ newest' = now
    <3>1. ~overtaken /\ ~(now < newest)
      BY <1>3, <1>7
    <3> QED
      BY <1>1, <1>3, <3>1 DEF LaterOf
  <2>2. /\ \A e \in passed["redis"] : e[1] \in Nat /\ e[1] <= newest
        /\ \A e \in passed["redis"] : e[1] >= From(newest + 1, Period) => e \in window
        /\ \A t \in Times :
              Cardinality(Within(passed["redis"], From(t + 1, Period), t)) <= MaxEvents
    BY <1>1, <2>1 DEF LimitInv, RedisWindow, Stamped
  <2>3. \A e \in passed'["redis"] : e[1] <= newest'
    BY <1>1, <1>3, <2>1, <2>2
  <2>4. From(newest + 1, Period) \in Nat /\ From(newest + 1, Period) <= From(now + 1, Period)
    BY <1>1, <2>1, FromMoves
  <2>5. \A e \in passed["redis"] : e[1] >= From(now + 1, Period) => e \in events
    BY <1>2, <2>2, <2>4 DEF Trimmed
  <2>6. \A e \in passed'["redis"] : e[1] >= From(newest' + 1, Period) => e \in window'
    BY <1>3, <2>1, <2>5
  <2>7. ASSUME NEW t \in Times
        PROVE  Cardinality(Within(passed'["redis"], From(t + 1, Period), t)) <= MaxEvents
    <3>1. CASE passed'["redis"] = passed["redis"]
      BY <2>2, <3>1
    <3>2. CASE Counted(m) /\ passed'["redis"] = passed["redis"] \cup {n}
      <4>1. ~Full(events)
        BY <3>2 DEF Counted, events
      <4>2. t \in Nat /\ From(t + 1, Period) \in Nat
        BY FromMoves, LimitNumbers DEF Times
      <4>3. ASSUME now <= t PROVE Within(passed["redis"], From(t + 1, Period), t) \subseteq events
        <5>1. From(now + 1, Period) <= From(t + 1, Period)
          BY <1>1, <4>2, <4>3, FromMoves
        <5> QED
          BY <1>2, <2>2, <2>5, <4>2, <5>1 DEF Within
      <4> QED
        BY <1>1, <1>4, <2>2, <3>2, <4>1, <4>2, <4>3, OneMore
    <3> QED
      BY <1>3, <3>1, <3>2
  <2> QED
    BY <2>3, <2>6, <2>7
<1> QED
  BY <1>5, <1>6, <1>7 DEF RedisWindow

\* What holds of the records when one event moves on.
LEMMA EventMoves ==
    ASSUME LimitInv, NEW m \in Events, NEW r, event' = [event EXCEPT ![m] = r],
           r.now \in 0..time, time' = time
    PROVE  DOMAIN event' = Events /\ \A k \in Events : event'[k].now \in 0..time'
<1>1. DOMAIN event = Events /\ \A k \in Events : event[k].now \in 0..time
  BY DEF LimitInv, ClocksFit
<1> QED
  BY <1>1

LEMMA AskRedisStep ==
    ASSUME LimitInv, NEW m \in Events, AskRedis(m)
    PROVE  LimitInv'
<1>1. /\ event' = [event EXCEPT ![m] = [at |-> "limiting", now |-> time]]
      /\ UNCHANGED <<time, window, expires, fallback, outages, passed, newest, overtaken>>
  BY DEF AskRedis
<1>2. time \in 0..time
  BY DEF LimitInv, ClocksFit, Times
<1>3. DOMAIN event' = Events /\ \A k \in Events : event'[k].now \in 0..time'
  <2> DEFINE r == [at |-> "limiting", now |-> time]
  <2>1. r.now \in 0..time
    BY <1>2
  <2> HIDE DEF r
  <2> QED
    BY <1>1, <2>1, EventMoves DEF r
<1>4. ClocksFit'
  BY <1>1, <1>3 DEF LimitInv, ClocksFit, Stamped
<1> QED
  BY <1>1, <1>4 DEF LimitInv, MemoryWindow, RedisWindow, Within

\* Of a call of the script: the windows and the clocks.
LEMMA ScriptStep ==
    ASSUME LimitInv, NEW m \in Events, Script(m), time' = time, fallback' = fallback,
           DOMAIN passed' = DOMAIN passed, passed'["memory"] = passed["memory"],
           DOMAIN event' = Events, \A k \in Events : event'[k].now \in 0..time',
           \/ passed'["redis"] = passed["redis"]
           \/ Counted(m) /\ passed'["redis"] = passed["redis"] \cup {EventId(m)}
    PROVE  LimitInv'
<1>1. event[m].now \in 0..time
  BY DEF LimitInv, ClocksFit
<1>2. /\ RedisWindow' /\ Stamped(window)' /\ Stamped(passed["redis"])'
      /\ newest' \in 0..time /\ overtaken' \in BOOLEAN
      /\ expires' \in (time + 1)..NeverExpires
  BY <1>1, ScriptRuns
<1>3. Stamped(fallback)' /\ Stamped(passed["memory"])'
  BY DEF LimitInv, ClocksFit, Stamped
<1>4. ClocksFit'
  BY <1>2, <1>3 DEF LimitInv, ClocksFit
<1>5. MemoryWindow'
  BY DEF LimitInv, MemoryWindow, Within
<1> QED
  BY <1>2, <1>4, <1>5 DEF LimitInv

LEMMA LimitStep ==
    ASSUME LimitInv, NEW m \in Events, Limit(m)
    PROVE  LimitInv'
<1>1. /\ Script(m) /\ event' = [event EXCEPT ![m] = Away] /\ time' = time /\ fallback' = fallback
      /\ \/ passed' = passed
         \/ Counted(m) /\ passed' = [passed EXCEPT !["redis"] = @ \cup {EventId(m)}]
  BY DEF Limit
<1>2. DOMAIN passed = {"redis", "memory"} /\ time \in Nat
  BY LimitNumbers DEF LimitInv, ClocksFit, Times
<1>3. Away.now \in 0..time
  BY <1>2 DEF Away
<1>4. DOMAIN event' = Events /\ \A k \in Events : event'[k].now \in 0..time'
  BY <1>1, <1>3, EventMoves
<1>5. /\ DOMAIN passed' = DOMAIN passed /\ passed'["memory"] = passed["memory"]
      /\ \/ passed'["redis"] = passed["redis"]
         \/ Counted(m) /\ passed'["redis"] = passed["redis"] \cup {EventId(m)}
  BY <1>1, <1>2
<1> QED
  BY <1>1, <1>4, <1>5, ScriptStep

LEMMA LimitFailsStep ==
    ASSUME LimitInv, NEW m \in Events, LimitFails(m)
    PROVE  LimitInv'
<1> DEFINE r == [at |-> "fallback", now |-> 0]
<1>1. /\ event' = [event EXCEPT ![m] = r] /\ UNCHANGED <<time, fallback, passed>>
      /\ Script(m) \/ UNCHANGED <<window, expires, newest, overtaken>>
  BY DEF LimitFails
<1>2. r.now \in 0..time
  BY LimitNumbers DEF LimitInv, ClocksFit, Times
<1> HIDE DEF r
<1>3. DOMAIN event' = Events /\ \A k \in Events : event'[k].now \in 0..time'
  BY <1>1, <1>2, EventMoves
<1>4. CASE Script(m)
  BY <1>1, <1>3, <1>4, ScriptStep
<1>5. CASE UNCHANGED <<window, expires, newest, overtaken>>
  <2>1. ClocksFit'
    BY <1>1, <1>3, <1>5 DEF LimitInv, ClocksFit, Stamped
  <2> QED
    BY <1>1, <1>5, <2>1 DEF LimitInv, MemoryWindow, RedisWindow, Within
<1> QED
  BY <1>1, <1>4, <1>5

\* The fallback's window holds what it let through in the last period.
LEMMA FallbackStep ==
    ASSUME LimitInv, NEW m \in Events, Fallback(m)
    PROVE  LimitInv'
<1> DEFINE events == Trimmed(fallback, From(time, Period))
           n == Fresh(time, passed["memory"])
<1>1. /\ event' = [event EXCEPT ![m] = Away]
      /\ UNCHANGED <<time, window, expires, newest, overtaken>>
      /\ \/ fallback' = events /\ passed' = passed
         \/ /\ ~Full(events) /\ fallback' = events \cup {n}
            /\ passed' = [passed EXCEPT !["memory"] = @ \cup {n}]
  BY DEF Fallback
<1>2. /\ DOMAIN passed = {"redis", "memory"} /\ time \in Nat /\ n[1] = time
      /\ Stamped(fallback) /\ Stamped(passed["redis"]) /\ Stamped(passed["memory"])
      /\ From(time, Period) \in Nat /\ From(time, Period) <= time
  BY LimitNumbers, FromMoves DEF LimitInv, ClocksFit, Times, Fresh
<1>3. Stamped(events) /\ Stamped(events \cup {n}) /\ Stamped(passed["memory"] \cup {n})
  BY <1>2, StampedSets
<1>4. Away.now \in 0..time
  BY <1>2 DEF Away
<1>5. DOMAIN event' = Events /\ \A k \in Events : event'[k].now \in 0..time'
  BY <1>1, <1>4, EventMoves
<1>6. /\ \A e \in passed["memory"] : e[1] \in Nat /\ e[1] <= time
      /\ \A e \in passed["memory"] : e[1] >= From(time, Period) => e \in events
      /\ \A t \in Times : Cardinality(Within(passed["memory"], From(t, Period), t)) <= MaxEvents
  BY <1>2 DEF LimitInv, MemoryWindow, Trimmed, Stamped
<1> HIDE DEF events, n
<1>7. /\ DOMAIN passed' = {"redis", "memory"} /\ passed'["redis"] = passed["redis"]
      /\ \/ fallback' = events /\ passed'["memory"] = passed["memory"]
         \/ /\ ~Full(events) /\ fallback' = events \cup {n}
            /\ passed'["memory"] = passed["memory"] \cup {n}
  BY <1>1, <1>2
<1>8. ClocksFit'
  <2>1. Stamped(fallback') /\ Stamped(passed'["memory"]) /\ Stamped(passed'["redis"])
    BY <1>2, <1>3, <1>7
  <2> QED
    BY <1>1, <1>5, <1>7, <2>1 DEF LimitInv, ClocksFit, Stamped
<1>9. RedisWindow'
  BY <1>1, <1>7 DEF LimitInv, RedisWindow, Within
<1>10. /\ \A e \in passed'["memory"] : e[1] <= time'
       /\ \A e \in passed'["memory"] : e[1] >= From(time', Period) => e \in fallback'
  BY <1>1, <1>2, <1>6, <1>7
<1>11. ASSUME NEW t \in Times
       PROVE  Cardinality(Within(passed'["memory"], From(t, Period), t)) <= MaxEvents
  <2>1. CASE passed'["memory"] = passed["memory"]
    BY <1>6, <2>1
  <2>2. CASE ~Full(events) /\ passed'["memory"] = passed["memory"] \cup {n}
    <3>1. t \in Nat /\ From(t, Period) \in Nat
      BY FromMoves, LimitNumbers DEF Times
    <3>2. ASSUME time <= t PROVE Within(passed["memory"], From(t, Period), t) \subseteq events
      <4>1. From(time, Period) <= From(t, Period)
        BY <1>2, <3>1, <3>2, FromMoves
      <4> QED
        BY <1>2, <1>6, <3>1, <4>1 DEF Within
    <3> QED
      BY <1>2, <1>3, <1>6, <2>2, <3>1, <3>2, OneMore
  <2> QED
    BY <1>7, <2>1, <2>2
<1>12. MemoryWindow'
  BY <1>10, <1>11 DEF MemoryWindow
<1> QED
  BY <1>8, <1>9, <1>12 DEF LimitInv

\* When Redis drops the key, every event of it is out of the window already.
LEMMA TickStep ==
    ASSUME LimitInv, LimitTick
    PROVE  LimitInv'
<1>1. /\ time \in Nat /\ newest \in 0..time /\ time' = time + 1 /\ time' \in Times
      /\ expires \in (time + 1)..NeverExpires /\ NeverExpires \in Nat
      /\ NeverExpires = MaxTime + Period + 1
      /\ UNCHANGED <<event, fallback, passed, overtaken, outages>>
  BY LimitNumbers DEF LimitInv, ClocksFit, LimitTick, Times, NeverExpires
<1>2. /\ time' < expires => window' = window /\ expires' = expires /\ newest' = newest
      /\ time' >= expires =>
            window' = {} /\ expires' = NeverExpires /\ newest' = LaterOf(newest, time')
  BY <1>1 DEF LimitTick, NoEvents
<1>3. /\ Stamped(window) /\ Stamped(passed["redis"]) /\ Stamped(passed["memory"])
      /\ \A e \in passed["redis"] : e[1] \in Nat
      /\ \A e \in passed["memory"] : e[1] \in Nat
      /\ \A e \in window : e[1] \in Nat
  BY DEF LimitInv, ClocksFit, Stamped
<1>4. newest' \in 0..time' /\ expires' \in (time' + 1)..NeverExpires
  BY <1>1, <1>2, LimitNumbers DEF LaterOf, Times
<1>5. Stamped(window')
  <2>1. Stamped({})
    BY FS_EmptySet DEF Stamped
  <2>2. time' < expires \/ time' >= expires
    BY <1>1
  <2> QED
    BY <1>2, <1>3, <2>1, <2>2
<1>6. ClocksFit'
  <2>1. \A m \in Events : event'[m].now \in 0..time'
    BY <1>1 DEF LimitInv, ClocksFit
  <2> QED
    BY <1>1, <1>4, <1>5, <2>1 DEF LimitInv, ClocksFit, Stamped
<1>7. MemoryWindow'
  <2>1. From(time, Period) \in Nat /\ From(time', Period) \in Nat
        /\ From(time, Period) <= From(time', Period)
    BY <1>1, FromMoves
  <2> QED
    BY <1>1, <1>3, <2>1 DEF LimitInv, MemoryWindow, Within
<1>8. RedisWindow'
  <2>1. CASE time' < expires
    BY <1>1, <1>2, <1>3, <2>1 DEF LimitInv, RedisWindow, Within
  <2>2. CASE time' >= expires
    <3>1. /\ window' = {} /\ expires' = NeverExpires /\ newest' = time'
      BY <1>1, <1>2, <2>2 DEF LaterOf
    <3>2. \A e \in passed["redis"] : e[1] <= time /\ e[1] + Period <= time'
      BY <1>1, <1>3, <2>2, LimitNumbers DEF LimitInv, RedisWindow
    <3>3. \A e \in passed["redis"] : e[1] < From(newest' + 1, Period)
      BY <1>1, <1>3, <3>1, <3>2, LimitNumbers DEF From
    <3>4. From(newest' + 1, Period) \in Nat
      BY <1>1, <3>1, FromMoves
    <3>5. \A e \in window' \cup passed'["redis"] : e[1] <= time' /\ e[1] + Period <= expires'
      BY <1>1, <1>3, <3>1, <3>2, LimitNumbers DEF Times
    <3>6. /\ \A e \in passed'["redis"] : e[1] <= newest'
          /\ \A e \in passed'["redis"] : ~(e[1] >= From(newest' + 1, Period))
      BY <1>1, <1>3, <3>1, <3>2, <3>3, <3>4
    <3> QED
      BY <1>1, <3>5, <3>6 DEF LimitInv, RedisWindow, Within
  <2> QED
    BY <1>1, <2>1, <2>2
<1> QED
  BY <1>6, <1>7, <1>8 DEF LimitInv

\* No limiter lets more updates through in a period than RATE_LIMIT_MAX_EVENTS, but for
\* Redis updates that overtook one another on their way (middlewares/rate_limit.py,
\* middlewares/redis_rate_limit.py).
THEOREM WindowRespectedHolds == LimitSpec => []WindowRespected
<1>1. LimitInit => LimitInv
  BY LimitStarts
<1>2. LimitInv /\ [LimitNext]_limitVars => LimitInv'
  <2> SUFFICES ASSUME LimitInv, [LimitNext]_limitVars PROVE LimitInv'
    OBVIOUS
  <2>1. CASE UNCHANGED limitVars
    <3>1. UNCHANGED <<time, event, window, expires, fallback, outages, passed, newest, overtaken>>
      BY <2>1 DEF limitVars
    <3>2. ClocksFit'
      BY <3>1 DEF LimitInv, ClocksFit, Stamped
    <3> QED
      BY <3>1, <3>2 DEF LimitInv, MemoryWindow, RedisWindow, Within
  <2>2. CASE LimitTick
    BY <2>2, TickStep
  <2>3. ASSUME NEW m \in Events, AskRedis(m) \/ Limit(m) \/ LimitFails(m) \/ Fallback(m)
        PROVE  LimitInv'
    BY <2>3, AskRedisStep, LimitStep, LimitFailsStep, FallbackStep
  <2> QED
    BY <2>1, <2>2, <2>3 DEF LimitNext
<1>3. LimitInv => WindowRespected
  BY DEF LimitInv, MemoryWindow, RedisWindow, WindowRespected, PassedIn, Within
<1> QED
  BY <1>1, <1>2, <1>3, PTL DEF LimitSpec
=============================================================================
