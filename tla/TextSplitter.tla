---------------------------- MODULE TextSplitter ----------------------------
(***************************************************************************)
(* split_text (utils/splitter.py): a text, as the lengths of its words in  *)
(* their paragraphs, becomes chunks of at most MaxLength characters for    *)
(* the speech services.  One action is one turn of a loop: a paragraph     *)
(* that fits, or a word of one that does not.                              *)
(*                                                                         *)
(* Characters are counted, not spelled: a chunk is known by the letters it *)
(* holds, numbered through the text without its blanks, and by its length. *)
(***************************************************************************)
EXTENDS Naturals, Sequences

CONSTANTS MaxLength,   \* max_length
          Inputs       \* texts: sequences of paragraphs, without empty lines

\* A paragraph is not only blanks.
Paragraph == {p \in [length : Nat, words : Seq(Nat)] : Len(p.words) \in 1..p.length}

ASSUME SplitterAssumption ==
    /\ MaxLength \in Nat \ {0}
    /\ Inputs \subseteq Seq(Paragraph)

VARIABLES
    text,      \* the paragraphs still to come
    words,     \* the words still to come of a paragraph that does not fit
    taken,     \* how many letters were taken so far
    chunks,    \* the chunks made: first and last letter, length
    current    \* current_chunk: first letter, length, and length of its trailing blanks

splitterVars == <<text, words, taken, chunks, current>>

Empty == [first |-> 0, length |-> 0, blank |-> 0]
SplitterInit ==
    /\ text \in Inputs
    /\ words = <<>>
    /\ taken = 0
    /\ chunks = <<>>
    /\ current = Empty

------------------------------------------------------------------------------
\* _append_chunk: stripped, and kept unless nothing is left.
Appended ==
    IF current.length = current.blank THEN chunks
    ELSE Append(chunks, [first |-> current.first, last |-> taken,
                         length |-> current.length - current.blank])

\* The slice of a word longer than a chunk.
PartAdded(pieces) ==
    Append(pieces, [first |-> taken + 1, last |-> taken + MaxLength, length |-> MaxLength])

\* paragraph.split(" "): one blank between two words.
Letters(p) == p.length + 1 - Len(p.words)

Separator == 2
Started(length, blank) == [first |-> taken + 1, length |-> length + blank, blank |-> blank]
Extended(length, blank) ==
    [first |-> IF current.length = 0 THEN taken + 1 ELSE current.first,
     length |-> current.length + length + blank, blank |-> blank]

Fits(length, blank) == current.length + length + blank <= MaxLength

\* A paragraph that fits a chunk with its separator is taken whole.
TakeParagraph ==
    /\ words = <<>> /\ text # <<>>
    /\ Head(text).length + Separator <= MaxLength
    /\ \/ /\ Fits(Head(text).length, Separator)
          /\ current' = Extended(Head(text).length, Separator)
          /\ UNCHANGED chunks
       \/ /\ ~Fits(Head(text).length, Separator)
          /\ current' = Started(Head(text).length, Separator)
          /\ chunks' = Appended
    /\ taken' = taken + Letters(Head(text))
    /\ text' = Tail(text)
    /\ UNCHANGED words

\* One that does not is taken word by word.
OpenParagraph ==
    /\ words = <<>> /\ text # <<>>
    /\ Head(text).length + Separator > MaxLength
    /\ words' = Head(text).words
    /\ text' = Tail(text)
    /\ UNCHANGED <<taken, chunks, current>>

\* _add_word_to_chunk, for the empty word between two blanks, and for others.
SkipWord ==
    /\ words # <<>> /\ Head(words) = 0
    /\ words' = Tail(words)
    /\ UNCHANGED <<text, taken, chunks, current>>

AddWord ==
    /\ words # <<>> /\ Head(words) \in 1..MaxLength
    /\ \/ /\ Fits(Head(words), 1)
          /\ current' = Extended(Head(words), 1)
          /\ UNCHANGED chunks
       \/ /\ ~Fits(Head(words), 1)
          /\ current' = Started(Head(words), 1)
          /\ chunks' = Appended
    /\ words' = Tail(words)
    /\ taken' = taken + Head(words)
    /\ UNCHANGED text

\* _split_long_word: a full part is a chunk of its own, the rest goes on as a word.
SplitWord ==
    /\ words # <<>> /\ Head(words) > MaxLength
    /\ chunks' = PartAdded(Appended)
    /\ current' = Empty
    /\ words' = <<Head(words) - MaxLength>> \o Tail(words)
    /\ taken' = taken + MaxLength
    /\ UNCHANGED text

\* Slip: what was collected last is forgotten.
FinishForgets ==
    /\ words = <<>> /\ text = <<>>
    /\ current # Empty
    /\ current' = Empty
    /\ UNCHANGED <<text, words, taken, chunks>>

Finish ==
    /\ words = <<>> /\ text = <<>>
    /\ current # Empty
    /\ chunks' = Appended
    /\ current' = Empty
    /\ UNCHANGED <<text, words, taken>>

SplitterNext == TakeParagraph \/ OpenParagraph \/ SkipWord \/ AddWord \/ SplitWord \/ Finish

SplitterSpec == SplitterInit /\ [][SplitterNext]_splitterVars

------------------------------------------------------------------------------
(* Every chunk has a length the speech services take, never 0. The first   *)
(* begins with the first letter of the text and each goes on where the one *)
(* before ended, a word longer than a chunk included; what is collected    *)
(* goes on after the last chunk, and whenever nothing is being collected,  *)
(* as at the end, the chunks hold every letter taken from the text.        *)
ChunkFits(chunk) == chunk.length \in 1..MaxLength
LastLetter == IF chunks = <<>> THEN 0 ELSE chunks[Len(chunks)].last
TextKept ==
    /\ \A n \in DOMAIN chunks :
          /\ ChunkFits(chunks[n])
          /\ chunks[n].first = IF n = 1 THEN 1 ELSE chunks[n - 1].last + 1
    /\ IF current = Empty THEN LastLetter = taken ELSE current.first = LastLetter + 1
=============================================================================
