------------------------- MODULE MCMemoryAudioQueue -------------------------
(***************************************************************************)
(* Instances of MemoryAudioQueue for TLC: the constants are model values   *)
(* and small numbers, given in the .cfg files.  No symmetry: temporal      *)
(* properties are checked.                                                 *)
(***************************************************************************)
EXTENDS MemoryAudioQueue
=============================================================================
