-------------------------- MODULE MCRedisAudioQueue --------------------------
(***************************************************************************)
(* Instances of RedisAudioQueue for TLC.  Users and workers are            *)
(* interchangeable; symmetry is used in runs without liveness only.        *)
(***************************************************************************)
EXTENDS RedisAudioQueue, TLC

Interchangeable == Permutations(Users) \cup Permutations(Workers)
=============================================================================
