--------------------------- MODULE MCRedisReading ---------------------------
EXTENDS RedisReading, TLC

\* Handlers and workers are interchangeable.
Symmetry == Permutations(Actors)
==============================================================================
