------------------------- MODULE MCReadingPipeline -------------------------
EXTENDS ReadingPipeline, TLC

\* Workers are interchangeable, and so are handlers.
Interchangeable == Permutations(Workers) \cup Permutations(Handlers)
=============================================================================
