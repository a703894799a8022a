SPECIFICATION PipelineFairSpec
CONSTANTS
    Users = {u1}
    Workers = {w1, w2}
    Handlers = {h1}
    MaxQueueSize = 3
    MaxJobs = 4
    MaxCloses = 0
    NoJob = NoJob
    Parts = 3
    SendAttempts = 2
    MaxSessions = 1
    MaxRecoveries = 0
CHECK_DEADLOCK FALSE
INVARIANTS
    PrefetchUsedOnce
PROPERTIES
    ChunkJobsServed
    ChunkJobsEnd
