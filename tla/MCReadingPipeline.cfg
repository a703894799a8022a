SPECIFICATION PipelineSpec
CONSTANTS
    Users = {u1}
    Workers = {w1}
    Handlers = {h1, h2}
    MaxQueueSize = 3
    MaxJobs = 3
    MaxCloses = 0
    NoJob = NoJob
    Parts = 2
    SendAttempts = 2
    MaxSessions = 2
    MaxRecoveries = 1
SYMMETRY Interchangeable
CHECK_DEADLOCK FALSE
INVARIANTS
    PipelineTypeOK
    PartsInOrder
    PrefetchFitsPart
    LockHasHolder
