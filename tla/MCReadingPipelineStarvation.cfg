SPECIFICATION PipelineFairSpec
CONSTANTS
    Users = {u1, u2}
    Workers = {w1}
    Handlers = {h1}
    MaxQueueSize = 3
    MaxJobs = 5
    MaxCloses = 0
    NoJob = NoJob
    Parts = 2
    SendAttempts = 1
    MaxSessions = 2
    MaxRecoveries = 0
CHECK_DEADLOCK FALSE
PROPERTIES
    ChunkJobsServed
