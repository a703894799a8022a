SPECIFICATION PipelineSpec
CONSTANTS
    Users = {u1}
    Workers = {w1}
    Handlers = {h1}
    MaxQueueSize = 3
    MaxJobs = 4
    MaxCloses = 0
    NoJob = NoJob
    Parts = 2
    SendAttempts = 3
    MaxSessions = 2
    MaxRecoveries = 0
CHECK_DEADLOCK FALSE
INVARIANTS
    OwnAudio
