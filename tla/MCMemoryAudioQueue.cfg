\* Two users, two workers, room for three of four jobs: jobs are set aside, the queue
\* fills up, and a shutdown with a restart of the workers happens on the way.
CONSTANTS
    Users = {u1, u2}
    Workers = {w1, w2}
    MaxQueueSize = 3
    MaxJobs = 4
    MaxCloses = 1
    NoJob = NoJob
SPECIFICATION FairSpec
INVARIANTS
    TypeOK
    CapacityRespected
    OneJobPerUser
    PositionExact
    JoinMeansDrained
    NoLostWakeup
    DeferredOnlyWhileBusy
    UserOrder
PROPERTIES
    ImplementsAudioQueue
    EveryJobServed
CHECK_DEADLOCK FALSE
