\* Calls to Redis fail, before or after they were executed; fewer jobs.  No symmetry:
\* liveness is checked.
CONSTANTS
    Users = {u1, u2}
    Workers = {w1, w2}
    MaxQueueSize = 2
    MaxJobs = 2
    MaxStops = 1
    MaxFailures = 1
    NoJob = NoJob
SPECIFICATION FairSpec
INVARIANTS
    LeakBounded
PROPERTIES
    EveryJobLeaves
CHECK_DEADLOCK FALSE
