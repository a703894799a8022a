\* README.md:190 says user-visible jobs have priority over prefetch jobs.
CONSTANTS
    Users = {u1, u2}
    Workers = {w1, w2}
    MaxQueueSize = 4
    MaxJobs = 4
    MaxCloses = 0
    NoJob = NoJob
SPECIFICATION Spec
PROPERTIES
    UserVisibleFirst
CHECK_DEADLOCK FALSE
