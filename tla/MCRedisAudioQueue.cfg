\* Two users, two workers, room for two of three jobs, a crash or a shutdown on the way.
CONSTANTS
    Users = {u1, u2}
    Workers = {w1, w2}
    MaxQueueSize = 2
    MaxJobs = 3
    MaxStops = 1
    MaxFailures = 0
    NoJob = NoJob
SYMMETRY Interchangeable
SPECIFICATION Spec
INVARIANTS
    TypeOK
    ListedOnce
    ReservationExact
PROPERTIES
    ImplementsDurableQueue
CHECK_DEADLOCK FALSE
