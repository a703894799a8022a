SPECIFICATION RedisReadingSpec
CONSTANTS
    Actors = {a1, a2, a3}
    Parts = 2
    MaxSessions = 2
    MaxEvents = 2
    MaxCauses = 1
    Commands = {"open", "next", "stop", "erase", "export"}
SYMMETRY Symmetry
CHECK_DEADLOCK FALSE
INVARIANTS
    RedisReadingTypeOK
    PartsOnceInOrder
    StoppedStaysStopped
    FilesAccounted
    GenerationReleased
