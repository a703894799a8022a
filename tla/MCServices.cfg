CONSTANTS
    u1 = u1  u2 = u2  x = x  y = y  t1 = t1  t2 = t2  m1 = m1  m2 = m2  e1 = e1  e2 = e2
    Users = {u1, u2}
    Texts = {x, y}
    Clips <- MCClips
    Scripts <- MCScripts
    Premium = {u2}
    Callers = {t1, t2}
    Permits = 1
    RetryAttempts = 2
    GeminiAttempts = 2
    GeminiModels = 2
    MaxCalls = 2
    MaxTroubles = 3
    Updates = {m1, m2}
    UpdateInterval = 2
    MaxTime = 3
    MaxClock = 4
    MaxIncidents = 4
    Events = {e1, e2}
    MaxEvents = 2
    Period = 2
    MaxOutages = 3
    QueueSize = 2
    MaxMetrics = 5
    MaxFaults = 2
    MaxLength = 5
    Inputs <- MCInputs
SPECIFICATION ServicesSpec
INVARIANTS OwnersExact VoiceFilesAccounted ActivityTrue WindowRespected MetricsOutliveClose TextKept
SYMMETRY MCSymmetry
CHECK_DEADLOCK FALSE
