SPECIFICATION RequestsSpec
CONSTANTS
    Users = {1}
    Handlers = {h1, h2}
    Kinds = {"input", "summary"}
    DefaultLimit = 1
    MaxLimit = 2
    MaxDay = 2
    MaxEdits = 1
    Contents = {c1, c2}
    MaxDocs = 2
    MaxSessions = 2
    MaxRequests = 3
    MaxFailures = 1
INVARIANTS
    RequestsTypeOK
    LimitRespected
    CounterExact
    LocksExact
    ChargeMatchesDelivery
    CatalogSummaryOwn
SYMMETRY Symmetry
CHECK_DEADLOCK FALSE
