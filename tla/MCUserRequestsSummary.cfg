SPECIFICATION RequestsSpec
CONSTANTS
    Users = {1}
    Handlers = {h1, h2}
    Kinds = {"input", "summary"}
    DefaultLimit = 2
    MaxLimit = 2
    MaxDay = 1
    MaxEdits = 0
    Contents = {c1, c2}
    MaxDocs = 2
    MaxSessions = 2
    MaxRequests = 3
    MaxFailures = 0
INVARIANT SummaryIsOwn
SYMMETRY Symmetry
CHECK_DEADLOCK FALSE
