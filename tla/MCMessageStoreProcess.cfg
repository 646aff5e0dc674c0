SPECIFICATION FairSpec
CONSTANTS
    Queues = {q1}
    NoQueue = none
    LogPerFile = 1
    CqPerFile = 2
    Backoff = 1
    MaxPuts = 3
    MaxRestarts = 2
    Exits = {"process"}
    CreateMayFail = TRUE
INVARIANTS
    IndexExact
PROPERTIES
    Recovers
