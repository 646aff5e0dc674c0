SPECIFICATION Spec
CONSTANTS
    Queues = {q1, q2}
    NoQueue = none
    LogPerFile = 1
    CqPerFile = 2
    Backoff = 1
    MaxPuts = 3
    MaxRestarts = 1
    Exits = {"normal", "machine"}
    CreateMayFail = FALSE
SYMMETRY Symmetry
INVARIANTS
    CheckpointSound
    IndexExact
    FlushedKept
