SPECIFICATION Spec
CONSTANTS
    Producers = {p1, p2}
    NoProducer = none
    FileSize = 3
    MsgSize = 2
    BlankLength = 1
    MaxFiles = 3
    MaxPuts = 3
    Waits = {TRUE, FALSE}
    SyncFlush = TRUE
    SyncMaster = FALSE
    LeastPages = 2
    FallbehindMax = 4
    WaitRounds = 2
SYMMETRY Symmetry
INVARIANTS
    CommittedIsDurable
    FlushOkHonest
    NoOverlap
    NothingForgotten
CHECK_DEADLOCK FALSE
