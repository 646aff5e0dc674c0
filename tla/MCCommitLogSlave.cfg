SPECIFICATION FairSpec
CONSTANTS
    Producers = {p1, p2}
    NoProducer = none
    FileSize = 3
    MsgSize = 1
    BlankLength = 1
    MaxFiles = 1
    MaxPuts = 2
    Waits = {TRUE}
    SyncFlush = FALSE
    SyncMaster = TRUE
    LeastPages = 0
    FallbehindMax = 2
    WaitRounds = 1
PROPERTIES
    RequestsAnswered
CHECK_DEADLOCK FALSE
