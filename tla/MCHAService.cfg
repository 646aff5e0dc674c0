SPECIFICATION FairSpec
CONSTANTS
    MsgUnits = 2
    FileSize = 5
    Batch = 1
    MaxMessages = 3
    MaxFaults = 2
    MaxInFlight = 2
INVARIANTS
    SlaveIsCopy
    DispatchedInOrder
    AckedWasStored
PROPERTIES
    CatchesUp
