SPECIFICATION Spec
CONSTANTS
    Clients = {c1, c2}
    NoClient = none
    Oldest = 1
    Unmatched = {}
    PullBatch = 2
    ConsumeBatch = 1
    PullThreshold = 1
    MaxSpan = 2
    FromLast = FALSE
    MaxOffset = 3
    MaxChanges = 1
    MaxQueues = 2
SYMMETRY Symmetry
INVARIANTS
    NothingSkipped
    NoneStranded
PROPERTIES
    ImplementsGroup
CHECK_DEADLOCK FALSE
