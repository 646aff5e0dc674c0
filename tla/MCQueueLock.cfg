\* Two clients, one change.
SPECIFICATION FairSpec
CONSTANTS
    Clients = {c1, c2}
    NoClient = none
    BrokerLive = 2
    ClientLive = 0
    RpcMax = 1
    ConsumeMax = 1
    MaxChanges = 1
    MaxUnlocks = 1
INVARIANTS OneAtATime LockInv
PROPERTIES HandedOver
CHECK_DEADLOCK FALSE
