\* A master and its slave, one failure.
SPECIFICATION FairSpec
CONSTANTS
    master = master
    slave = slave
    group = group
    Brokers = {master, slave}
    Masters = {master}
    Names = {group}
    Name <- MCName
    NoBroker = none
    MaxVersion = 2
    MaxChannels = 2
    MaxChanges = 1
    MaxRequests = 2
INVARIANTS TablesAgree RouteCurrent
PROPERTIES UpIsRouted GoneIsRemoved
CHECK_DEADLOCK FALSE
