\* Two pulls of one queue, two senders with one message each.
SPECIFICATION FairSpec
CONSTANTS
    Requests = {r1, r2}
    Senders = {s1, s2}
    HoldService = hold
    QueueCapacity = 1
    MaxOffset = 2
INVARIANTS InOnePlace NotTooEarly
PROPERTY NoLostWakeup
CHECK_DEADLOCK FALSE
