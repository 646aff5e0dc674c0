SPECIFICATION FairFileSpec
CONSTANTS
    Readers = {r1, r2, r3}
    Cleaner = cleaner
    NoThread = none
INVARIANTS
    NoUnmapWhileHeld
    UnmapOnce
    DeletedIsFinal
    IndInv
PROPERTIES
    EventuallyDeleted
