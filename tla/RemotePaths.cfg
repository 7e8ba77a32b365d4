CONSTANTS
    Paths = {1, 2, 3, 4}
    Packets <- PacketsOf
    Cached = {2}
    MaxWrites = 4
SPECIFICATION FairSpec
INVARIANTS AckedPersistent
PROPERTIES WriteReturns ServerEnds
CHECK_DEADLOCK FALSE
