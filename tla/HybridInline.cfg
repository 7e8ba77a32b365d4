CONSTANTS
    Keys = {k1}
    Sizes = {1, 2}
    MAX_ASYNC_SIZE = 6
    BATCH_SIZE = 3
    RING_HEADER = 1
    BG_SYNC = FALSE
    MaxPuts = 4
SPECIFICATION FairSpec
INVARIANTS AckedIsDurable ClosedIsLogged
PROPERTIES WriteCompletes
CHECK_DEADLOCK FALSE
