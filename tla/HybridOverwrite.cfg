CONSTANTS
    Keys = {k1, k2}
    Sizes = {1, 2}
    MAX_ASYNC_SIZE = 8
    BATCH_SIZE = 3
    RING_HEADER = 1
    BG_SYNC = TRUE
    MaxPuts = 4
SPECIFICATION Spec
INVARIANTS RingKeepsUnlogged
CHECK_DEADLOCK FALSE
