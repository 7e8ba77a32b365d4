CONSTANTS
    Keys = {k1, k2}
    Sizes = {1, 2}
    MAX_ASYNC_SIZE = 6
    BATCH_SIZE = 3
    RING_HEADER = 1
    BG_SYNC = TRUE
    MaxPuts = 3
SPECIFICATION Spec
SYMMETRY Symmetry
INVARIANTS RingInv GetSeesLastWrite CompletionsBalanced FlushedInOrder
CHECK_DEADLOCK FALSE
