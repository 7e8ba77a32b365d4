CONSTANTS
    Clients = {c1, c2}
    Loner = c1
    Keys = {k1}
    Lens = {1, 4}
    Pmem = TRUE
    Synced = FALSE
    Failing = TRUE
    BUFSIZE = 8
    MAX_INLINE_SIZE = 5
    MaxPuts = 4
    MaxCalls = 4
SPECIFICATION MCSpec
INVARIANTS AckedPersistent
PROPERTIES ImplementsStore CallReturns
CHECK_DEADLOCK FALSE
