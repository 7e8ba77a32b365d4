CONSTANTS
    Threads = {"t1", "t2"}
    Keys = {"a", "b", "c"}
    Batches <- OwnKeys
    Sync = FALSE
    Getters = {"a"}
    MaxOps = 2
SPECIFICATION MCSpec
INVARIANTS RereadValue
CHECK_DEADLOCK FALSE
