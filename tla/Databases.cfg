CONSTANTS
    Threads = {"t1", "t2"}
    Keys = {"a", "b", "c"}
    Batches <- OwnKeys
    Sync = FALSE
    Getters = {"a"}
    MaxOps = 2
SPECIFICATION MCSpec
INVARIANTS TableMatches PutsSurvive MCLogMatchesTable SyncedDurable
PROPERTIES PutReturns
CHECK_DEADLOCK FALSE
