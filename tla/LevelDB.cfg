CONSTANTS
    Writers = {"w1", "w2", "w3"}
    Kinds = {"async", "sync", "force"}
    kL0_CompactionTrigger = 1
    kL0_SlowdownWritesTrigger = 1
    kL0_StopWritesTrigger = 1
    Failing = TRUE
    MaxCalls = 1
SPECIFICATION MCSpec
INVARIANTS ReadsLatest LevelsOrdered LogRecovers WritesReported WaitersHaveWork CrashSafe
CHECK_DEADLOCK FALSE
