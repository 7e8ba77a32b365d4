SPECIFICATION Spec
INVARIANTS Rebuilds FsyncedTrue RepliedDurable Restartable AckedThere
CHECK_DEADLOCK FALSE
