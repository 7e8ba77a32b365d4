CONSTANTS
    Clerks = {c1, c2, c3}
    Keys = {k1}
    Sizes = {1}
    BATCH_SIZE = 2
    MAX_REQUEST = 2
    MaxWrites = 3
SPECIFICATION FairSpec
INVARIANTS AnsweredIsStored
PROPERTIES ImplementsLog WriterIsAnswered
CHECK_DEADLOCK FALSE
