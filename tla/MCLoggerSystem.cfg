SPECIFICATION SystemSpec
CONSTANTS
    t1 = t1
    Threads <- MCThreads
    MaxCalls = 4
    Capacity = 2
    NoticeEvery = 2
    Oversized <- MCOversized
    MaxRestarts = 1
    Max = 3
    Sizes = {2, 4}
    MaxWrites = 4
    MaxFaults = 2
INVARIANTS
    StoredIsWhole
    WrittenOnceInOrder
    QueueOrder
PROPERTY IsLogger
CHECK_DEADLOCK FALSE
