SPECIFICATION FairSystemSpec
CONSTANTS
    t1 = t1
    Threads <- MCThreads
    MaxCalls = 3
    Capacity = 2
    NoticeEvery = 2
    Oversized <- MCOversized
    MaxRestarts = 1
    Max = 3
    Sizes = {2, 4}
    MaxWrites = 3
    MaxFaults = 2
PROPERTY Drains
CHECK_DEADLOCK FALSE
