SPECIFICATION CallerSpec
CONSTANTS
    t1 = t1
    t2 = t2
    Threads <- MCThreads
    MaxCalls = 2
    Capacity = 1
    NoticeEvery = 2
    Oversized <- MCOversized
    MaxRestarts = 1
INVARIANTS
    TypeOK
    NothingVanishes
    LostOnlyWithCause
    DropsCounted
    NoticesExact
PROPERTIES
    IsLossyQueue
    NonBlocking
CHECK_DEADLOCK FALSE
