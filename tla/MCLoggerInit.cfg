SPECIFICATION FairSpec
CONSTANTS
    t1 = t1
    t2 = t2
    A = A
    B = B
    Unset = Unset
    Blank = Blank
    Threads <- MCThreads
    Values <- MCValues
    Configs <- MCConfigs
    StartEnvs <- MCStartEnvs
    QueueSettings <- MCQueueSettings
    DefaultCapacity = 3
    MaxSets = 2
    MaxPanics = 1
INVARIANTS
    TypeOK
    OneLogger
    TakesEffect
PROPERTY UseEnds
CHECK_DEADLOCK FALSE
