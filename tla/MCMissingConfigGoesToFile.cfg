SPECIFICATION Spec
CONSTANTS
    t1 = t1
    t2 = t2
    A = A
    B = B
    Unset = Unset
    Blank = Blank
    Threads <- MCThreads
    Values <- MCValues
    Configs <- MCConfigs
    StartEnvs <- MCStartEnvs
    QueueSettings <- MCQueueSettings
    DefaultCapacity = 3
    MaxSets = 2
    MaxPanics = 1
INVARIANT MissingConfigGoesToFile
