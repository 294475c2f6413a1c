SPECIFICATION FairSpec
CONSTANTS
    r1 = r1
    r2 = r2
    a = a
    NoId = NoId
    Blank = Blank
    Requests = {r1, r2}
    ClientIds = {a}
    MaxTargets = 2
    MaxPushes = 3
INVARIANTS
    TypeOK
    LoggedOnce
    TargetsKept
    TargetsInTime
    IdsAgree
    EntriesCorrelate
PROPERTY AnswersGoOut
CHECK_DEADLOCK FALSE
