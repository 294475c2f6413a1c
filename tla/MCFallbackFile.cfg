SPECIFICATION FairSpec
CONSTANTS
    Max = 7
    Sizes <- MCSizes
    MaxWrites = 6
    MaxFaults = 3
INVARIANTS
    TypeOK
    NewestSuffix
    AtMostOneLineOver
    ErrorHasCause
PROPERTIES
    ForgetsOnlyToMakeRoom
    WriteReturns
CHECK_DEADLOCK FALSE
