SPECIFICATION Spec
CONSTANTS
    Max = 7
    Sizes <- MCSizes
    MaxWrites = 6
    MaxFaults = 3
INVARIANT StoredRecordIsOneLine
CHECK_DEADLOCK FALSE
