SPECIFICATION Spec
CONSTANTS
    Max = 7
    Sizes <- MCSizes
    MaxWrites = 6
    MaxFaults = 3
INVARIANT UndisturbedWriteSucceeds
CHECK_DEADLOCK FALSE
