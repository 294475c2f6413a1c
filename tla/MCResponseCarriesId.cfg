SPECIFICATION Spec
CONSTANTS
    r1 = r1
    r2 = r2
    a = a
    NoId = NoId
    Blank = Blank
    Requests = {r1, r2}
    ClientIds = {a}
    MaxTargets = 1
    MaxPushes = 1
INVARIANT ResponseCarriesId
CHECK_DEADLOCK FALSE
