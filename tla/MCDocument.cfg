SPECIFICATION Spec
CONSTANTS
    UserFields <- MCUserFields
    Calls <- MCCalls
    TargetCalls <- MCTargetCalls
    MaxFields = 4
    MaxTargets = 3
    BinaryNames <- MCBinaryNames
    Base64 <- MCBase64
    Now = 4
    MaxNanos = 4
    MaxTime = 8
    MaxDelta = 10
INVARIANTS
    TypeOK
    FieldsKept
    Idempotent
    TimesAgree
    RequestTold
    MetadataTold
    HeadersAgree
    TargetsTold
CHECK_DEADLOCK FALSE
