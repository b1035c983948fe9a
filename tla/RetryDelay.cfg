SPECIFICATION Spec
CONSTANTS
    U64Max = 127
    I64Max = 63
    Percent = 8
    Policies <- MCPolicies
    Times = {0, 23, 62}
    MaxAttempts = 9
INVARIANTS DelayAccepted BackoffHolds
CHECK_DEADLOCK FALSE
