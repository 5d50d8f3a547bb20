SPECIFICATION Spec
CONSTANTS
    None = None
    Sessions = {s1, s2, s3}
    MaxAttempts = 3
    MaxConcurrency = 2
    MidstreamRecovery = TRUE
    CloseMayRaise = FALSE
INVARIANTS
    BulkheadIdleInBackoff
CHECK_DEADLOCK FALSE
