SPECIFICATION Spec
CONSTANTS
    Keys = {k1}
    MaxCalls = 2
    Kinds = {"detached"}
    TransientFailures = TRUE
INVARIANTS
    AnsweredIsShown
CHECK_DEADLOCK FALSE
