SPECIFICATION Spec
CONSTANTS
    Documents <- Calls
    HoldLimit = 4
INVARIANTS
    CallsAreFound
CHECK_DEADLOCK FALSE
