SPECIFICATION SpecItems
CONSTANTS
    MaxMessages = 3
    MaxBlocks = 1
INVARIANTS
    ReasoningIsReplayed
CHECK_DEADLOCK FALSE
