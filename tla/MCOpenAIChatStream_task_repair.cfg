SPECIFICATION Spec
CONSTANTS
    Tools = {0, 1}
    Kind <- PlainAndTask
    MaxAttempts = 3
    MaxChunks = 3
INVARIANTS
    TaskIsNormalized
CHECK_DEADLOCK FALSE
