SPECIFICATION Spec
CONSTANTS
    None = None
    Sessions = {s1, s2, s3}
    MaxAttempts = 3
    MaxConcurrency = 2
    MidstreamRecovery = TRUE
    CloseMayRaise = TRUE
SYMMETRY Symmetry
INVARIANTS
    EverybodyIsLed
    SlotsAreCounted
PROPERTIES
    OnlyTheProbeDecides
    ExhaustionHolds
CHECK_DEADLOCK FALSE
