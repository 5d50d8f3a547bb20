SPECIFICATION FairProgress
CONSTANTS
    None = None
    p1 = p1
    p2 = p2
    s1 = s1
    s2 = s2
    Clients = {c1, c2}
    MaxGeneration = 2
    MaxUnpublished = 1
    MaxFailures = 1
PROPERTIES
    GenerationsEnd
    TurnsSettle
    ExecutionsEnd
    EverythingIsDelivered
CHECK_DEADLOCK FALSE
