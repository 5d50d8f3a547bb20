SPECIFICATION SpecRequests
CONSTANTS
    Callers = {c1, c2}
    RateLimit = 2
    RateWindow = 3
    MaxTime = 8
    MaxAcquisitions = 6
    None = None
    Requests <- RequestsOfBothApis
    MaxChunks = 3
    MaxCancels = 2
    MaxWork = 2
    MaxRestarts = 3
    Terminals = {"t1", "t2", "t3"}
    \* port is captured when the server is built, model is applied in place, key is a
    \* secret with a retired name
    Fields = {"port", "model", "key"}
    RestartFields = {"port"}
    SecretFields = {"key"}
    RenamedField = "key"
    FieldValues = {"one"}
    TemplateValue = "default"
    BadValue = "bad"
    MaskValue = "mask"
    MaxApplies = 2
    MaxBoots = 2
    Clients = {"r1", "r2"}
    MaxGeneration = 3
    MaxUnpublished = 1
    MaxFailures = 1
    Providers = {"hosted", "local"}
    Local = {"local"}
    Models <- TwoModels
    AllSettings <- TwoSettings
    MaxReplacements = 2
    MaxDiscoveries = 1
    ChatTools = {0, 1}
    ToolKind <- PlainAndTask
    MaxTries = 3
    MaxReads = 3
    Policies <- ThreePolicies
    MaxAttempts = 3
    MaxBlocks = 2
    MaxFrames = 7
    Indexes = {0, 1}
    MaxEvents = 4
INVARIANTS
    AtMostRateLimit
    NobodySleepsBesideCapacity
    ServersDoNotOverlap
    StreamsAreWellFormed
    RetriesAreInvisible
    TextIsParsed
    HistoryIsWhole
    FailuresAreToldAsDecided
PROPERTIES
    StoredIsServed
    ResourcesAreOwned
    OfferedIsServed
CHECK_DEADLOCK FALSE
