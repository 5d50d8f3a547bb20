SPECIFICATION SpecBridge
CONSTANTS
    MaxGeneration = 3
    MaxFailures = 1
    None = None
    c1 = c1
    r1 = r1
    r2 = r2
    DeliveryKeys = {"m1", "m2"}
    MaxCalls = 3
    CallKinds = {"awaited", "detached"}
    TransientFailures = TRUE
    Prompts = {1, 2}
    Parent <- ReplyToFirst
    Chats = {"a", "b"}
    ChatOf <- InChatA
    Commands = {c1}
    HomeChat = "a"
    MaxCrashes = 1
    Runners = {r1, r2}
    s1 = s1
    s2 = s2
    SessionIds = {s1, s2}
    Temp <- PendingIds
    MaxCancels <- FirstTwice
    MaxStops = 1
    Flows = {"f1", "f2", "f3"}
    Users = {}
    Voice <- ThreeNotes
    StatusOf <- ThreeReplies
    Stops = {"f1", "f2"}
    Kills = {"f1"}
    CallIds = {"toolu", "task1", "task12"}
    NoId = "none"
    TaskLike = {"task1", "task12"}
    Roughly <- BeginsWith
    Indexes = {0}
    MaxEvents = 4
    Limit = 12
    Marker = 3
    MinTail = 2
    ChatMessages = {"m1", "m2"}
    Attempts = 3
    Sends = 3
    MaxOutages = 3
INVARIANTS
    NothingOutlivesStop
    ClearedStaysCleared
    RestartsAreHonest
    NoOrphans
    SessionsAreOwned
    NotesAreOwned
    ProgressIsShown
    ShutdownIsOrderly
PROPERTIES
    StoreKeepsPromises
    DeliveriesAreKept
CHECK_DEADLOCK FALSE
