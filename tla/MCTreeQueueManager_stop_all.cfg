SPECIFICATION Spec
CONSTANTS
    p1 = p1
    p2 = p2
    p3 = p3
    None = None
    Prompts <- ThreePrompts
    Statuses <- UpTo3
    Claims <- UpTo3
    Trees <- UpTo2
    Scopes <- OneChat
    ScopeOf <- OneChatScopeOf
SYMMETRY PromptSymmetry
PROPERTIES
    StopAllDrainsEveryQueue
CHECK_DEADLOCK FALSE
