SPECIFICATION Spec
CONSTANTS
    c1 = c1
    c2 = c2
    Conv <- MCOne
    Remote <- MCOne
    Gates = {"waiting", "waiting_user"}
    MaxObj = 4
    MaxNew = 1
    MaxMsg = 2
    MaxFaults = 1
    MaxRestarts = 0
    MaxStops = 2
    MaxCalls = 2
    CacheLimit = 1
    None = None
INVARIANTS
    OneRunPerConversation
    OutcomeIsDurable
    InstructionsKept
CHECK_DEADLOCK FALSE
