SPECIFICATION Spec
CONSTANTS
    c1 = c1
    c2 = c2
    Conv <- MCTwo
    Remote <- MCTwo
    Gates = {}
    MaxObj = 3
    MaxNew = 1
    MaxMsg = 1
    MaxFaults = 0
    MaxRestarts = 1
    MaxStops = 0
    MaxCalls = 1
    CacheLimit = 1
    None = None
INVARIANTS
    DeletedStaysDeleted
    HeirBeforeMark
PROPERTY OutcomeNotUndone
SYMMETRY MCSymmetry
CHECK_DEADLOCK FALSE
