SPECIFICATION Spec
CONSTANTS
    Tasks <- MCTasks
    Attempts = 1
    TotalAttempts = 2
    OutputAttempts = 1
    Lanes = 1
    Window = 2
    None = None
INVARIANTS
    ToolResultsComplete
    FollowUpsKept
    ExecutedOnlyIfAllowed
    PreviewedAfterLastChange
PROPERTIES
    
    RunEnds
CHECK_DEADLOCK FALSE
