SPECIFICATION BackgroundSpec
CONSTANTS
    MaxPerDispatch = 3
    MaxDispatches = 2
    MaxTotalRuns = 4
    Concurrency = 2
    Tasks = {t1, t2}
    MaxSessions = 2
    MaxSlices = 2
    Actions = {a1}
    MaxSteps = 2
    MaxCalls <- MCCalls
    ToolCalls = {"c", "d"}
    Blocked = {"d"}
    MaxChanges = 2
    MaxSaves = 0
    MaxStarts = 2
    None = None
INVARIANT LeaseReleased
CHECK_DEADLOCK FALSE
