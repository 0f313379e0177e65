SPECIFICATION FairSpec
CONSTANTS
    s1 = s1
    a1 = a1
    a2 = a2
    Schedules <- MCSchedules
    Actors <- OneActor
    Timings <- AllTimings
    Lease = 2
    Period = 2
    RetryDelay = 1
    MaxTime = 4
    MaxTokens = 2
    None = None
    Deleted = Deleted
CHECK_DEADLOCK FALSE
PROPERTIES
    AbandonedFenceSurfaces
    DueIsTaken
