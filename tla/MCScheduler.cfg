SPECIFICATION Spec
CONSTANTS
    s1 = s1
    a1 = a1
    a2 = a2
    Schedules <- MCSchedules
    Actors <- MCActors
    Timings <- MCTimings
    Lease = 2
    Period = 2
    RetryDelay = 1
    MaxTime = 3
    MaxTokens = 3
    None = None
    Deleted = Deleted
SYMMETRY Symmetry
CHECK_DEADLOCK FALSE
INVARIANTS
    RowsAgree
    OpenCallIsFenced
    NoUnapprovedOverlap
    NextAfterLastDue
PROPERTIES
    FenceLiftedByOwnerOrUser
    OneShotNotLost
