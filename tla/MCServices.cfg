SPECIFICATION ServicesSpec
CONSTANTS
    Text = t
    Events <- MCEvents
    Contents <- MCContents
    Attachments = {f, g}
    Handlers = 2
    MaxLeases = 2
    Remembered = 2
    MaxDeliveries = 3
    MaxFaults = 1
    Threshold = 2
    MaxSaves = 2
    MaxSpawns = 4
    MaxCrashes = 1
    Sockets = {s1, s2, s3}
    Commands = {c1}
    MaxKeys = 2
    MediaCalls = {a, b}
    Official <- MCOfficial
    Listed = {"p"}
    Pool <- MCPool
    Named = {"p"}
    Workers = 1
    MaxChanges = 1
    Tasks = {"a", "b"}
    Downloads = {"f", "g"}
    MaxRecords = 1
    MaxLaunches = 3
    Other = Other
    None = None
INVARIANTS EventsAreKept ListenerIsOurs PhoneIsTold MediaIsFree EndedIsClean
SYMMETRY Symmetry
CHECK_DEADLOCK FALSE
