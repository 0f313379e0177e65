SPECIFICATION FilesSpec
CONSTANTS
    Processes = {p, q}
    Packaged = "rule"
    Added = "extra"
    Release <- NewRelease
    Calls = {"c"}
    Blocked = {}
    MaxChanges = 1
    MaxSaves = 1
    MaxStarts = 2
    Starters = {"p", "q"}
    Fields = {"a"}
    Endpoints = {"x", "y"}
    Retired = {"z"}
    Replaces = TRUE
    Updates = {"u1"}
    MaxFaults = 1
    Rows = {"r", "s"}
    Tokens = {"k"}
    Readers = FALSE
    MaxWrites = 1
    GatewayCalls = {"c"}
    GatewayKeys = {"k1", "k2"}
    TokenFiles = {"root", "bak"}
    Root = "root"
    FreshLog = FALSE
    ReadFails = FALSE
    MaxPolls = 1
    MaxTokens = 2
    None = None
INVARIANT KeyOfTheVaultKept
CHECK_DEADLOCK FALSE
