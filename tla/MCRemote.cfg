SPECIFICATION RemoteSpec
CONSTANTS
 Tasks = {"t"}
 Routes = {"ds","gpt","cl","lo","gem"}
 Provider <- MCProvider
 Protocol <- MCProtocol
 Relays = {"gpt"}
 Custom = {"cl"}
 Backup = {"ds"}
 Score <- MCScore
 Team = FALSE
 Tries = 2
 MaxChanges = 2
 MaxCalls = 3
 MaxTools = 2
 Pieces = 2
 Bots = {"a","b"}
 Updates <- MCUpdates
 Content <- MCContent
 MaxAttempts = 2
 MaxRestarts = 1
 MaxTokens = 1
 None = None
INVARIANTS FailsOnlyWhenExhausted IdentityMatches StatesStayHome AssembledIsSent UpdatesAreKept
PROPERTY RequestsEnd
CHECK_DEADLOCK FALSE
