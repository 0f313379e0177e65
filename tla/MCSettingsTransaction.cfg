SPECIFICATION Spec
CONSTANTS
    vault = vault
    preferences = preferences
    control = control
    Targets <- MCTargets
    Always <- MCAlways
    Learnt = vault
    MaxFaults = 2
    MaxGen = 3
    None = None
INVARIANTS
    LiveIsDurable
PROPERTY AllOrNothing
