SPECIFICATION Spec
CONSTANTS
    None = None
    Paths = {a}
    DeletePaths = {a}
    MaxRetries = 0
    MaxChanges = 0
    MaxFaults = 1
INVARIANT ReadyServesConfiguration
CHECK_DEADLOCK FALSE
