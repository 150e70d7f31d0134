SPECIFICATION Spec
CONSTANTS
    None = None
    Paths = {a, b}
    DeletePaths = {a}
    MaxRetries = 0
    MaxChanges = 2
    MaxFaults = 1
INVARIANTS
    TypeOK
    NoChangeLost
    RebuildKept
CHECK_DEADLOCK FALSE
