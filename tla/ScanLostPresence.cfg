SPECIFICATION Spec
CONSTANTS
    None = None
    Paths = {a}
    DeletePaths = {a}
    MaxRetries = 0
    MaxChanges = 2
    MaxFaults = 0
INVARIANT IndexingAlwaysScanned
CHECK_DEADLOCK FALSE
