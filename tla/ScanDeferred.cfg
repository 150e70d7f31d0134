SPECIFICATION Spec
CONSTANTS
    None = None
    Paths = {a, b}
    DeletePaths = {a}
    MaxRetries = 1
    MaxChanges = 2
    MaxFaults = 1
INVARIANT DeferredScanKept
CHECK_DEADLOCK FALSE
