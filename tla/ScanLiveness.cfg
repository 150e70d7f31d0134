SPECIFICATION FairSpec
CONSTANTS
    None = None
    Paths = {a}
    DeletePaths = {a}
    MaxRetries = 1
    MaxChanges = 2
    MaxFaults = 1
INVARIANTS
    OneScan
    PendingHasOwner
    IndexingIsScanned
PROPERTIES
    Converges
    ForcedFullHappens
CHECK_DEADLOCK FALSE
