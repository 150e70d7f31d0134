CONSTANTS
    d1 = d1
    d2 = d2
    h1 = h1
    daemon = daemon
    helper = helper
    NoTask = NoTask
    Tasks = {d1, d2, h1}
    Processes = {daemon, helper}
    Home <- MCHome
    Recovering = {daemon}
    Viewers = {d2}
    MaxFaults = 1
    MaxCrashes = 1
SPECIFICATION Spec
CONSTRAINT Isolated
INVARIANTS
    TypeOK
    OpenDatabaseStays
    ReadHandleStays
    CatalogNamesDatabase
    RecoveryDecides
    PurgeLeavesNothing
    SomeCallAdvances
PROPERTY
    ImplementsStore
CHECK_DEADLOCK FALSE
