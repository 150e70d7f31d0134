SPECIFICATION FairSpec
CONSTANTS
    q1 = q1
    q2 = q2
    s1 = s1
    s2 = s2
    cli = cli
    ws = ws
    None = None
    Jobs = {q1, q2, s1, s2}
    Clients = {cli}
    Workspaces = {ws}
    Leases = {l}
    Stops = {c}
    Publishers = {q2, s1, s2}
    PoolOf <- MCPoolOf
    ClientOf <- MCClientOf
    WorkspaceOf <- MCWorkspaceOf
    pool_concurrency <- MCConcurrency
    max_active = 2
    query_reserved_slots = 1
    max_in_flight <- MCMaxInFlight
INVARIANTS
    TypeOK
    AdmissionLimits
    NoStall
    OnePublication
    StoppedIsQuiet
PROPERTIES
    ReserveHonoured
    ImplementsOrder
    EveryJobSettles
    StopReturns
CHECK_DEADLOCK FALSE
