\* Clients of two releases around one job, or every request on two jobs.
SPECIFICATION MCSpec
CONSTANTS
    c1 = c1
    c2 = c2
    d1 = d1
    d2 = d2
    p1 = p1
    p2 = p2
    j1 = j1
    j2 = j2
    m1 = m1
    g1 = g1
    g2 = g2
    None = None
    Clients = {c1, c2}
    Daemons = {d1, d2}
    Procs = {p1, p2}
    Jobs = {j1, j2}
    MappingOf <- OneMapping
    Release <- NewerClient
    Digests = {g1, g2}
    MaxRunning = 2
    MaxPerMapping = 1
    Operations = {"start", "get", "interrupt", "kill", "stop", "force"}
    MaxCrashes = 1
    MaxFailures = 1
    MaxRequests = 3
INVARIANTS
    RestartSparesLiveJobs
    GracefulStopIsQuiet
    OneCommandPerJob
PROPERTIES
    ExitSavesState
SYMMETRY Interchangeable
CHECK_DEADLOCK FALSE
