\* One HTTP thread with a restart and a fault, or two HTTP threads.
SPECIFICATION MCSpec
CONSTANTS
    s1 = s1
    a1 = a1
    h1 = h1
    h2 = h2
    None = None
    Dispatcher = Dispatcher
    Apps = {a1}
    HistoryLimit = 1
    Retention = 2
    Grace = 1
    MinLead = 1
    Spread = 0
    Delay = 0
    Finals = {"failed"}
    Schedules = {s1}
    Handlers = {h1, h2}
    Kinds = {"interval"}
    Misfires = {"coalesce"}
    MaxActive = 1
    MaxRuns = 2
    MaxTime = 2
    MaxRevision = 3
    MaxRestarts = 1
    MaxFaults = 1
INVARIANTS
    NoOverlap
    TaskAttended
    HeapFresh
SYMMETRY Threads
CHECK_DEADLOCK FALSE
