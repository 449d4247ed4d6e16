\* Fair threads, with requests, a restart and failing calls.
SPECIFICATION MCSpec
CONSTANTS
    None = None
    Dispatcher = Dispatcher
    Apps = {a1}
    HistoryLimit = 1
    Retention = 2
    Grace = 1
    MinLead = 1
    Spread = 0
    Delay = 0
    Finals = {"failed"}
    Schedules = {s1}
    Handlers = {h1}
    Kinds = {"interval"}
    Misfires = {"coalesce"}
    MaxActive = 1
    MaxRuns = 2
    MaxTime = 2
    MaxRevision = 3
    MaxRestarts = 1
    MaxFaults = 2
    MaxEvents = 3
PROPERTIES
    DueIsDispatched
    RunEnds
    ContextCloses
CHECK_DEADLOCK FALSE
