\* One schedule with a full history, or two under a quota of one.
SPECIFICATION MCSpec
CONSTANTS
    s1 = s1
    s2 = s2
    a1 = a1
    None = None
    Schedules = {s1, s2}
    Apps = {a1}
    Kinds = {"once", "interval", "cron"}
    Misfires = {"skip", "coalesce"}
    MaxActive = 1
    HistoryLimit = 1
    Retention = 2
    Grace = 1
    MinLead = 1
    Spread = 0
    Delay = 1
    Finals = {"failed"}
    MaxRuns = 3
    MaxTime = 3
    MaxRevision = 5
INVARIANTS
    StoreTypeOK
    ActiveIffNextRun
    MarkerNamesLiveRun
PROPERTIES
    RevisionCoversConfig
    NextRunMovesAhead
    RefinesLifecycle
CHECK_DEADLOCK FALSE
