\* An occurrence that is claimed after the retention period.
SPECIFICATION SchedulerSpec
CONSTANTS
    None = None
    Dispatcher = Dispatcher
    Apps = {a1}
    HistoryLimit = 1
    Retention = 2
    Grace = 1
    MinLead = 1
    Spread = 0
    Delay = 0
    Finals = {"failed"}
    Schedules = {s1}
    Handlers = {h1}
    Kinds = {"interval"}
    Misfires = {"skip"}
    MaxActive = 1
    MaxRuns = 2
    MaxTime = 4
    MaxRevision = 4
    MaxRestarts = 1
    MaxFaults = 0
PROPERTIES
    ClaimedRunRecorded
CHECK_DEADLOCK FALSE
