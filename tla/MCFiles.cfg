\* Mutation requests on one or two paths, or uploads of two bytes each.
SPECIFICATION MCSpec
CONSTANTS
    t1 = t1
    t2 = t2
    Missing = Missing
    Paths = {p1, p2}
    Present = {p1}
    MaxItems = 2
    Txns = {t1, t2}
    MaxWrites = 2
    MaxFaults = 2
    Remotes = {FALSE, TRUE}
    Crashes = TRUE
    h1 = h1
    h2 = h2
    u1 = u1
    u2 = u2
    Ids = {u1, u2}
    Threads = {h1, h2}
    Size = 2
    Quota = 2
    Kinds = {"local", "storage", "mapping"}
    MaxRestarts = 1
    None = None
INVARIANTS
    FilesTypeOK
    NothingLostOutsideWindows
    AllOrNothing
    NoLostUpdate
    AckedBytesKept
    DiskWithinQuota
    PublishedWhole
PROPERTY
    NeverReplaces
SYMMETRY Requests
CHECK_DEADLOCK FALSE
