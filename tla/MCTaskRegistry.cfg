\* One command with every hazard, or two commands under reused ids.
SPECIFICATION MCSpec
CONSTANTS
    t1 = t1
    t2 = t2
    o1 = o1
    o2 = o2
    i1 = i1
    i2 = i2
    c1 = c1
    c2 = c2
    None = None
    Tasks = {t1, t2}
    Owners = {o1, o2}
    Ids = {i1, i2}
    Controllers = {c1, c2}
    Leases = {FALSE, TRUE}
    Interactive = {FALSE, TRUE}
    MaxPerToken = 1
    MaxGlobal = 1
    Keep = 1
    FaultKinds = {"spawn", "readers", "lease", "save"}
    MaxFaults = 1
    Closes = TRUE
    Forks = TRUE
INVARIANTS
    LookupNeverMisses
    KillNotLost
    LeaseOutlivesGroup
    CloseLeavesNoLeader
SYMMETRY Interchangeable
CHECK_DEADLOCK FALSE
