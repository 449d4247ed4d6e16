\* A fair Shell task, a fair job, and the job's spools.
SPECIFICATION LiveSpec
CONSTANTS
    None = None
    t1 = t1
    o1 = o1
    i1 = i1
    c1 = c1
    d1 = d1
    p1 = p1
    p2 = p2
    j1 = j1
    m1 = m1
    g1 = g1
    Cap = 3
    Page = 2
    TrimAt = 2
    Slots = 2
    MaxOut = 7
    MaxIn = 5
    MaxLost = 2
    Crashes = TRUE
INVARIANTS
    ExecutionTypeOK
    DeliveredOnce
    InputInOrder
    PruneCostsOnePage
PROPERTIES
    OutputDelivered
    InputDelivered
    TaskEnds
    JobEnds
CHECK_DEADLOCK FALSE
