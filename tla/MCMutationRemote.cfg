\* One request on a Storage Provider mount while another program writes.
SPECIFICATION Spec
CONSTANTS
    Missing = Missing
    Paths = {p1, p2}
    Present = {p1}
    MaxItems = 2
    Txns = {t1}
    MaxWrites = 1
    MaxFaults = 0
    Remotes = {TRUE}
    Crashes = TRUE
INVARIANT CommitReplacesExpected
CHECK_DEADLOCK FALSE
