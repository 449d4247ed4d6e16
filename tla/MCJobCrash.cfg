\* The Manager crashes between a spool file and its row.
SPECIFICATION Spec
CONSTANTS
    Cap = 3
    Page = 2
    TrimAt = 2
    Slots = 2
    MaxOut = 7
    MaxIn = 0
    MaxLost = 2
    Crashes = TRUE
INVARIANT OutputSurvives
CHECK_DEADLOCK FALSE
