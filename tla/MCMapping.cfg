\* One call, or two approvals at a time, through two connections.
SPECIFICATION MCSpec
CONSTANTS
    None = None
    Calls = {c1}
    Approvers = {a1, a2}
    Ops = {"read", "rpc", "write", "handle"}
    Duration = 1
    MaxSessions = 2
    MaxUpdates = 1
    MaxTime = 1
INVARIANTS
    NoReplay
    ShownApprovalIsReal
    GrantBelongsToSession
    OpenSessionReachable
SYMMETRY Symmetry
CHECK_DEADLOCK FALSE
