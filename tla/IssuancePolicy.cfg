SPECIFICATION PolicySpec
CONSTANTS
    Authority = {a1, a2}
    Process = {p1}
    host <- OneProcess
    Intent = {i1, i2, i3}
    None = None
    MaxRecords = 5
    MaxFaults = 2
    Jobs = {j1, j2}
    JobContract <- SmallContract
    JobPlan <- SmallPlan
    ApprovalTtl = 1
    MaxTime = 3
    MaxCommands = 3
    MaxIssued = 2
CHECK_DEADLOCK FALSE
INVARIANTS SignedIsDurable IssuedUnderApproval
PROPERTIES ImplementsAtMostOnce RestartLoads
