\* Reconciliation of a week whose records arrive decoded.
CONSTANTS
    Job = {j1, j2}
    Week = {1}
    Season <- OneSeason
    Player = {p1, p2}
    PoolCap = 2
    Budget = 2
    Balance = 2
    Scale = 2
    Shares = 2
    MaxAttempts = 2
    OperatorResets = "proven"
SPECIFICATION Spec
CHECK_DEADLOCK FALSE
INVARIANT FinalizedIsPaid
