\* Jobs that overlap when the mutex expires, fail anywhere, and are reset.
CONSTANTS
    Job = {j1, j2}
    Week = {1}
    Season <- OneSeason
    Player = {p1, p2}
    PoolCap = 2
    Budget = 2
    Balance = 2
    Scale = 2
    Shares = 2
    MaxAttempts = 2
    OperatorResets = "proven"
SPECIFICATION Spec
CONSTRAINT Bounded
VIEW Live
CHECK_DEADLOCK FALSE
SYMMETRY Symmetry
INVARIANTS
    TypeOK
    AtMostOneBatch
    BatchIsOnRecord
    RecordsMatchBatch
    LedgerIsBatch
    AllocatedIsPaid
