\* Two ticks, two trades, a user who changes the goal, and markers that are
\* given up on, lost or late.
CONSTANTS
    Tick = {t1, t2}
    MaxSlot = 2
    MaxTrades = 2
    MaxVerify = 1
    MaxActions = 2
    MaxEdits = 1
    MaxCrashes = 0
    Unreliable = {"mark"}
    Legacy = FALSE
SPECIFICATION Spec
SYMMETRY TickSymmetry
CHECK_DEADLOCK FALSE
INVARIANTS
    TypeOK
    OneAttemptPerSlot
    PendingIsBroadcast
    VerifiedOnce
PROPERTIES
    ClosedStaysClosed
    NeverClosedUnderneath
    ImplementsReservations
