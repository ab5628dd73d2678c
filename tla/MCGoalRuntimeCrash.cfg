\* A tick may be killed anywhere: does the goal still get on?
CONSTANTS
    Tick = {t1, t2}
    MaxSlot = 1
    MaxTrades = 2
    MaxVerify = 2
    MaxActions = 2
    MaxEdits = 2
    MaxCrashes = 1
    Unreliable = {"fail"}
    Legacy = TRUE
SPECIFICATION FairSpec
CHECK_DEADLOCK FALSE
INVARIANTS
    BroadcastStaysCounted
PROPERTIES
    SlotIsLeft
    PendingIsSettled
