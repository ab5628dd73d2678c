\* A rolling deploy: old writers run, and any key but the CSV may vanish.
CONSTANTS
    Exec = {e1, e2}
    Amount = {1, 2}
    MaxDaily = 3
    MaxActions = 2
    OldWriters = TRUE
    Losable = {"hash", "fence", "archive", "gen"}
    MaxDay = 2
SPECIFICATION Spec
SYMMETRY ExecSymmetry
CHECK_DEADLOCK FALSE
INVARIANTS
    TypeOK
    TotalsExact
    JointlyWithinCaps
    BroadcastStaysCounted
    AnswersNeverUndercount
PROPERTIES
    AvailableUntilLost
    ImplementsReservations
