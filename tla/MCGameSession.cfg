CONSTANTS
    Session = {s1, s2}
    Beat = {h1}
    Reward = {r1, r2}
    MaxLive = 1
    XpCap = 1
    MinRuns = 1
    DaysPerWeek = 1
    MaxDay = 1
    RewardsEnabled = FALSE
SPECIFICATION Spec
SYMMETRY Symmetry
INVARIANTS
    TypeOK
    CountedOnce
PROPERTY FrozenStays
CHECK_DEADLOCK FALSE
