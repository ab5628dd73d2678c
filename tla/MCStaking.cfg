SPECIFICATION Spec
CONSTANTS
    User = {u1, u2}
    Amount = {1, 2}
    Length = {1, 2}
    APR = {2}
    MINIMUM_STAKE = 1
    REWARDS_DURATION = 1
    INITIAL_APR_BPS = 1
    MIN_APR_BPS = 1
    MAX_APR_BPS = 4
    Unit = 2
    Year = 1
    PRECISION = 2
    MaxTime = 3
    MaxStaked = 3
    MaxFunded = 3
SYMMETRY Symmetry
INVARIANTS
    TypeOK
    PrincipalIsCovered
    RewardsWithinEmission
PROPERTIES
    EarnedNeverDrops
CHECK_DEADLOCK FALSE
