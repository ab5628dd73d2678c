CONSTANTS
    None = None
    Call = {c1, c2}
    Server = {s1, s2}
    Post = {p1, p2}
    Goal = {g1}
    MaxSlots = 2
    MaxRevokes = 1
    MaxKills = 1
    MaxSwitches = 1
    Production = TRUE
SPECIFICATION Spec
SYMMETRY Symmetry
INVARIANT NothingSentAfterRevocation
CHECK_DEADLOCK FALSE
