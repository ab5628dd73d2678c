SPECIFICATION Spec
CONSTANTS
    u1 = u1
    u2 = u2
    t = t
    weth = weth
    r = r
    m = m
    n = n
    User = {u1, u2}
    Treasury = treasury
    Contract = {t, weth, r, m, n}
    Token = {t, weth}
    WETH = weth
    None = None
    InitialTokens = {t, weth}
    InitialRouters <- Routers
    Declares <- Modules
    Permit <- Permits
    InitialFeeBps = 1
    Fee = {0, 1, 2}
    MAX_FEE_BPS = 1
    BPS_DENOMINATOR = 4
    MaxTax = 1
    MaxExtra = 1
    MaxStray = 1
    MaxChanges = 3
    MaxCode = 2
SYMMETRY Symmetry
INVARIANTS
    TypeOK
    SignedTradesOnly
PROPERTIES
    OnlyApprovedCodeRuns
CHECK_DEADLOCK FALSE
