CONSTANTS
    t1 = t1
    t2 = t2
    g1 = g1
    g2 = g2
    NoToken = NoToken
    NoGrant = NoGrant
    Tokens = {t1}
    Grants = {g1}
    RelayVerbs = {g1}
    TTLs = {0, 1, 9}
    MinTTL = 1
    MaxTTL = 2
    LeaseTerm = 1
    Horizon = 1
    MaxTime = 3
    MaxMishaps = 1
SPECIFICATION Spec
CHECK_DEADLOCK FALSE
INVARIANTS QuiescentHasNoSession
