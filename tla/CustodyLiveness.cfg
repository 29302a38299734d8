SPECIFICATION PartFairSpec
CONSTANTS
    t1 = t1  t2 = t2  g1 = g1  g2 = g2
    NoToken = NoToken  NoGrant = NoGrant
    Tokens = {t1, t2}
    Grants = {g1}
    RelayVerbs = {g1}
    TTLs = {0, 1, 9}
    MinTTL = 1
    MaxTTL = 2
    LeaseTerm = 1
    Horizon = 1
    MaxTime = 4
    MaxMishaps = 1
    Parts = {"barrier", "latch", "record"}
    o1 = o1  o2 = o2  c1 = c1  c2 = c2
    Owners = {c1}  Transitions = {o1, o2}  MaxRequests = 2  LatchMishaps = 1
    Operators = {c1}  Stagings = {u1, u2}  Builds <- MCBuilds  RecordMishaps = 1
    MaxRows = 5  MaxFaults = 2
    Keeper = Keeper  Bootstrap = Bootstrap  NoRecord = NoRecord  NoThread = NoThread
    u1 = u1  u2 = u2  xa = xa  xb = xb  NoContent = NoContent
    Texts = {xa}
    None = None
PROPERTIES
    NeverWedged
    EventuallyAudited
CHECK_DEADLOCK FALSE
