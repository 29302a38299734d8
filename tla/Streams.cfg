SPECIFICATION SmallSpec
CONSTANTS
    c1 = c1  c2 = c2  q1 = q1  q2 = q2
    NoThread = NoThread  NoSid = NoSid  NoConn = NoConn  NoRun = NoRun
    Requests = {q1, q2}
    Conns = {1, 2, 3}
    Sids = {1, 2}
    Runs = {1, 2}
    MaxConns = 2
    MailboxCap = 1
    MaxMishaps = 2
    Calls = {c1, c2}
    Tools = {"execute"}
    WorkerCap = 2
    RunCap = 1
    MapCap = 1
    WriteCap = 1
    Pushes = {"p1", "p2"}
    Fetches = {"f"}
    Casts <- AllCasts
    Commits = {1, 2, 3}
    Descends <- Forked
    NoFile = "none"
    MaxEnv = 1
    MaxRestarts = 1
SYMMETRY Sym
INVARIANTS
    RetryableIsUnclaimed
    MirrorHolds
PROPERTIES
    OneEffectPerRequest
CHECK_DEADLOCK FALSE
