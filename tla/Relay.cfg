CONSTANTS
    NoHop = NoHop
    NoHandle = NoHandle
    Handles = {h1, h2}
    Hops = {x1, x2}
    Shapes = {"create", "upload", "poll"}
    Effect = "create"
    Budgeted = {"upload"}
    Polls = {"poll"}
    MaxUses = 1
    MaxBytes = 1
    Sizes = {1, 2}
    TTL = 1
    MaxLive = 1
    MaxTime = 2
    MaxMishaps = 1
SPECIFICATION LoggedFairSpec
INVARIANTS
    EffectSpentOnce
    PollsReadOwnEffect
    ReceiptHonest
PROPERTIES
    HopsAreClosed
CHECK_DEADLOCK FALSE
