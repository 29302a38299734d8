SPECIFICATION SmallSpec
CONSTANTS
    a = a  b = b  r1 = r1  r2 = r2
    Ops = {a, b}
    Worlds <- AllWorlds
    Rules = {r1, r2}
    Bodies <- OneBody
    MaxRounds = 1
    Profile <- NoBody
    w1 = w1  w2 = w2  p = p  q = q  Unfit = Unfit
    Writers = {w1, w2}
    Contents = {p, q}
    MaxTouches = 1
    MaxFaults = 1
    MaxInode = 3
    MaxCalls = 2
    MaxBatch = 2
    MaxConvs = 2
SYMMETRY StoreSymmetry
INVARIANTS
    ReportsTrue
    ReviewedIsReplaced
    PersonDecides
PROPERTIES
    NoEditIsLost
    CleanReportTrue
CHECK_DEADLOCK FALSE
