SPECIFICATION SteadySpec
CONSTANTS
    g1 = g1
    g2 = g2
    g3 = g3
    NoGrant = NoGrant
    Grants = {g1, g2, g3}
    Legacy = {g3}
    LegacyLog <- MCLegacyLog
    EvidenceBacked = {g2}
    Debit <- MCDebit
    Limit = 1
    Period = 3
    TTL = 1
    LeaseTerm = 1
    MaxTime = 3
    CallHorizon = 2
    MaxVersion = 1
    MaxMishaps = 1
    ClockMayStepBack = FALSE
    MaxI64 = 100
INVARIANTS
    TypeOK
    NoDarkEffect
    PreInvocationFactTrue
    BudgetHolds
    ClaimedUnderFrozen
    LockdownStopsEgress
    CutoverComplete
PROPERTIES
    ImplementsPromise
CHECK_DEADLOCK FALSE
