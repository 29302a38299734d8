CONSTANTS
    Builds = {"old", "new"}
    Catalogue <- MCCatalogue
    Contracts <- MCContracts
    MinInt = 0
    MaxInt = 3
    Unspellable = 4
    NoAggregate = NoAggregate
    NoVerdict = NoVerdict
    NoHint = NoHint
    NoQuery = NoQuery
    RulePool <- MCRulePool
    Requests <- MCAsked
    Probes <- MCProbes
    Temporal = TRUE
    MaxRules = 2
    MaxEdits = 3
    Parts = {"rules", "template", "money", "install"}
    Attempts = 2
    Bases <- MCBases
    Edits <- MCEdits
    MaxAuthored = 2
    Verbs <- MCVerbs
    Worlds <- MCWorlds
    Amounts = {1, 2}
    Fingerprints = {1, 2}
    Aggregate <- MCAggregate
    EvidenceTTL = 0
    GrantTTL = 1
    LeaseTTL = 0
    MaxFresh = 1
    MaxGrants = 3
    MaxNow = 2
    MaxEnv = 1
    MaxCrashes = 1
    r1 = r1  r2 = r2
    Releases = {r1, r2}
    Altered = Altered
    None = None
    MaxKeys = 2
    MaxMishaps = 1
SPECIFICATION SmallSpec
SYMMETRY Sym
INVARIANTS
    VerdictIgnoresOrder
    AdviceIsTrue
    CapsHold
    AuthorityNeverGrows
    ApprovedIsSent
    EffectIsGuarded
    LandedOnce
    DispositionTrue
    KeyNeverOrphansVault
    RunsWhatWasVerified
CHECK_DEADLOCK FALSE
