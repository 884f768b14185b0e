SPECIFICATION MCSpec
CONSTANTS
    Events = {e1, e2}
    Handlers = {h1, h2}
    Dispatchers = {d1, d2}
    Batch = 2
    MaxAttempts = 2
    None = None
    Desks = {desk1, desk2}
    NoRow = NoRow
    MaxFailures = 2
    Window = 1
    BaseLock = 1
    MaxLock = 2
    ChallengeTTL = 1
    ChallengeTries = 2
    ChallengeIds = {1}
    LastAuthTick = 2
    MaxSecrets = 2
    MaxCrashes = 1
    PkgIds = {1, 2}
    DepIds = {1, 2}
    TierCodes = {"t1", "t2"}
    MaxPkgWrites = 3
SYMMETRY Symmetry
INVARIANTS
    TypeOK
    OnceUnlessLapsed
    SignInHolds
    CatalogueHolds
PROPERTIES
    AtLeastOnce
    MarksOwnClaim
CHECK_DEADLOCK FALSE
