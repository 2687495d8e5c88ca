CONSTANTS
    Proc = {1, 2, 3}
    Secrets = {s1}
    None = None
    Starting <- Casts
    Roots = {r1, r2}
    MaxGeneration = 2
    MaxTaken = 2
    User = User
    NoKey = NoKey
    Torn = Torn
    Checkpoints = {c1}
    MaxLease = 2
    Profiles = {p1, p2}
    Projects = {j1}
    Revisions = {v1}
    Handoffs = {h1}
    Retentions = {None}
    MaxClock = 0
    MaxBoot = 1
SPECIFICATION OwnershipSpec
CONSTRAINT OneOrdinaryLaunch
INVARIANTS OneOwner KeysKept
PROPERTIES OwnerSucceeds StaleClaimReleased
CHECK_DEADLOCK FALSE
