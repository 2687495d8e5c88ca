CONSTANTS
    Checkpoints = {c1, c2}
    MaxLease = 3
    Profiles = {p1, p2}
    Projects = {j1}
    Revisions = {r1, r2}
    None = None
    Handoffs = {h1, h2}
    Retentions = {1}
    MaxClock = 1
    MaxBoot = 1
SPECIFICATION Spec
SYMMETRY Interchangeable
CONSTRAINT RetriesOrRivals
INVARIANTS TypeOK ClaimMatchesLease HandedOffOnce SettledHasNoChild OneChildPerCheckpoint ApprovedContentKept OneHandoffPerProject
PROPERTIES ClaimFromQuietProject ImplementsLedger
