CONSTANTS
    Slot = {x1, x2}
    Token = {t1, t2}
    FirstToken = t1
    Session = {y1, y2}
    BootstrapTTL = 1
    SessionTTL = 1
    MaxTime = 1
    NoCredential = NoCredential
    Platform = {"linux", "darwin", "windows"}
    Definition = {d1, d2}
    NoDefinition = NoDefinition
    Paths <- Files
    PackContents = {"a", "b"}
    LocalContents = {"x"}
    Absent = Absent
    Legacy = Legacy
    MaxEdits = 1
    NoJob = NoJob
    Profiles = {x1, x2}
    Versions = {y1, y2}
    Aliases = {x1, x2, a3}
    PackFiles = {f1, f2}
    None = None
    Local = Local
    NoOperation = NoOperation
    NoReview = NoReview
    MaxOperations = 2
    MaxChanges = 2
    Values = {1, 2}
    BundleValues = {1}
    Missing = Missing
    NoImport = NoImport
    MaxLocalChanges = 2
    Buckets = {0, 2}
    MaxAggregateCount = 1
    MaxOccurrenceCount = 1
    RetentionDays = {1}
    LatestDay = 2
    Requesters = {x1, x2}
    MaxUpdates = 1
    NoBucket = NoBucket
    NoBundle = NoBundle
    Backups = 3
    Schema = 2
    Windows = FALSE
    MaxClock = 1
    MaxLosses = 1
SYMMETRY Symmetry
CONSTRAINT OneBrowses OneAsks
INIT RequestsInit
NEXT RequestsNext
INVARIANTS SessionsGuarded ReportsAreTrue PacksKept SlotsValid NoSilentReset MigrationBackedUp CandidateKept
PROPERTIES HomeKept ProjectionReviewed ImportReviewed BundlesReviewed NewestKept DisplacedKept
CHECK_DEADLOCK FALSE
