CONSTANTS
    TurnProfiles = {1, 2, 3}
    MaxCollectionsPerTick = 2
    MaxScheduleTargets = 4
    Wrap = 6
    RankedProfiles = {r1, r2}
    Metrics = {"primary", "secondary"}
    First = "primary"
    Readings <- Percentages
    Full = 2
    FreshLimit = 1
    WindowLength = 2
    MaxNow = 2
    Versions = {1, 2}
    NoEvidence = NoEvidence
    HistoryValues = {1, 2}
    BucketLength = 2
    MaxHistory = 3
    Batch = 2
    Ages = {0}
    NoConfirmation = NoConfirmation
    Intervals = {2, 3}
    Minimum = 2
    MaxBackoff = 3
    Lead = 1
    MaxJitter = 0
    Horizons = {2}
    MaxSlow = 1
    MaxTime = 4
    Never = Never
    Evaluators = {e1, e2}
    Kinds = {"capacity", "reauthentication", "failures", "stale"}
    MaxCaptures = 2
    RepeatedFailureCount = 2
    StaleAfter = 0
    WindowEnd = 1
    DeliveryMaxAttempts = 2
    MaxAlertTime = 1
    MaxOpenings = 2
    NoAlert = NoAlert
CONSTRAINT FewReasons
SYMMETRY Symmetry
INIT Init
NEXT Next
INVARIANTS TurnsAreFair ScheduleKept RecommendationFounded AlertsTold
PROPERTIES HistoryKept
CHECK_DEADLOCK FALSE
