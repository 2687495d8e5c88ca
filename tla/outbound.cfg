CONSTANTS
    Callers = {c1, c2}
    Aliases = {x1, x2}
    Profiles = {x1, x2}
    None = None
    Versions <- Releases
    Builds = {1}
    ManualCheckers = {m1}
    NormalCheckInterval = 2
    FailureRetryInterval = 1
    MaxCheckTime = 2
    NoResult = NoResult
    QueueCapacity = 1
    MaxConsents = 3
    NoItem = NoItem
SPECIFICATION Spec
INVARIANTS ConsentKept
PROPERTIES UsageOfAskedProfile EveryCallAnswered ChecksKept CloseEnds
CHECK_DEADLOCK FALSE
