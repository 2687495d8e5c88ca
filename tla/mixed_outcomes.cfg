CONSTANTS
    Evaluators = {e1, e2}
    Kinds = {"reauthentication"}
    MaxCaptures = 1
    RepeatedFailureCount = 2
    StaleAfter = 0
    WindowEnd = 1
    DeliveryMaxAttempts = 2
    MaxAlertTime = 1
    MaxOpenings = 2
    NoAlert = NoAlert
SPECIFICATION AlertSpec
INVARIANT NoticeOnce
CHECK_DEADLOCK FALSE
