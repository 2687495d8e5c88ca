CONSTANTS
    Backups = 2
    Schema = 1
    Windows = TRUE
    MaxClock = 1
    MaxLosses = 1
SPECIFICATION Spec
INVARIANT NoSilentReset
