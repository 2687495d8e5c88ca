CONSTANTS
    Profiles = {p1, p2}
    Established = {p1}
    Leases = {l1}
    Period = 1
    None = None
    Requests = {q1, q2}
    Verdicts = {"ready", "needs_reauthentication"}
    MaxSetups = 2
    MaxRemovals = 1
    MaxClock = 1
SPECIFICATION Spec
CONSTRAINT LaunchOrContest
SYMMETRY Interchangeable
CHECK_DEADLOCK FALSE
INVARIANTS NoOpenLaunchInQuarantine GoneForGood ProfilesUsable
