CONSTANTS
    Profiles = {p1, p2}
    Established = {p1, p2}
    Leases = {l1}
    Period = 1
    None = None
    Requests = {q1, q2}
    Verdicts = {"ready", "needs_reauthentication", "unavailable"}
    MaxSetups = 0
    MaxRemovals = 1
    MaxClock = 1
SPECIFICATION Spec
SYMMETRY Interchangeable
CHECK_DEADLOCK FALSE
INVARIANT HomeFollowsProfile
