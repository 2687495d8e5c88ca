CONSTANTS
    Profiles = {p1, p2}
    Established = {p1, p2}
    Leases = {l1}
    Period = 1
    None = None
    Requests = {q1, q2}
    Verdicts = {"ready"}
    MaxSetups = 0
    MaxRemovals = 2
    MaxClock = 0
SPECIFICATION Spec
SYMMETRY Interchangeable
CHECK_DEADLOCK FALSE
INVARIANTS SettledHomeFollowsProfile
