SPECIFICATION Spec
CONSTANTS
    c1 = c1
    r1 = r1
    r2 = r2
    Clients = {c1}
    Requests = {r1, r2}
    ClientOf <- MCClientOf
    PerMinute = 2
    TicksPerSecond = 2
    SecondsPerMinute = 1
    IdleEviction = 4
    MaxLag = 1
    Horizon = 8
INVARIANTS TypeOK WindowBound
PROPERTIES RetryAfterSuffices RejectsOnlyOverLimit
SYMMETRY Symmetry
CHECK_DEADLOCK FALSE
