SPECIFICATION Spec
CONSTANTS
    k1 = k1
    k2 = k2
    r1 = r1
    r2 = r2
    load = load
    prune = prune
    Keys = {k1}
    Requests = {r1}
    Jobs = {load}
    Flushing = {load}
    MaxVersion = 2
    MaxFaults = 0
INVARIANTS FreshWhenQuiet
CHECK_DEADLOCK FALSE
