SPECIFICATION FairSpec
CONSTANTS
    k1 = k1
    k2 = k2
    r1 = r1
    r2 = r2
    load = load
    prune = prune
    Keys = {k1, k2}
    Requests = {r1, r2}
    Jobs = {load, prune}
    Flushing = {load}
    MaxVersion = 3
    MaxFaults = 1
INVARIANT StalenessIsExplained
PROPERTY StalenessEnds
CHECK_DEADLOCK FALSE
