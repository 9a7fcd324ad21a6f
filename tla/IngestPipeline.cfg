SPECIFICATION FairSpec
CONSTANTS
    f1 = f1
    f2 = f2
    a = a
    b = b
    Files = {f1, f2}
    Keys = {a, b}
    Malformed = Malformed
    MaxVersion = 2
    Content <- MCContent
    MayRevert = FALSE
    Plan <- MCPlan
    Tagged = {f1, f2}
    Workers = 2
    BatchSize = 2
    OpensAtomically = FALSE
    BodiesBreak = TRUE
    MaxFaults = 1
INVARIANTS
    TypeOK
    RecordedFileIsHeld
    LedgerIsCurrent
PROPERTIES
    CleanRunIsComplete
    SummaryBalances
    ImplementsResumableIngest
    RunEndsUnlessBodyBreaks
    CatchesUp
