SPECIFICATION LedgerSpec
CONSTANTS
    c1 = c1
    c2 = c2
    c3 = c3
    d1 = d1
    d2 = d2
    f2 = f2
    r3 = r3
    u1 = u1
    Checkpoints <- MCCheckpoints
    Header <- MCHeader
    NoCheckpoint = NoCheckpoint
    Contexts <- MCContexts
    Policy <- MCPolicy
    Paths = {p1, p2}
    MaxRecords = 2
    MaxKills = 1
    MaxLosses = 1
    MaxRestores = 0
CHECK_DEADLOCK FALSE
INVARIANT OpensWithRetained
