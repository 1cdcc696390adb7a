CONSTANTS
    w1 = w1
    cc = cc
    None = None
    Plans = {p1}
    Executors = {e1, e2}
    Signers = {s1, s2}
    Views = {v1}
    Vectors = {w1}
    VectorOf <- OneVector
    MaxBlock = 1
    MaxAttempts = 4
    Callers = {ca, cb, cc}
    MaxOpens = 2
    Users = {ua, ub}
    Syncer = ua
    Rpcs = {r1, r2}
    Honest = {r1}
    MaxLag = 1
    MaxOpened = 2
    MaxClosed = 1
    MaxHead = 2
    c1 = c1
    c2 = c2
    c3 = c3
    d1 = d1
    d2 = d2
    f2 = f2
    r3 = r3
    u1 = u1
    Checkpoints <- LiveCheckpoints
    Header <- MCHeader
    NoCheckpoint = NoCheckpoint
    Contexts <- LiveContexts
    Policy <- MCPolicy
    Paths = {o1, o2}
    MaxRecords = 2
    MaxKills = 2
    MaxLosses = 0
    MaxRestores = 0
SPECIFICATION MCSpec
CHECK_DEADLOCK FALSE
INVARIANT LifecyclesSettled
PROPERTIES
    
    
    ClosesReturn
    PublicationCompletes
