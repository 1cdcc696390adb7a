CONSTANTS
    c1 = c1
    c2 = c2
    c3 = c3
    d1 = d1
    d2 = d2
    f2 = f2
    r3 = r3
    u1 = u1
    Checkpoints <- MCCheckpoints
    Header <- MCHeader
    NoCheckpoint = NoCheckpoint
    Contexts <- MCContexts
    Policy <- MCPolicy
    Paths = {1, 2, 3}
    MaxRecords = 3
    MaxKills = 1
    MaxLosses = 1
    MaxRestores = 1
    e1 = e1
    e2 = e2
    e3 = e3
    b1 = b1
    b2 = b2
    b3 = b3
    h1 = h1
    h2 = h2
    Main = Main
    Endpoints <- ThreeSites
    Blobs <- Files
    BlobsOf <- SiteFiles
    SizeOf <- UnitSize
    MaxBytes = 2
    Slots = 1
    Handlers <- TwoHandlers
    MaxFails = 1
    MaxRestarts = 2
    MaxRot = 1
SPECIFICATION MCSpec
SYMMETRY HandlerSymmetry
CONSTRAINT Scope
INVARIANTS
    PublishedHistory
    OpensWithRecent
    CacheAccounted
    ServedIsReady
PROPERTIES
    RetainedGrows
    RetiredStays
