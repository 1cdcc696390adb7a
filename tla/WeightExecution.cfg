CONSTANTS
    e1 = e1
    e2 = e2
    s1 = s1
    s2 = s2
    v1 = v1
    v2 = v2
    v3 = v3
    w1 = w1
    w2 = w2
    m1 = m1
    None = None
    Plans = {p1}
    Executors = {e1, e2}
    Signers = {s1, s2}
    Views = {v1, v2, v3}
    Vectors = {w1, w2}
    VectorOf <- MCVectorOf
    MaxBlock = 2
    MaxAttempts = 3
    Miners = {m1}
    Versions = {v1, v2}
    Window <- MCWindow
    MaxLaneBlock = 3
    MaxHistory = 1
    MaxLaneCrashes = 1
    MaxGoStarts = 1
    LatePosts = FALSE
    NoLane = NoLane
SPECIFICATION MCSpec
CONSTRAINT Scope
SYMMETRY Symmetry
INVARIANTS
    AtMostOneSubmission
    SubmittedAsAgreed
    ReportsTrue
    RetriesSafe
    TicketsHonoured
    AuthorityFromGo
    
CHECK_DEADLOCK FALSE
