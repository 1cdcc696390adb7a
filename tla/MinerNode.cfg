CONSTANTS
    a = a
    Ids = {a, b}
    Size <- MCSize
    HoldExpires <- MCHoldExpires
    Expires <- MCExpires
    Requests = {r1, r2}
    Budget = 1
    Grace = 1
    MaxTime = 3
    MaxLag = 0
    MaxStops = 1
    va = va
    vb = vb
    Validators = {va, vb}
    Stake <- MCStake
    Inbound = {1, 2, 3}
    Documents <- MCDocuments
    Views <- MCViews
    NoView = NoView
    Capacity = 1
    OpsCapacity = 1
    CancelHeadroom = 1
    Retries = 1
    Limit <- MCLimit
    Span <- MCSpan
    MaxIngressTime = 2
SPECIFICATION MCSpec
SYMMETRY Symmetry
CONSTRAINT Scope
CHECK_DEADLOCK FALSE
INVARIANTS
    WithinBudget
    GateWorks
    RateHeld
    BoundToThisMiner
