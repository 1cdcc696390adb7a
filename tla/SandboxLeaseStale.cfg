SPECIFICATION Spec
CONSTANTS
    a = a
    Ids = {a, b}
    Size <- MCSize
    HoldExpires <- MCHoldExpires
    Expires <- MCExpires
    Requests = {r1, r2}
    Budget = 1
    Grace = 1
    MaxTime = 3
    MaxLag = 1
    MaxStops = 0
CHECK_DEADLOCK FALSE
SYMMETRY Symmetry
INVARIANT WithinBudget
