CONSTANTS
    a = a
    Ids = {a}
    Size <- MCSize
    HoldExpires <- MCHoldExpires
    Expires <- MCExpires
    Requests = {r1, r2}
    Budget = 1
    Grace = 1
    MaxTime = 3
    MaxLag = 1
    MaxStops = 1
    r1 = r1
    r2 = r2
    e1 = e1
    a1 = a1
    h1 = h1
    h2 = h2
    Main = Main
    Nobody = Nobody
SPECIFICATION MCSpec
CHECK_DEADLOCK FALSE
INVARIANT RuntimeMatches
PROPERTIES
    EndsAreFinal
    CapacityFreed
    Retires
