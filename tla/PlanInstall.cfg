CONSTANTS
    PlanFiles = {f1, f2}
    Writers = {t1, t2}
    MaxCalls = 2
    MaxFaults = 2
    MaxForeign = 1
    MaxCrashes = 1
    Absent = Absent
    None = None
    Refused = Refused
    e1 = e1
    e2 = e2
    e3 = e3
    Dotted = {"index.html", "0f.absent"}
    Ceiling = 2
    MaxSiteBytes = 8
    ReleaseKeys <- MCKeys
    ServerPin = "v1"
    Targets <- MCTargets
    MinerOf <- MCMinerOf
    Documents <- MCDocuments
    Plans <- MCPlans
    MinAttempts = 1
    Wrong <- MCWrong
SPECIFICATION MCSpec
CONSTRAINT Scope
INVARIANTS
    EvidenceScorable
    ActionsJust
    
PROPERTIES
    NothingDestroyed
    LoadedIsTarget
    
CHECK_DEADLOCK FALSE
