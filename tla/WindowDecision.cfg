SPECIFICATION MCSpec
CONSTANTS
    None = None
    Torn = Torn
    Slots = {1, 2}
    Manifests <- MCManifests
    Policy <- MCPolicy
    Height = 5
    Snapshots <- MCSnapshots
    MaxAge = 4
    Skew = 0
    Probes = 1
    EpochTicks = 1
    FireDelay = 0
    Answers <- MCAnswers
    Kinds = {"organic", "both", "static", "handoff"}
    Epochs = {1, 2}
    Dawn = 1
    MaxNow = 3
    MaxRuns = 2
    MaxFaults = 1
    Window = {1, 2}
    CloseDelay = 0
    Validator = "v"
    Views <- MCViews
    Limits <- MCLimits
    MaxWindows = 1
CHECK_DEADLOCK FALSE
INVARIANTS
    EpochsEvidenced
    WeightsEarned
    DecisionStands
PROPERTIES
    AuthorityForward
    ProbeEnds
