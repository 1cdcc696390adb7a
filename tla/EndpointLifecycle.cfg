CONSTANTS
    e1 = e1
    e2 = e2
    a1 = a1
    h1 = h1
    h2 = h2
    Main = Main
    Nobody = Nobody
    Requests <- All
    Endpoints <- TwoEndpoints
    Artifacts <- OneArtifact
    ArtifactOf <- SameArtifact
    Handlers <- TwoHandlers
    MaxFails = 1
    MaxRestarts = 1
    MaxExits = 1
SPECIFICATION Spec
SYMMETRY Symmetry
CONSTRAINT Scope
INVARIANTS Recoverable LaunchExclusive RouteAgrees
PROPERTIES RetirementFinal
