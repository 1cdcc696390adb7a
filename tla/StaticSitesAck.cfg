CONSTANTS
    e1 = e1
    e2 = e2
    e3 = e3
    b1 = b1
    b2 = b2
    b3 = b3
    h1 = h1
    h2 = h2
    Main = Main
    Endpoints <- OneSite
    Blobs <- Files
    BlobsOf <- SiteFiles
    SizeOf <- UnitSize
    MaxBytes = 2
    Slots = 1
    Handlers <- TwoHandlers
    MaxFails = 0
    MaxRestarts = 0
    MaxRot = 0
SPECIFICATION Spec
SYMMETRY HandlerSymmetry
PROPERTIES AckedInactive
