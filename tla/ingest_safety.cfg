SPECIFICATION Spec
CONSTANTS
    d1 = d1
    d2 = d2
    p1 = p1
    e1 = e1
    e2 = e2
    None = None
    Devices <- TwoDevices
    Plates <- OnePlate
    Entries <- TwoEntries
    PlateOf <- SamePlate
    Tolerance = 2
    ThrottleTtl = 2
    Window = 2
    MaxBatch = 2
    MaxEvents = 3
    MaxTime = 4
    MaxFailures = 1
SYMMETRY Symmetry
INVARIANTS
    TypeOK
    ThrottleHolds
    ClustersAreChains
    ExactInOrder
    PhotosAccountedFor
    NoTraceOfOthers
    PushedUnlessFailure
CHECK_DEADLOCK FALSE
