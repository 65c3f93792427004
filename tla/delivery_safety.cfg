SPECIFICATION DeliverySpec
CONSTANTS
    d1 = d1
    d2 = d2
    p1 = p1
    e1 = e1
    None = None
    Devices <- Both
    Phones <- OnePhone
    Simulators <- OneSimulator
    Plates <- OnePlate
    Entries <- OneEntry
    PlateOf <- SamePlate
    Tolerance = 2
    ThrottleTtl = 2
    Window = 2
    MaxBatch = 1
    MaxEvents = 6
    MaxTime = 3
    MaxFailures = 0
    MaxHits = 2
    MaxProblems = 1
INVARIANTS
    DeliveryTypeOK
    LeftOverOnlyByFailure
    NoLoss
PROPERTY
    KeepsPromise
CHECK_DEADLOCK FALSE
