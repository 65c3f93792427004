SPECIFICATION DeliverySpec
CONSTANTS
    d1 = d1
    d2 = d2
    p1 = p1
    e1 = e1
    None = None
    Devices <- OneSimulator
    Phones <- Nobody
    Simulators <- OneSimulator
    Plates <- OnePlate
    Entries <- OneEntry
    PlateOf <- SamePlate
    Tolerance = 2
    ThrottleTtl = 2
    Window = 2
    MaxBatch = 1
    MaxEvents = 6
    MaxTime = 4
    MaxFailures = 1
    MaxHits = 1
    MaxProblems = 0
INVARIANT
    NoLoss
CHECK_DEADLOCK FALSE
