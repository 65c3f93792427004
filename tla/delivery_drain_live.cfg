SPECIFICATION FairDelivery
CONSTANTS
    d1 = d1
    d2 = d2
    p1 = p1
    e1 = e1
    None = None
    Devices <- OneSimulator
    Phones <- Nobody
    Simulators <- OneSimulator
    Plates <- OnePlate
    Entries <- OneEntry
    PlateOf <- SamePlate
    Tolerance = 2
    ThrottleTtl = 2
    Window = 2
    MaxBatch = 1
    MaxEvents = 4
    MaxTime = 3
    MaxFailures = 1
    MaxHits = 2
    MaxProblems = 1
PROPERTY
    SimulatorDrains
CHECK_DEADLOCK FALSE
