SPECIFICATION SyncSpec
CONSTANTS
    r1 = r1
    r2 = r2
    Rows <- TwoRows
    PlateOf <- OnePlateEach
    Syncs <- OneSync
    Registrations <- OneRegistration
    SendsToken = FALSE
    MaxLag = 0
    MaxTime = 2
    MaxDevices = 2
    MaxRestarts = 1
INVARIANT RefusedOnlyWhenRevoked
CHECK_DEADLOCK FALSE
