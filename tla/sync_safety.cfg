SPECIFICATION SyncSpec
CONSTANTS
    r1 = r1
    r2 = r2
    Rows <- TwoRows
    PlateOf <- OnePlateEach
    Syncs <- OneSync
    Registrations <- OneRegistration
    SendsToken = TRUE
    MaxLag = 1
    MaxTime = 3
    MaxDevices = 2
    MaxRestarts = 1
CONSTRAINT SecondDeviceBound
VIEW ApartFromDeviceToken
SYMMETRY RowSymmetry
INVARIANTS
    ListExactAsRead
    RevokedGetsNothing
    NothingNewIsDropped
    SecretsAgree
CHECK_DEADLOCK FALSE
