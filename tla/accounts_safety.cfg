SPECIFICATION Spec
CONSTANTS
    u1 = u1
    u2 = u2
    phone = phone
    None = None
    Users <- TwoUsers
    Addresses <- OnePhone
    Phone = phone
    Calls <- TwoCalls
    RATE_LIMIT_USER_MAX = 1
    RATE_LIMIT_IP_MAX = 1
    Day = 2
    MaxTime = 3
    AccessTtl = 1
    RefreshTtl = 2
    MaxLogins = 2
    MaxRestarts = 2
    MaxErrors = 1
SYMMETRY UserSymmetry
INVARIANTS
    OneUserPerSession
    StrandedOnlyByFailure
    AtMostTwiceADay
CHECK_DEADLOCK FALSE
