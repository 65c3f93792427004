SPECIFICATION Spec
CONSTANTS
    s1 = s1
    s2 = s2
    s3 = s3
    n1 = n1
    None = None
    Sockets <- ThreeSockets
    Events <- OneEvent
    MaxCuts = 1
    MaxLogins = 2
    MaxRefreshes = 1
SYMMETRY Symmetry
INVARIANTS
    TypeOK
    SentOnce
    MissedOnlyWhenSomeoneLeft
    ListMatchesSockets
    StrandedOnlyByRefresh
CHECK_DEADLOCK FALSE
