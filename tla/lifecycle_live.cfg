SPECIFICATION FairSpec
CONSTANTS
    c1 = c1
    c2 = c2
    e1 = e1
    e2 = e2
    t1 = t1
    t2 = t2
    None = None
    Complaints <- OneComplaint
    Entries <- OneEntry
    Threads <- TwoThreads
    FirDeadline = 1
    CooldownTime = 1
    MaxTime = 3
    MaxRequests = 3
    MaxFailures = 1
PROPERTIES
    OverdueIsResolved
    AuditedUnlessFailure
CHECK_DEADLOCK FALSE
