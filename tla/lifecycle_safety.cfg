SPECIFICATION Spec
CONSTANTS
    c1 = c1
    c2 = c2
    e1 = e1
    e2 = e2
    t1 = t1
    t2 = t2
    None = None
    Complaints <- OneComplaint
    Entries <- TwoEntries
    Threads <- TwoThreads
    FirDeadline = 1
    CooldownTime = 1
    MaxTime = 3
    MaxRequests = 4
    MaxFailures = 1
SYMMETRY Symmetry
INVARIANTS
    TypeOK
    ExpiryIsExact
    DecisionMatchesRows
PROPERTIES
    IllegalOnlyWhenStale
    ImplementsPromise
CHECK_DEADLOCK FALSE
