SPECIFICATION Spec
CONSTANTS
    c1 = c1
    s1 = s1
    s2 = s2
    Complaints <- OneComplaint
    Sightings <- TwoSightings
    REJECTED_COMPLAINT_RETENTION_DAYS = 1
    EXPIRED_HOTLIST_RETENTION_DAYS = 2
    SIGHTING_RETENTION_DAYS = 1
    AUDIT_LOG_RETENTION_DAYS = 3
    COOLDOWN_DAYS = 1
    Tolerance = 1
    MaxDay = 5
    MaxFailures = 1
VIEW WhatMatters
SYMMETRY SightingSymmetry
INVARIANTS
    TypeOK
    NothingOverdueAfterPurge
    PhotosFollowRows
    BlockedOnlyAfterAGap
CHECK_DEADLOCK FALSE
