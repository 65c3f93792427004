SPECIFICATION Spec
CONSTANTS
    r1 = r1
    Rows <- OneRow
    PlateOf <- OnePlate
    Syncs <- OneSync
    Registrations <- OneRegistration
    SendsToken = TRUE
    MaxLag = 0
    MaxTime = 2
    MaxDevices = 1
    MaxRestarts = 1
    Letters <- MCLetters
    Digits <- MCDigits
    OtherLetters <- MCOtherLetters
    OtherDigits <- MCOtherDigits
    DigitCorrections <- MCDigitCorrections
    AlphaCorrections <- MCAlphaCorrections
    Views <- SomeViews
    TEMPORAL_WINDOW_SIZE = 2
    TEMPORAL_VOTE_THRESHOLD = 2
    ResendInterval = 1
    MaxFrames = 2
    MaxFrameErrors = 1
CONSTRAINT FailedFrameBound
INVARIANTS
    TypeOK
    CopyIsTheList
    OnlyListedIsSent
    MatchIsQueued
    PlateStaysTheSame
CHECK_DEADLOCK FALSE
