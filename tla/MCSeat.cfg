SPECIFICATION FairSpec
CONSTANTS
    Bookings = {b1, b2}
    Plans <- MCPlans
    QrCodes = {1, 2}
    DoorEarly = 1
    NoShowGrace = 2
    PendingTtl = 1
    MaxAhead = 7
    Grace = 1
    ChallengeTtl = 2
    Addition = 1
    MaxLength = 2
    MaxNow = 7
    MaxGap = 1
    MaxFaults = 1
    b1 = b1
    b2 = b2
INVARIANTS
    NoFreePlay
    OneSeated
CHECK_DEADLOCK FALSE
PROPERTIES
    NoEviction
    ScannedSeatOpens
    EndedSeatLocks
