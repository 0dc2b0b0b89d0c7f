SPECIFICATION FairSpec
CONSTANTS
    Users = {u1}
    Seats = {s1}
    Durations = {2}
    Additions = {1}
    Price <- MCPrice
    TopUps = {3}
    Adjustments <- MCAdjustments
    AdminFlags = {"repair", "free"}
    DoorEarly = 1
    NoShowGrace = 1
    PendingTtl = 1
    MaxAhead = 2
    DoorCooldown = 0
    MaxBookings = 2
    MaxNow = 4
    MaxEnd = 5
    MaxBalance = 3
INVARIANTS
    BalanceIsLedger
    PlayTimeIsPaid
    OverlapOnlyByExtension
PROPERTIES
    PendingIsResolved
    SlotIsGivenBack
    KeepsLifecycle
CHECK_DEADLOCK FALSE
