SPECIFICATION Spec
CONSTANTS
    Procs = {p1, p2}
    Ops <- MCOps
    p1 = p1
    p2 = p2
    Users = {u1}
    Seats = {s1}
    Durations = {2}
    Additions = {1}
    Price <- MCPrice
    Adjustments <- MCAdjustments
    Credit = 3
    DoorEarly = 1
    NoShowGrace = 1
    PendingTtl = 1
    MaxAhead = 2
    MaxBookings = 1
    MaxNow = 2
    MaxEnd = 4
    MaxBalance = 3
INVARIANTS
    IInv
    ConfirmedIsCharged
CHECK_DEADLOCK FALSE
