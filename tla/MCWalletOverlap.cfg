SPECIFICATION FairSpec
CONSTANTS
    Payments = {p1}
    Requests = {q1, q2, q3}
    Amount <- MCAmount
    MaxPolls = 3
    MaxCrashes = 2
INVARIANTS
    CreditIsPaid
PROPERTIES
    SettledIsFinal
    PaidIsCreditedOrLost
CHECK_DEADLOCK FALSE
