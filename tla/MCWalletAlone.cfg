SPECIFICATION Spec
CONSTANTS
    Payments = {p1, p2}
    Requests = {q1}
    Amount <- MCAmount
    MaxPolls = 2
    MaxCrashes = 2
PROPERTIES
    KeepsPromise
CHECK_DEADLOCK FALSE
