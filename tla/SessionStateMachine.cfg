SPECIFICATION AgentSpec
CONSTANTS
    Grace = 3
    MaxGap = 2
    Offers = {0, 1, 4}
    QrCodes = {1, 2}
    Horizon = 16
INVARIANTS
    LocksInTheEnd
    TimerIsHonest
PROPERTIES
    PaidTimeIsKept
CHECK_DEADLOCK FALSE
