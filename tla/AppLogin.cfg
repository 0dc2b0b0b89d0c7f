SPECIFICATION FairSpec
CONSTANTS
    None = None
    Phones = {p}
    MaxCalls = 1
    MaxChecks = 2
    MaxActs = 1
    MaxFaults = 1
INVARIANTS
    SignedOutStaysOut
    OneAccount
PROPERTIES
    AppComesToAgree
    LoginCompletes
CHECK_DEADLOCK FALSE
