SPECIFICATION FairSpec
CONSTANTS
    None = None
    GameModes = {"active"}
    OutCap = 2
    DownGrace = 2
    MaxGap = 2
    MaxFaults = 2
INVARIANTS
    GuardedDesktop
PROPERTIES
    ScreenFollowsAgent
    ProtectionResumes
CHECK_DEADLOCK FALSE
