CONSTANTS
    Submits = {"s1", "s2"}
    Polls = {"p1"}
    Admins = {"a1"}
    MaxRows = 2
    MaxAdmin = 2
    MaxUpsets = 1
SPECIFICATION FairSpec
INVARIANTS OneApplication OneVerdict
PROPERTIES ApplicationIsAnswered
CHECK_DEADLOCK FALSE
