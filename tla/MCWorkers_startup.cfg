CONSTANTS
    num = 2
    Kinds = {"processes", "threads"}
    Interval = 10
    IdleTimeouts <- Timeouts
    BasePort = 5000
    MaxHour = 1
    MaxTimers = 1
    MaxFlushTimers = 2
SPECIFICATION FairSpec
CHECK_DEADLOCK FALSE
INVARIANTS
    TimersAreDriven
    WorkersDoNotMeet
PROPERTIES
    LogFollowsTheHour
    LinesReachTheDisk
