CONSTANTS
    Items = {i1}
    TVR_SIZE = 2
    TVN_SIZE = 2
    ID_SPAN = 1
    Interval = 2
    Timeouts <- WheelTimeouts
    InitClocks <- WheelClocks
    ClockSteps <- WheelSteps
    MinClock = 3
    MaxClock = 88
    IdReuse = FALSE
SPECIFICATION Spec
INVARIANTS
    NoItemLeftBehind
    FiresNotEarly
    HandlesReachTheirItems
PROPERTY ImplementsService
