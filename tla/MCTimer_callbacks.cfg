CONSTANTS
    Items = {i1, i2, i3}
    TVR_SIZE = 2
    TVN_SIZE = 2
    ID_SPAN = 2
    Interval = 1
    Timeouts <- CallbackTimeouts
    InitClocks <- CallbackClocks
    ClockSteps <- CallbackSteps
    MinClock = 1
    MaxClock = 3
    IdReuse = TRUE
SPECIFICATION FairSpec
INVARIANTS
    EachItemInOnePlace
    MapNamesPendingItems
PROPERTY EveryTimerRings
