CONSTANTS
    BYTE = 3
    SIZE_SPAN = 64
    Payloads <- SomePayloads
    NUMBER_BYTES = 1
    OutSize = 13
    CacheSize = 6
    ShortSends = TRUE
    HandlerLoops = TRUE
    MaxPosts = 4
SPECIFICATION FairPackagesSpec
INVARIANTS
    PackagesArriveWhole
PROPERTY EveryPackageArrives
CHECK_DEADLOCK FALSE
