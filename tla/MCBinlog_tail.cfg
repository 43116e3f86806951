CONSTANTS
    BlockSize = 12
    DataOffset = 3
    BLOCKHEAD_SIZE = 2
    LOG_OVERHEAD = 3
    OFFSET_SPAN = 1000
    Sizes <- AllSizes
    Openings = {"CreateLog", "OpenLog"}
    Faults = {"fail", "short"}
    MaxWrites = 5
    MaxTornWrites = 2
    MaxBlocks = 6
SPECIFICATION PollingSpec
INVARIANTS
    HeadsStartBlocks
    ReadInOrder
    NothingSkipped
PROPERTIES
    EndOfFileMeansAllReadBeforeOverrun
    EverythingIsRead
