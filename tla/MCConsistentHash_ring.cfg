CONSTANTS
    Keys = {1, 2, 3}
    Hashes = {0, 1, 2, 3, 4, 5, 6, 7, 8, 9, 10, 11, 12, 13, 14}
    VirtualSize = 2
    MaxQuotas = 2
    Chain <- Chains
    MaxInserts = 4
SPECIFICATION RingSpec
INVARIANT NoDanglingPoints
PROPERTY LookupsStay
