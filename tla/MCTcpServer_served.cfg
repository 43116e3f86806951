CONSTANTS
    Workers = {w1, w2}
    Clients = {c1, c2}
    CacheSize = 1
    Senders = {c1}
    MaxBytes = 2
    Throwing = TRUE
    Faults = TRUE
SPECIFICATION FairSpec
PROPERTIES
    EveryClientIsAccepted
    EveryByteIsReceived
    DeadPeersAreClosed
    LoopCallbacksRun
