CONSTANTS
    Workers = {w1, w2}
    Clients = {c1, c2}
    CacheSize = 2
    Senders = {c1, c2}
    MaxBytes = 3
    Throwing = TRUE
    Faults = TRUE
SPECIFICATION Spec
SYMMETRY ServerSymmetry
INVARIANTS
    CacheIsTheStream
    EventsAreLive
