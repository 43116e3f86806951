CONSTANTS
    Addresses = {a1, a2}
    Conns = {c1, c2}
    TimerIDs = {t1, t2, t3}
    MaxConnections = {1, 2}
    IdleTimeouts = {0, 5}
SPECIFICATION FairSpec
INVARIANTS
    CountIsLive
    IdleListsSound
    TimersBelongToIdle
    OneUserEach
PROPERTIES
    IdleEndsEventually
