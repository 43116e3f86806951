CONSTANTS
    TimerIDs = {t1, t2}
    NoTimer = none
    ProgramCalls <- CallsThatWork
SPECIFICATION FairSpec
INVARIANTS
    TimerIsTheAttempts
    WatchedForWhatIsDue
    CacheIsThisConnections
PROPERTY ProgramIsTold
