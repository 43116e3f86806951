CONSTANTS
    Infos = {s1, s2}
    TimerIDs = {t1, t2, t3}
    TOKEN_SPAN = 4
    TokenReuse = FALSE
    MaxCallbacks = 2
    Throwing = TRUE
SPECIFICATION FairSpec
INVARIANTS
    SessionsAgree
PROPERTY SessionsEnd
