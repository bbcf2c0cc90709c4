\* Two paced processes and one that never opened the mutex; any may die, Sleep may return early.
SPECIFICATION FairSpec
CONSTANTS
    Thread = {t1, t2, t3}
    Opened = {t1, t2}
    Interval = {0, 2}
    Quantum = 2
    EarlyWake = 1
    MaxTime = 5
    Window = 0
    Limit = 5
    Nobody = Nobody
PROPERTIES
    EveryCallReturns
CHECK_DEADLOCK FALSE
