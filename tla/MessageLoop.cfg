\* A client that calls efxQuit itself or leaves it to a callback and another thread.
SPECIFICATION FairSpec
CONSTANTS
    Requests = 2
    MaxOther = 2
    MayFail = TRUE
    Quitter = {"callback", "thread"}
INVARIANTS
    WaitIsForOwnAnswer
PROPERTIES
    WaitEnds
    QuitEndsLoop
    ClientEnds
CHECK_DEADLOCK FALSE
