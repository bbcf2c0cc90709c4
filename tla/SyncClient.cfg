\* Unit 5 ms: REQ_LIMIT_MS = 10 ms, timer interrupts at most 15 ms apart, 5 in 20 ms.
\* Two clients that pace themselves; either may die.
SPECIFICATION ClientSpec
CONSTANTS
    Thread = {t1, t2}
    Opened = {t1, t2}
    Interval = {2}
    Quantum = 3
    EarlyWake = 0
    MaxTime = 12
    Window = 4
    Limit = 5
    Nobody = Nobody
INVARIANTS
    TypeOK
    MutualExclusion
    NoTimeUnderflow
    GrantsPaced
    RequestsPaced
PROPERTIES
    GrantSpacing
    PacesAtomically
SYMMETRY ThreadSymmetry
CHECK_DEADLOCK FALSE
