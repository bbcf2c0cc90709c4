\* Two processes that come and go, one may die, one efxInit may be repeated.
SPECIFICATION FairSpec
CONSTANTS
    Process = {p1, p2}
    MaxLoads = 4
    MaxInits = 2
    MaxCrashes = 1
    Null = Null
    Lost = Lost
PROPERTIES
    OvercountHasCause
    OpenFailsOnlyForCause
    RefusalHeals
CHECK_DEADLOCK FALSE
