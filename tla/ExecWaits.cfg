SPECIFICATION FairSpec
CONSTANTS
    Call = {c1}
    Timed = {c1}
    Endless = {c1}
    Capacity = 2
    MaxOutput = 3
    BuffLen = 3
    Library = Library
PROPERTIES
    FiniteWaitReturns
CHECK_DEADLOCK FALSE
