\* c1 waits a finite time, c2 for ever; outputs may exceed what the pipe holds.
SPECIFICATION FairSpec
CONSTANTS
    Call = {c1, c2}
    Timed = {c1}
    Endless = {}
    Capacity = 2
    MaxOutput = 3
    BuffLen = 3
    Library = Library
INVARIANTS
    OutputComplete
    LeaksOnlyOnFailure
PROPERTIES
    ReturnsUnlessHeldUp
CHECK_DEADLOCK FALSE
