\* Room for 2 records at a time, up to 3 in a load, two loads; any call may fail at either file.
SPECIFICATION Spec
CONSTANTS
    Code = {c1, c2}
    Name = {n1, n2}
    Roe = {r0, r1}
    Zero = r0
    NoNumber = NoNumber
    GrowBy = 2
    MaxRecords = 3
    MaxLoads = 2
    Null = Null
INVARIANTS
    LookupFindsLatest
    DanglesOnlyForCause
    RoeIsNearest
    NumberingAgrees
CHECK_DEADLOCK FALSE
