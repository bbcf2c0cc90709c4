\* A ring of 3 that is lapped, ids reused freely (id 0 is the one of unused slots).
SPECIFICATION TableSpec
CONSTANTS
    TableSize = 3
    ReqId = {i0, i1}
    NoId = i0
    Text = {a, b}
    Heap = {a, b}
    MaxPos = 6
INVARIANTS
    TableTypeOK
    RingHoldsWindow
    GetItemFindsLatest
CHECK_DEADLOCK FALSE
