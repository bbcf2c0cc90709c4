SPECIFICATION Spec
CONSTANTS
    TableSize = 2
    i1 = i1
    i2 = i2
    NoId = i0
    ReqId = {i0, i1, i2}
    a = a
    b = b
    Empty = e
    None = None
    Text = {a, b, e}
    Heap = {e}
    MaxPos = 3
    t1 = t1
    t2 = t2
    c1 = c1
    c2 = c2
    Thread = {t1, t2}
    Ctrl = {c1, c2}
    Programs <- AllPrograms
    Listening = {c1, c2}
INVARIANTS
    RecordedAnswerIsOwn
    SerialAnswerIsOwn
    SerialAnswerIsLatest
PROPERTIES
    SetItemLinearizes
SYMMETRY FullSymmetry
CHECK_DEADLOCK FALSE
