SPECIFICATION Spec
CONSTANTS
    default = default
    c1 = c1
    c2 = c2
    q1 = q1
    q2 = q2
    Main = main
    Thread = {main, other}
    Default = default
    Ctrl = {default, c1, c2}
    QryName = {q1, q2}
    NoName = empty
    None = None
    MaxRequests = 3
    MaxExits = 2
    MaxDepth = 2
INVARIANTS
    RealDataNamed
    RegistryMatches
    MessageFourInTime
SYMMETRY Alike
CHECK_DEADLOCK FALSE
