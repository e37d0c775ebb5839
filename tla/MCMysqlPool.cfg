CONSTANTS
    t1 = t1  t2 = t2  t3 = t3  c1 = c1  c2 = c2  c3 = c3  c4 = c4
    Threads <- MCThreads
    Conns <- MCConns
    MaxSize = 3
    None = None
SYMMETRY Symmetric
SPECIFICATION Spec
INVARIANTS
    TypeOK
    CountIsExact
    WithinMaxSize
    RefusedOnlyAfterLeak
PROPERTIES
    ImplementsLending
CHECK_DEADLOCK FALSE
