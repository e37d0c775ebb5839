CONSTANTS
    t1 = t1  t2 = t2  t3 = t3  c1 = c1  c2 = c2  c3 = c3  c4 = c4
    Threads <- MCThreads
    Contexts <- MCContexts
    Interval = 2
    None = None
    MaxTime = 4
SYMMETRY Symmetric
SPECIFICATION Spec
INVARIANTS
    TypeOK
    NoMoreThanThreads
    NoEarlyRetry
PROPERTIES
    ImplementsLending
