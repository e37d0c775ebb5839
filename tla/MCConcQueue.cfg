CONSTANTS
    w1 = w1  w2 = w2  s1 = s1  s2 = s2  g1 = g1  y1 = y1  e1 = e1  e2 = e2
    v1 = v1  v2 = v2  p = p
    Pushers <- MCPushers
    Poppers <- MCPoppers
    Loggers <- MCLoggers
    Tryers  <- MCTryers
    Closers <- MCClosers
    Values  <- MCValues
    Pill = p
    Null = Null
    MaxPush = 3
SPECIFICATION FairSpec
INVARIANTS
    TypeOK
    NoLostWakeup
    NoLostEmptySignal
PROPERTIES
    ImplementsFifo
    ImplementsFairFifo
    CloseCompletes
CHECK_DEADLOCK FALSE
