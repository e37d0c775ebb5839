CONSTANTS
    w1 = w1  w2 = w2  ann = ann  bob = bob  p1 = p1  p2 = p2
    Conns <- MCConns
    Workers <- OneWorker
    Names <- MCNames
    Pwds <- TwoPwds
    InitUsers <- MCInitUsers
    Text = Text  None = None  Ok = Ok  Err = Err  Lost = Lost
    MaxUsers = 2
    MaxReqs = 2
    MaxRestarts = 1
    DbFaults = TRUE
    RedisFaults = TRUE
CHECK_DEADLOCK FALSE
SPECIFICATION Spec
INVARIANTS
    TypeOK
    SessionSound
    RoutedToReceiver
    UniqueNames
    RegisteredIdIsOwn
