CONSTANTS
    w1 = w1  w2 = w2  ann = ann  bob = bob  p1 = p1  p2 = p2
    Conns <- MCConns
    Workers <- TwoWorkers
    Names <- MCNames
    Pwds <- OnePwd
    InitUsers <- MCInitUsers
    Text = Text  None = None  Ok = Ok  Err = Err  Lost = Lost
    MaxUsers = 3
    MaxReqs = 2
    MaxRestarts = 0
    DbFaults = FALSE
    RedisFaults = FALSE
CHECK_DEADLOCK FALSE
SPECIFICATION Spec
INVARIANTS
    LoginIsRecorded
