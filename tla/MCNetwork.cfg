CONSTANTS
    c1 = c1  c2 = c2  c3 = c3
    Clients <- MCClients
    Listener = Listener  Junk = Junk
    ObjLen = 2
    BufLen = 5
    MaxFds = 2
    MaxEvents = 2
    MaxWrites = 2
    MaxShorts = 1
CHECK_DEADLOCK FALSE
SPECIFICATION FairSpec
INVARIANTS
    TypeOK
    EventsAreServable
    NeverAgain
    CompleteUnlessCut
PROPERTIES
    EverybodyIsServed
