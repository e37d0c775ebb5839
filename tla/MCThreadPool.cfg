CONSTANTS
    w1 = w1  w2 = w2  w3 = w3  s1 = s1  s2 = s2
    j1 = j1  j2 = j2  j3 = j3  j4 = j4
    Workers <- MCWorkers
    Submitters <- MCSubmitters
    Jobs <- MCJobs
    Forever <- OneForever
    None = None
CHECK_DEADLOCK FALSE
SPECIFICATION FairSpec
INVARIANTS
    TypeOK
    NoIdleBacklog
    DrainsBeforeExit
PROPERTIES
    ImplementsExecutor
    AcceptedJobsStart
    DestructorReturns
