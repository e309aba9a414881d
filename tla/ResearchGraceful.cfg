\* Every failure but a silent death: exceptions, SIGTERM, restarts.
SPECIFICATION FairSpec
CONSTANTS
    N = 2
    MaxAttempts = 2
    BlockedAfter = 2
    Budget = 4
    MaxLimit = 4
    MaxRuns = 6
    MaxKills = 0
    MaxTerms = 1
    TornWrites = FALSE
INVARIANTS
    SpendWithinLimit
    EveryDeadRunAudited
    ResumeSeesEveryNode
    
    Resumable
PROPERTIES
    WorkerEnds
CHECK_DEADLOCK FALSE
