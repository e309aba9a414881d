\* A run killed outright after it recorded a test.
SPECIFICATION Spec
CONSTANTS
    N = 2
    MaxAttempts = 2
    BlockedAfter = 2
    Budget = 3
    MaxLimit = 3
    MaxRuns = 6
    MaxKills = 1
    MaxTerms = 0
    TornWrites = FALSE
INVARIANT
    EveryDeadRunAudited
CHECK_DEADLOCK FALSE
