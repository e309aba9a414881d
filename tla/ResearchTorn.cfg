\* A run terminated between the writes of one Validation.
SPECIFICATION Spec
CONSTANTS
    N = 2
    MaxAttempts = 2
    BlockedAfter = 2
    Budget = 3
    MaxLimit = 3
    MaxRuns = 6
    MaxKills = 0
    MaxTerms = 1
    TornWrites = TRUE
INVARIANT
    Resumable
CHECK_DEADLOCK FALSE
