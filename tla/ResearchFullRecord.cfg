\* An attempt interrupted after the record's last test.
SPECIFICATION Spec
CONSTANTS
    N = 2
    MaxAttempts = 2
    BlockedAfter = 2
    Budget = 4
    MaxLimit = 4
    MaxRuns = 6
    MaxKills = 0
    MaxTerms = 1
    TornWrites = FALSE
PROPERTY
    FullRecordEndsSession
CHECK_DEADLOCK FALSE
