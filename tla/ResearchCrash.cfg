\* The same, with silent deaths anywhere and an overridden budget.
SPECIFICATION Spec
CONSTANTS
    N = 2
    MaxAttempts = 2
    BlockedAfter = 2
    Budget = 2
    MaxLimit = 3
    MaxRuns = 5
    MaxKills = 1
    MaxTerms = 1
    TornWrites = TRUE
INVARIANTS
    RecordContiguous
    RegisteredOnFullRecord
    OneOutcomePerRun
    NoRunVanishes
    BlockedOnlyWhenSpent
PROPERTIES
    ImplementsOutcome
CHECK_DEADLOCK FALSE
