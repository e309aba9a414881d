\* One session of two attempts with two sub-agents.
SPECIFICATION Spec
CONSTANTS
    Children = {c1, c2}
    MaxCalls = 5
    SubagentCap = 2
    ParentReserve = 1
    MaxSpend = 2
    Duration = 2
    Grace = 1
    Teardown = 1
    MaxPaused = 1
    MaxAttempts = 2
INVARIANTS
    ClockExact
    ReserveKept
    SpendBounded
PROPERTY
    SessionEnds
CHECK_DEADLOCK FALSE
