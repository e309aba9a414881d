CONSTANTS
    MaxMessages = 4
    MaxPending = 2
    MaxRuns = 4
SPECIFICATION Spec
INVARIANTS DeliveredOnce ClosedIsEmpty
PROPERTY Heard
CHECK_DEADLOCK FALSE
