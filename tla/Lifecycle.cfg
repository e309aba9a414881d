\* Two experiments compete for one slot under a sequence of requests and a kill.
SPECIFICATION FairSpec
CONSTANTS
    Experiments = {e1, e2}
    Slots = 1
    MaxProcs = 3
    MaxAsks = 3
    MaxKills = 1
INVARIANTS
    OneWorker
    WithinSlots
    RestartKeepsSlot
    LiveIsSeen
    NoGhostSession
PROPERTIES
    RestartOfItsOwn
    ComesToRest
CHECK_DEADLOCK FALSE
