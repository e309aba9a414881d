CONSTANTS
    k1 = k1
    k2 = k2
    k3 = k3
    a = a
    b = b
    Keys <- MCKeys
    Values <- MCValues
    Answers <- MCAnswers
    Experiments = {e1}
    NoOne = NoOne
    MaxClock = 4
    MaxGen = 4
    MaxJobs = 3
    MaxKills = 1
SPECIFICATION Spec
ACTION_CONSTRAINT PinsBetweenCommits
INVARIANTS NothingLost FirstSeenTrue PinnedReleaseKept
PROPERTY ReleaseIsCommitted
CHECK_DEADLOCK FALSE
