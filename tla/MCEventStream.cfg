CONSTANTS
    f1 = f1
    p1 = p1
    j1 = j1
    AllJobs = AllJobs
    Jobs = {j1, j2}
    Followers = {f1}
    Pollers = {p1}
    Filter <- SmallFilter
    Limit <- SmallLimit
    LongPoll = {p1}
    MaxEvents <- SmallMaxEvents
    IdleTimeout = {f1}
    MaxId = 3
SPECIFICATION FairStreamSpec
INVARIANTS FollowerMissesNothing PollerMissesOnlyRaced NeverTwice
PROPERTIES InOrder FollowerCatchesUp
CHECK_DEADLOCK FALSE
