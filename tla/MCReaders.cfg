CONSTANTS
    NULL = NULL
    BACKOFF_BASE = 1
    BACKOFF_CAP = 1
    REAP_THRESHOLD = 0
    Specs <- OneSpec
    Delays = {0}
    WorkerIds = {r1, r2}
    Pids = {r1, r2}
    Runners = {r1, r2}
    Groups <- DeafGroups
    Budgets <- OneOfEach
    Blobs <- ShortBlobs
    MaxTail = 4
    TAG_FILTER_SCAN_LIMIT = 1
    LIST_LIMIT_MAX = 1
    Slots = NULL
    MaxJobs = 1
    MaxAttempts = 2
    MaxLog = 4
    MaxTime = 1
SPECIFICATION ReadersSpec
INVARIANTS OutputInv RaisesOnlyWhenOverruled SurvivorsIgnoreTerm AnswersFit TailKeepsOutput
PROPERTIES OnlyMatchesLoseFiles EveryRunEnds WaitEnds
CHECK_DEADLOCK FALSE
