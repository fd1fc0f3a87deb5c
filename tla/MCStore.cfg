CONSTANTS
    NULL = NULL
    BACKOFF_BASE = 1
    BACKOFF_CAP = 2
    REAP_THRESHOLD = 0
    Specs <- KeyedSpecs
    Delays = {0}
    WorkerIds = {w1}
    Pids = {p1}
    Slots = 1
    TAG_FILTER_SCAN_LIMIT = 1
    LIST_LIMIT_MAX = 1
    MaxJobs = 2
    MaxAttempts = 2
    MaxLog = 5
    MaxTime = 2
SPECIFICATION StoreSpec
INVARIANTS BudgetInv BackoffInv LogInv CountersMatchLog KeyInv SlotsInv ListHonest
PROPERTIES ClosedAttemptsFrozen DoneIsFinal
CHECK_DEADLOCK FALSE
