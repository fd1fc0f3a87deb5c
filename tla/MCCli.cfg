CONSTANTS
    NULL = NULL
    BACKOFF_BASE = 1
    BACKOFF_CAP = 2
    REAP_THRESHOLD = 0
    Procs <- MCProcs
    Databases <- AllDatabases
    MayMisread = {"p1"}
    MayDie = {"p2"}
    Cases <- MCCases
    SQLITE_INT64_MAX = 9
    PRIORITY_MIN <- LowestPriority
    PRIORITY_MAX = 2
    MAX_DURATION_SECONDS = 100000
    MAX_WAIT_SECONDS = 5
    MAX_POLL_INTERVAL_SECONDS = 3
    LIST_LIMIT_MAX = 4
    EVENT_LIMIT_MAX = 4
    STATUS_LIMIT_MAX = 4
    FEEDBACK_TAIL_MAX = 4
    MAX_TAGS = 1
SPECIFICATION CliSpec
INVARIANTS SchemaInv MigrationKeepsTheQueue ErrorContract ReadyIsTrue AcceptedRequestsFit ValidatedConfigResolves
PROPERTIES EveryCommandEnds
CHECK_DEADLOCK FALSE
