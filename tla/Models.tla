------------------------------- MODULE Models -------------------------------
(***************************************************************************)
(* The vocabulary of spoolctl/models.py: job and attempt states, failure   *)
(* reasons, event types, and the retry backoff.  Time is counted in whole  *)
(* units of a clock; the tunables are parameters so that a model can       *)
(* shrink them.                                                            *)
(***************************************************************************)
EXTENDS Integers

CONSTANTS
    BACKOFF_BASE,       \* delay after the first failed execution
    BACKOFF_CAP,        \* longest delay between two executions
    REAP_THRESHOLD,     \* age of a heartbeat that nominates its job
    NULL                \* SQL NULL

ASSUME TunablesAssumption ==
    /\ BACKOFF_BASE \in Nat \ {0}
    /\ BACKOFF_CAP \in Nat \ {0}
    /\ REAP_THRESHOLD \in Nat

\* The states a row of jobs can hold; "failed" is in the schema's CHECK but
\* no statement writes it.
JobStates == {"queued", "running", "done", "dead", "canceled"}
ActiveStates == {"queued", "running"}
PrunableStates == {"canceled", "dead", "done"}

AttemptStates ==
    {"running", "succeeded", "failed", "timed_out", "abandoned", "canceled"}

FailureReasons ==
    {"process_exit", "timeout", "spawn_failed", "worker_crash", "canceled"}

\* NULL is no number and no text.
ASSUME NullAssumption == NULL \notin Int /\ NULL \notin AttemptStates \cup FailureReasons

JobEventTypes ==
    {"added", "claimed", "succeeded", "failed", "timed_out", "reaped",
     "dead", "retried", "canceled"}

\* Delay before the next run after n failed executions, n >= 1.
backoff_seconds(n) ==
    LET b == BACKOFF_BASE * 2 ^ (n - 1)
    IN  IF b < BACKOFF_CAP THEN b ELSE BACKOFF_CAP
=============================================================================
