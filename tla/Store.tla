------------------------------- MODULE Store --------------------------------
(***************************************************************************)
(* The queue database of spoolctl/store.py.  Every action is one           *)
(* transaction (BEGIN IMMEDIATE ... COMMIT), or one autocommitted UPDATE,  *)
(* and SQLite serialises them; a transaction that ends in ROLLBACK changes *)
(* nothing and is not an action.  Parameters are the arguments the callers *)
(* pass: this module lets any caller pass anything, Worker restricts them  *)
(* to what the worker processes really do.                                 *)
(*                                                                         *)
(* A row is a record.  Columns that no statement ever updates are the      *)
(* field spec; locked_at is NULL exactly when heartbeat_at is and is left  *)
(* out, and so are started_at, the exit code and the error text.           *)
(* The attempts and job_events tables are kept per job, in the order of    *)
(* attempt_no and of the event id.                                         *)
(***************************************************************************)
EXTENDS Models, Sequences, FiniteSets, FiniteSetsExt

CONSTANTS
    Specs,          \* what a client may submit (see SpecsAssumption)
    Delays,         \* --after, in clock units
    WorkerIds,      \* values of locked_by
    Pids,           \* values of locked_pid
    Slots,          \* --slots of every worker, or NULL
    MaxJobs,        \* bound: rows ever inserted into jobs
    MaxAttempts,    \* bound: attempts of one job
    MaxLog,         \* bound: cancel and retry leave a job with a longer log alone
    MaxTime         \* bound: the clock stops here

ASSUME SpecsAssumption ==
    \A s \in Specs :
        /\ DOMAIN s = {"argv", "key", "queue", "priority", "max_retries", "max_crashes"}
        /\ s.priority \in Int
        /\ s.max_retries \in Nat
        /\ s.max_crashes \in Nat \cup {NULL}

ASSUME CallersAssumption ==
    /\ Delays \subseteq Nat
    /\ NULL \notin WorkerIds
    /\ NULL \notin Pids
    /\ Slots \in (Nat \ {0}) \cup {NULL}

ASSUME BoundsAssumption ==
    {MaxJobs, MaxAttempts, MaxLog, MaxTime} \subseteq Nat

VARIABLES
    clock,      \* time.time()
    lastId,     \* sqlite_sequence of jobs: AUTOINCREMENT never reuses an id
    jobs,       \* job id -> row of jobs
    attempts,   \* job id -> attempt_no -> row of attempts
    log         \* job id -> its events, in the order of job_events.id

storeVars == <<clock, lastId, jobs, attempts, log>>

-----------------------------------------------------------------------------
(* Rows                                                                    *)

Time == Int

JobRow ==
    [spec : Specs,
     state : JobStates,
     attempts : Nat,
     crashes : Nat,
     next_run_at : Time,
     locked_by : WorkerIds \cup {NULL},
     locked_pid : Pids \cup {NULL},
     heartbeat_at : Time \cup {NULL},
     finished_at : Time \cup {NULL}]

AttemptRow ==
    [worker_id : WorkerIds,
     worker_pid : Pids,
     state : AttemptStates,
     failure_reason : FailureReasons \cup {NULL}]

JobIds == DOMAIN jobs

\* The columns every statement that ends a claim clears.
Unlocked(row) ==
    [row EXCEPT !.locked_by = NULL, !.locked_pid = NULL, !.heartbeat_at = NULL]

\* Mutant: the attempts of the job are left open.
CloseRunning_None(j, state, reason) == attempts[j]

\* UPDATE attempts SET state, failure_reason WHERE job_id = j AND state = 'running'
CloseRunning(j, state, reason) ==
    [n \in DOMAIN attempts[j] |->
        IF attempts[j][n].state = "running"
        THEN [attempts[j][n] EXCEPT !.state = state, !.failure_reason = reason]
        ELSE attempts[j][n]]

\* UPDATE attempts SET state, failure_reason WHERE id = n AND state = 'running'
CloseOne(j, no, state, reason) ==
    [n \in DOMAIN attempts[j] |->
        IF n = no /\ attempts[j][n].state = "running"
        THEN [attempts[j][n] EXCEPT !.state = state, !.failure_reason = reason]
        ELSE attempts[j][n]]

-----------------------------------------------------------------------------
(* Clients: add, cancel, retry, prune                                      *)

\* Mutant: a running job no longer holds its key.
KeyHolders_QueuedOnly(s) ==
    {j \in JobIds : jobs[j].spec.key = s.key /\ jobs[j].state = "queued"}

\* Active jobs that hold the idempotency key of s.
KeyHolders(s) ==
    {j \in JobIds : jobs[j].spec.key = s.key /\ jobs[j].state \in ActiveStates}

\* What add answers: the payload of the oldest holder decides between a
\* deduplicated submission and a conflict; both leave the database alone.
AddOutcome(s) ==
    IF s.key = NULL \/ KeyHolders(s) = {} THEN "created"
    ELSE IF jobs[Min(KeyHolders(s))].spec = s THEN "deduped"
    ELSE "conflict"

add_job_checked(s, delay, t) ==
    /\ lastId < MaxJobs
    /\ AddOutcome(s) = "created"
    /\ lastId' = lastId + 1
    /\ jobs' = [j \in JobIds \cup {lastId + 1} |->
                  IF j = lastId + 1
                  THEN [spec |-> s, state |-> "queued", attempts |-> 0,
                        crashes |-> 0, next_run_at |-> t + delay,
                        locked_by |-> NULL, locked_pid |-> NULL,
                        heartbeat_at |-> NULL, finished_at |-> NULL]
                  ELSE jobs[j]]
    /\ attempts' = [j \in JobIds \cup {lastId + 1} |->
                      IF j = lastId + 1 THEN <<>> ELSE attempts[j]]
    /\ log' = [j \in JobIds \cup {lastId + 1} |->
                 IF j = lastId + 1 THEN <<"added">> ELSE log[j]]
    /\ UNCHANGED clock

cancel_job(j, allow_running, t) ==
    /\ j \in JobIds
    /\ Len(log[j]) < MaxLog
    /\ \/ /\ jobs[j].state = "queued"
          /\ jobs' = [jobs EXCEPT ![j].state = "canceled", ![j].finished_at = t]
          /\ UNCHANGED attempts
       \/ /\ jobs[j].state = "running"
          /\ allow_running
          /\ jobs' = [jobs EXCEPT ![j] =
                        [Unlocked(@) EXCEPT !.state = "canceled", !.finished_at = t]]
          /\ attempts' = [attempts EXCEPT ![j] =
                            CloseRunning(j, "canceled", "canceled")]
    /\ log' = [log EXCEPT ![j] = Append(@, "canceled")]
    /\ UNCHANGED <<clock, lastId>>

\* Mutants: a manual retry forgets one of the two counters.
FreshBudget_KeepsAttempts(row, t) ==
    [Unlocked(row) EXCEPT !.state = "queued", !.crashes = 0,
                          !.next_run_at = t, !.finished_at = NULL]

FreshBudget_KeepsCrashes(row, t) ==
    [Unlocked(row) EXCEPT !.state = "queued", !.attempts = 0,
                          !.next_run_at = t, !.finished_at = NULL]

\* The row a manual retry puts back into the queue.
FreshBudget(row, t) ==
    [Unlocked(row) EXCEPT !.state = "queued", !.attempts = 0, !.crashes = 0,
                          !.next_run_at = t, !.finished_at = NULL]

\* Mutant: a finished job may be retried.
Retryable_Done(j, force) ==
    IF force THEN jobs[j].state = "running"
             ELSE jobs[j].state \notin ActiveStates

\* A forced retry demands a running job, an unforced one refuses it.
Retryable(j, force) ==
    IF force THEN jobs[j].state = "running"
             ELSE jobs[j].state \notin ActiveStates \cup {"done"}

retry_job(j, force, t) ==
    /\ j \in JobIds
    /\ Len(log[j]) < MaxLog
    /\ Retryable(j, force)
    /\ attempts' = IF force
                   THEN [attempts EXCEPT ![j] =
                           CloseRunning(j, "abandoned", "canceled")]
                   ELSE attempts
    /\ jobs' = [jobs EXCEPT ![j] = FreshBudget(@, t)]
    /\ log' = [log EXCEPT ![j] = Append(@, "retried")]
    /\ UNCHANGED <<clock, lastId>>

\* The rows a prune with these arguments may remove.
Prunable(states, cutoff) ==
    {j \in JobIds : /\ jobs[j].state \in states
                    /\ jobs[j].finished_at # NULL
                    /\ jobs[j].finished_at < cutoff}

\* ids were matched by an earlier read; each is checked again here.
prune_delete(ids, states, cutoff) ==
    LET kept == JobIds \ (ids \cap Prunable(states, cutoff))
    IN  /\ kept # JobIds
        /\ jobs' = [j \in kept |-> jobs[j]]
        /\ attempts' = [j \in kept |-> attempts[j]]
        /\ log' = [j \in kept |-> log[j]]
        /\ UNCHANGED <<clock, lastId>>

-----------------------------------------------------------------------------
(* Workers: claim, heartbeat, record, reap                                 *)

Running(lane) == {j \in JobIds : jobs[j].state = "running" /\ jobs[j].spec.queue = lane}

\* ORDER BY priority DESC, next_run_at ASC, id ASC
Before(i, j) ==
    \/ jobs[i].spec.priority > jobs[j].spec.priority
    \/ /\ jobs[i].spec.priority = jobs[j].spec.priority
       /\ \/ jobs[i].next_run_at < jobs[j].next_run_at
          \/ jobs[i].next_run_at = jobs[j].next_run_at /\ i < j

\* Mutant: only jobs that have not failed yet are selected.
Due_FreshOnly(lane, t) ==
    {j \in JobIds : /\ jobs[j].state = "queued"
                    /\ jobs[j].attempts = 0
                    /\ jobs[j].next_run_at <= t
                    /\ jobs[j].spec.queue = lane}

Due(lane, t) ==
    {j \in JobIds : /\ jobs[j].state = "queued"
                    /\ jobs[j].next_run_at <= t
                    /\ jobs[j].spec.queue = lane}

\* Mutant: a full lane takes one more.
Claimable_OneTooMany(j, lane, t) ==
    /\ Slots # NULL => Cardinality(Running(lane)) <= Slots
    /\ j \in Due(lane, t)
    /\ \A i \in Due(lane, t) \ {j} : Before(j, i)

\* The job claim_next selects, if the lane has a free slot.
Claimable(j, lane, t) ==
    /\ Slots # NULL => Cardinality(Running(lane)) < Slots
    /\ j \in Due(lane, t)
    /\ \A i \in Due(lane, t) \ {j} : Before(j, i)

\* The same, within the bound on attempts.
CanClaim(j, lane, t) ==
    Claimable(j, lane, t) /\ Cardinality(DOMAIN attempts[j]) < MaxAttempts

\* Mutant: a retried job counts from 1 again.
NextAttemptNo_FromCounter(j) == jobs[j].attempts + 1

\* COALESCE(MAX(attempt_no), 0) + 1
NextAttemptNo(j) == Max(DOMAIN attempts[j] \cup {0}) + 1

claim_next(j, worker_id, worker_pid, lane, t) ==
    /\ CanClaim(j, lane, t)
    /\ jobs' = [jobs EXCEPT ![j] =
                  [@ EXCEPT !.state = "running", !.locked_by = worker_id,
                            !.locked_pid = worker_pid, !.heartbeat_at = t]]
    /\ attempts' = [attempts EXCEPT ![j] =
                      [n \in DOMAIN @ \cup {NextAttemptNo(j)} |->
                         IF n = NextAttemptNo(j)
                         THEN [worker_id |-> worker_id, worker_pid |-> worker_pid,
                               state |-> "running", failure_reason |-> NULL]
                         ELSE @[n]]]
    /\ log' = [log EXCEPT ![j] = Append(@, "claimed")]
    /\ UNCHANGED <<clock, lastId>>

\* Mutant: dead and canceled jobs keep a drain alive.
Unsettled_ButDone(lane, t) ==
    {j \in JobIds : jobs[j].spec.queue = lane /\ jobs[j].state # "done"}

\* unsettled_count: the jobs that keep a draining worker alive.
Unsettled(lane, t) ==
    {j \in JobIds :
        /\ jobs[j].spec.queue = lane
        /\ \/ jobs[j].state = "running"
           \/ /\ jobs[j].state = "queued"
              /\ jobs[j].next_run_at <= t \/ jobs[j].attempts > 0}

\* Mutant: any worker may act on a running job.
Owns_StateOnly(j, worker_id, worker_pid) ==
    j \in JobIds /\ jobs[j].state = "running"

\* _OWNERSHIP_GUARD
Owns(j, worker_id, worker_pid) ==
    /\ j \in JobIds
    /\ jobs[j].state = "running"
    /\ jobs[j].locked_by = worker_id
    /\ jobs[j].locked_pid = worker_pid

record_success(j, no, worker_id, worker_pid, t) ==
    /\ Owns(j, worker_id, worker_pid)
    /\ jobs' = [jobs EXCEPT ![j] =
                  [Unlocked(@) EXCEPT !.state = "done", !.finished_at = t]]
    /\ attempts' = [attempts EXCEPT ![j] = CloseOne(j, no, "succeeded", NULL)]
    /\ log' = [log EXCEPT ![j] = Append(@, "succeeded")]
    /\ UNCHANGED <<clock, lastId>>

\* Attempt state and event of a job-owned failure: the validated pairs of
\* (kind, failure_reason).
FailureKind(reason) == IF reason = "timeout" THEN "timed_out" ELSE "failed"

\* Both failure paths end alike: back to the queue after a backoff while the
\* budget lasts, else dead.
Requeued(row, exhausted, new_attempts, new_crashes, t) ==
    [Unlocked(row) EXCEPT
        !.state = IF exhausted THEN "dead" ELSE "queued",
        !.attempts = new_attempts,
        !.crashes = new_crashes,
        !.next_run_at = IF exhausted THEN t ELSE t + backoff_seconds(new_attempts),
        !.finished_at = t]

\* Mutant: the dead event is not written.
FailureEvents_NoDead(event, exhausted) == <<event>>

FailureEvents(event, exhausted) ==
    IF exhausted THEN <<event, "dead">> ELSE <<event>>

\* Mutant: crashes are charged to the retry budget too.
RetriesExhausted_CountsCrashes(row) == row.attempts + 1 > row.spec.max_retries

\* One more job-owned failure is one too many.
RetriesExhausted(row) == (row.attempts + 1) - row.crashes > row.spec.max_retries

record_failure(j, no, worker_id, worker_pid, reason, t) ==
    /\ Owns(j, worker_id, worker_pid)
    /\ LET exhausted == RetriesExhausted(jobs[j])
       IN  /\ jobs' = [jobs EXCEPT ![j] =
                         Requeued(@, exhausted, @.attempts + 1, @.crashes, t)]
           /\ log' = [log EXCEPT ![j] =
                        @ \o FailureEvents(FailureKind(reason), exhausted)]
    /\ attempts' = [attempts EXCEPT ![j] =
                      CloseOne(j, no, FailureKind(reason), reason)]
    /\ UNCHANGED <<clock, lastId>>

\* The autocommitted heartbeat; a caller whose guard fails matches zero rows.
update_heartbeat(j, worker_id, worker_pid, t) ==
    /\ Owns(j, worker_id, worker_pid)
    /\ jobs' = [jobs EXCEPT ![j].heartbeat_at = t]
    /\ UNCHANGED <<clock, lastId, attempts, log>>

\* stale_running_candidates: nominated, not yet confirmed.
Stale(j, cutoff) ==
    /\ jobs[j].state = "running"
    /\ jobs[j].heartbeat_at # NULL
    /\ jobs[j].heartbeat_at < cutoff

\* Mutant: the heartbeat is not looked at again.
Reapable_AnyBeat(j, pid, cutoff) ==
    j \in JobIds /\ jobs[j].state = "running" /\ jobs[j].locked_pid = pid

\* What reap checks again inside its transaction.
Reapable(j, pid, cutoff) ==
    /\ j \in JobIds
    /\ Stale(j, cutoff)
    /\ jobs[j].locked_pid = pid

\* One more crash of its worker is one too many.
CrashesExhausted(row) ==
    row.spec.max_crashes # NULL /\ row.crashes + 1 > row.spec.max_crashes

reap(j, pid, cutoff, t) ==
    /\ Reapable(j, pid, cutoff)
    /\ LET exhausted == CrashesExhausted(jobs[j])
       IN  /\ jobs' = [jobs EXCEPT ![j] =
                         Requeued(@, exhausted, @.attempts + 1, @.crashes + 1, t)]
           /\ log' = [log EXCEPT ![j] = @ \o FailureEvents("reaped", exhausted)]
    /\ attempts' = [attempts EXCEPT ![j] =
                      CloseRunning(j, "abandoned", "worker_crash")]
    /\ UNCHANGED <<clock, lastId>>

-----------------------------------------------------------------------------
(* Specification                                                           *)

Tick ==
    /\ clock < MaxTime
    /\ clock' = clock + 1
    /\ UNCHANGED <<lastId, jobs, attempts, log>>

StoreInit ==
    /\ clock = 0
    /\ lastId = 0
    /\ jobs = <<>>
    /\ attempts = <<>>
    /\ log = <<>>

Lanes == {s.queue : s \in Specs}

\* The ids of a prune are any set, so an older cutoff or fewer states to prune
\* add no step.
ClientNext ==
    \/ \E s \in Specs, delay \in Delays : add_job_checked(s, delay, clock)
    \/ \E j \in JobIds, allow_running \in BOOLEAN : cancel_job(j, allow_running, clock)
    \/ \E j \in JobIds, force \in BOOLEAN : retry_job(j, force, clock)
    \/ \E ids \in SUBSET JobIds : prune_delete(ids, PrunableStates, clock)

\* A reaper reads its clock once, when its pass starts.
WorkerNext ==
    \E j \in JobIds, w \in WorkerIds, pid \in Pids :
        \/ \E lane \in Lanes : claim_next(j, w, pid, lane, clock)
        \/ update_heartbeat(j, w, pid, clock)
        \/ \E no \in DOMAIN attempts[j] :
              \/ record_success(j, no, w, pid, clock)
              \/ \E reason \in {"process_exit", "timeout", "spawn_failed"} :
                    record_failure(j, no, w, pid, reason, clock)
        \/ \E t \in 0..clock : reap(j, pid, t - REAP_THRESHOLD, t)

StoreNext == Tick \/ ClientNext \/ WorkerNext

StoreSpec == StoreInit /\ [][StoreNext]_storeVars
-----------------------------------------------------------------------------
(* Properties                                                              *)

\* Every column holds a value of its type, attempt numbers run 1, 2, 3, ...
\* and the three tables describe the same jobs (store.py's schema).
TypeOK ==
    /\ clock \in Nat
    /\ lastId \in Nat
    /\ JobIds \subseteq 1..lastId
    /\ jobs \in [JobIds -> JobRow]
    /\ attempts \in [JobIds -> Seq(AttemptRow)]
    /\ log \in [JobIds -> Seq(JobEventTypes)]

LockedRow(row) ==
    IF row.state = "running"
    THEN NULL \notin {row.locked_by, row.locked_pid, row.heartbeat_at}
    ELSE {row.locked_by, row.locked_pid, row.heartbeat_at} = {NULL}

\* A job is running exactly while its lock columns are set: no path out of
\* running leaves a lock behind and no claim forgets one, so a reaper that
\* selects on heartbeat_at sees every running job.
LockInv == \A j \in JobIds : LockedRow(jobs[j])

WithinBudget(row) ==
    LET failures == row.attempts - row.crashes
        unlimited == row.spec.max_crashes = NULL
    IN  /\ row.crashes <= row.attempts
        /\ row.state # "dead" =>
             /\ failures <= row.spec.max_retries
             /\ unlimited \/ row.crashes <= row.spec.max_crashes
        /\ row.state = "dead" =>
             \/ failures = row.spec.max_retries + 1
             \/ ~unlimited /\ row.crashes = row.spec.max_crashes + 1

\* The two retry budgets are independent and exact (record_failure, reap):
\* a job leaves the queue for good on the failure number max_retries + 1 or
\* on the crash number max_crashes + 1, never earlier and never later.
BudgetInv == \A j \in JobIds : WithinBudget(jobs[j])

BackedOff(row) ==
    row.state = "queued" /\ row.attempts > 0 =>
        /\ row.finished_at # NULL
        /\ row.next_run_at = row.finished_at + backoff_seconds(row.attempts)

\* A queued job that has failed before waits out the backoff of its count,
\* measured from the failure that put it back (record_failure, reap); a
\* manual retry is the only way to skip the wait.
BackoffInv == \A j \in JobIds : BackedOff(jobs[j])

\* The state an event leaves its job in, if no event follows it.
StateAfter(event) ==
    CASE event \in {"added", "retried", "failed", "timed_out", "reaped"} -> "queued"
      [] event = "claimed" -> "running"
      [] event = "succeeded" -> "done"
      [] event = "dead" -> "dead"
      [] event = "canceled" -> "canceled"

LogAgrees(row, events) ==
    /\ events # <<>>
    /\ row.state = StateAfter(events[Len(events)])
    /\ row.state \in PrunableStates => row.finished_at # NULL

\* The event log never disagrees with the row: whoever follows the events
\* knows the state of the job, and every terminal row carries the
\* finished_at that prune needs.
LogInv == \A j \in JobIds : LogAgrees(jobs[j], log[j])

\* The inductive invariant of the store, for every caller.
StoreInv == TypeOK /\ LockInv /\ BudgetInv /\ BackoffInv /\ LogInv

\* Indices of the events of j since its last manual retry.
SinceRetry(j) ==
    {i \in DOMAIN log[j] :
        \A k \in DOMAIN log[j] : log[j][k] = "retried" => k < i}

Logged(j, events) == Cardinality({i \in SinceRetry(j) : log[j][i] \in events})

\* The budget counters are what the event log says happened since the last
\* manual retry: attempts counts failures and crashes, crashes counts reaps,
\* and every attempt row has its claim.
CountersMatchLog ==
    \A j \in JobIds :
        /\ jobs[j].attempts = Logged(j, {"failed", "timed_out", "reaped"})
        /\ jobs[j].crashes = Logged(j, {"reaped"})
        /\ Len(attempts[j]) =
             Cardinality({i \in DOMAIN log[j] : log[j][i] = "claimed"})

Retried(j) == \E i \in DOMAIN log[j] : log[j][i] = "retried"

\* Two active jobs share an idempotency key only after a manual retry
\* brought one of them back: submissions alone never duplicate a key.
KeyInv ==
    \A i, j \in JobIds :
        /\ i # j
        /\ {jobs[i].state, jobs[j].state} \subseteq ActiveStates
        /\ jobs[i].spec.key = jobs[j].spec.key
        /\ jobs[i].spec.key # NULL
        => Retried(i) \/ Retried(j)

\* No lane ever runs more jobs than its slot ceiling, however claims,
\* reaps, retries and cancellations interleave.
SlotsInv == Slots # NULL => \A lane \in Lanes : Cardinality(Running(lane)) <= Slots

KeepsClosedAttempts ==
    \A j \in JobIds \cap DOMAIN jobs' : \A n \in DOMAIN attempts[j] :
        attempts[j][n].state # "running" =>
            /\ n \in DOMAIN attempts'[j]
            /\ attempts'[j][n] = attempts[j][n]

\* History is immutable: an attempt that has ended is never rewritten or
\* renumbered, even when a manual retry starts the count again, so no later
\* attempt writes to its output files.
ClosedAttemptsFrozen == [][KeepsClosedAttempts]_storeVars

KeepsDone ==
    /\ \A j \in JobIds \cap DOMAIN jobs' :
         jobs[j].state = "done" => jobs'[j] = jobs[j] /\ log'[j] = log[j]
    /\ \A j \in DOMAIN jobs' \ JobIds : j > lastId

\* A finished job never runs again: done is left only by deletion, and the
\* id of a deleted job is never given to another one.
DoneIsFinal == [][KeepsDone]_storeVars

-----------------------------------------------------------------------------
(* What the documentation says and the code does not do                    *)

JobOwnedFailures(j) == Logged(j, {"failed", "timed_out"})

\* "After `max_retries` consecutive job-owned failures, the job transitions to
\* `dead`": a job that has failed and is still to run has failed less often.
DeadAfterMaxRetries ==
    \A j \in JobIds :
        jobs[j].state \in ActiveStates /\ JobOwnedFailures(j) > 0
        => JobOwnedFailures(j) < jobs[j].spec.max_retries
=============================================================================
