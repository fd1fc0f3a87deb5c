---------------------------- MODULE StoreProofs -----------------------------
(***************************************************************************)
(* The store keeps its invariants whatever its callers do.  Every          *)
(* transaction but two (add_job_checked, prune_delete) rewrites one row of *)
(* jobs, that job's attempts and that job's log, so the argument has two   *)
(* halves: UpdateRow says that such a step preserves StoreInv when the new *)
(* row and log are good, and one lemma per transaction shows that they are.*)
(***************************************************************************)
EXTENDS Store, TLAPS, SequenceTheorems

\* What StoreInv asks of one job.
GoodJob(row, events) ==
    /\ LockedRow(row)
    /\ WithinBudget(row)
    /\ BackedOff(row)
    /\ LogAgrees(row, events)

-----------------------------------------------------------------------------

\* Attempt rows are numbered without gaps, so MAX(attempt_no) is their count.
LEMMA NextAttemptNoIsLen ==
    ASSUME TypeOK, NEW j \in JobIds
    PROVE  /\ Len(attempts[j]) \in Nat
           /\ DOMAIN attempts[j] = 1..Len(attempts[j])
           /\ NextAttemptNo(j) = Len(attempts[j]) + 1
<1> DEFINE n == Len(attempts[j])
           S == DOMAIN attempts[j] \cup {0}
<1>1. n \in Nat /\ DOMAIN attempts[j] = 1..n
  BY DEF TypeOK
<1>2. n \in S /\ \A y \in S : n >= y
  BY <1>1
<1>3. \A x \in S : (\A y \in S : x >= y) => x = n
  BY <1>1, <1>2
<1>4. Max(S) = n
  BY <1>2, <1>3 DEF Max
<1> QED
  BY <1>1, <1>4 DEF NextAttemptNo

\* Closing attempt rows keeps them rows.
LEMMA CloseType ==
    ASSUME TypeOK, NEW j \in JobIds, NEW no,
           NEW state \in AttemptStates, NEW reason \in FailureReasons \cup {NULL}
    PROVE  /\ CloseRunning(j, state, reason) \in Seq(AttemptRow)
           /\ CloseOne(j, no, state, reason) \in Seq(AttemptRow)
<1> DEFINE n == Len(attempts[j])
<1>1. n \in Nat /\ attempts[j] \in [1..n -> AttemptRow]
  BY DEF TypeOK
<1>2. \A row \in AttemptRow :
        [row EXCEPT !.state = state, !.failure_reason = reason] \in AttemptRow
  BY DEF AttemptRow
<1>3. CloseRunning(j, state, reason) \in [1..n -> AttemptRow]
  BY <1>1, <1>2 DEF CloseRunning
<1>4. CloseOne(j, no, state, reason) \in [1..n -> AttemptRow]
  BY <1>1, <1>2 DEF CloseOne
<1> QED
  BY <1>1, <1>3, <1>4, SeqDef

\* A step that rewrites one job to a good one preserves the invariant.
LEMMA UpdateRow ==
    ASSUME StoreInv,
           NEW j \in JobIds,
           NEW row \in JobRow,
           NEW tries \in Seq(AttemptRow),
           NEW events \in Seq(JobEventTypes),
           GoodJob(row, events),
           jobs' = [jobs EXCEPT ![j] = row],
           attempts' = [attempts EXCEPT ![j] = tries],
           log' = [log EXCEPT ![j] = events],
           UNCHANGED <<clock, lastId>>
    PROVE  StoreInv'
<1>1. JobIds' = JobIds
  BY DEF JobIds
<1>2. TypeOK'
  BY <1>1 DEF StoreInv, TypeOK, JobIds
<1>3. \A i \in JobIds : jobs'[i] = IF i = j THEN row ELSE jobs[i]
  BY DEF StoreInv, TypeOK, JobIds
<1>4. \A i \in JobIds : log'[i] = IF i = j THEN events ELSE log[i]
  BY DEF StoreInv, TypeOK
<1>5. LockInv'
  BY <1>1, <1>3 DEF StoreInv, LockInv, GoodJob
<1>6. BudgetInv'
  BY <1>1, <1>3 DEF StoreInv, BudgetInv, GoodJob
<1>7. BackoffInv'
  BY <1>1, <1>3 DEF StoreInv, BackoffInv, GoodJob
<1>8. LogInv'
  BY <1>1, <1>3, <1>4 DEF StoreInv, LogInv, GoodJob
<1> QED
  BY <1>2, <1>5, <1>6, <1>7, <1>8 DEF StoreInv

\* The current row and log of a job are typed and good.
LEMMA RowFacts ==
    ASSUME StoreInv, NEW j \in JobIds
    PROVE  /\ jobs[j] \in JobRow
           /\ attempts[j] \in Seq(AttemptRow)
           /\ log[j] \in Seq(JobEventTypes)
           /\ GoodJob(jobs[j], log[j])
           /\ clock \in Time
           /\ \A t \in Time : t # NULL
  BY NullAssumption
  DEF StoreInv, TypeOK, LockInv, BudgetInv, BackoffInv, LogInv, GoodJob, Time

\* Appending an event makes it the last one.
LEMMA LastAppended ==
    ASSUME NEW events \in Seq(JobEventTypes), NEW e \in JobEventTypes
    PROVE  LET new == Append(events, e)
           IN  /\ new \in Seq(JobEventTypes)
               /\ new # <<>>
               /\ new[Len(new)] = e
  OBVIOUS

\* A function on 1..m is a sequence: attempts are numbered without a gap.
LEMMA FunctionIsSeq ==
    ASSUME NEW S, NEW m \in Nat, NEW f \in [1..m -> S]
    PROVE  f \in Seq(S)
  BY SeqDef

-----------------------------------------------------------------------------
(* One lemma per transaction                                               *)

\* A created job (add_job_checked) starts inside its budgets, unlocked,
\* with its event.
LEMMA AddPreserves ==
    ASSUME StoreInv, NEW s \in Specs, NEW delay \in Delays,
           add_job_checked(s, delay, clock)
    PROVE  StoreInv'
<1> DEFINE new == lastId + 1
           row == [spec |-> s, state |-> "queued", attempts |-> 0,
                   crashes |-> 0, next_run_at |-> clock + delay,
                   locked_by |-> NULL, locked_pid |-> NULL,
                   heartbeat_at |-> NULL, finished_at |-> NULL]
<1>1. row \in JobRow
  BY CallersAssumption DEF StoreInv, TypeOK, JobRow, JobStates, Time
<1>2. GoodJob(row, <<"added">>)
  BY SpecsAssumption
  DEF GoodJob, LockedRow, WithinBudget, BackedOff, LogAgrees, StateAfter, PrunableStates
<1>3. /\ JobIds' = JobIds \cup {new}
      /\ \A i \in JobIds' : jobs'[i] = IF i = new THEN row ELSE jobs[i]
      /\ \A i \in JobIds' : log'[i] = IF i = new THEN <<"added">> ELSE log[i]
  BY DEF add_job_checked, JobIds
<1>4. TypeOK'
  <2>1. /\ clock' \in Nat /\ lastId' \in Nat /\ JobIds' \subseteq 1..lastId'
    BY <1>3 DEF add_job_checked, StoreInv, TypeOK
  <2>2. jobs' \in [JobIds' -> JobRow]
    BY <1>1, <1>3 DEF add_job_checked, StoreInv, TypeOK, JobIds
  <2>3. attempts' \in [JobIds' -> Seq(AttemptRow)]
    BY <1>3 DEF add_job_checked, StoreInv, TypeOK
  <2>4. log' \in [JobIds' -> Seq(JobEventTypes)]
    <3>1. <<"added">> \in Seq(JobEventTypes)
      BY DEF JobEventTypes
    <3> QED
      BY <1>3, <3>1 DEF add_job_checked, StoreInv, TypeOK
  <2> QED
    BY <2>1, <2>2, <2>3, <2>4 DEF TypeOK
<1>5. \A i \in JobIds' : GoodJob(jobs'[i], log'[i])
  BY <1>2, <1>3 DEF StoreInv, LockInv, BudgetInv, BackoffInv, LogInv, GoodJob
<1> QED
  BY <1>4, <1>5 DEF StoreInv, LockInv, BudgetInv, BackoffInv, LogInv, GoodJob

\* Deleting rows (prune_delete) leaves the others as they were.
LEMMA PrunePreserves ==
    ASSUME StoreInv, NEW ids, NEW states, NEW cutoff,
           prune_delete(ids, states, cutoff)
    PROVE  StoreInv'
<1>1. /\ JobIds' \subseteq JobIds
      /\ jobs' = [i \in JobIds' |-> jobs[i]]
      /\ attempts' = [i \in JobIds' |-> attempts[i]]
      /\ log' = [i \in JobIds' |-> log[i]]
      /\ UNCHANGED <<clock, lastId>>
  BY DEF prune_delete, JobIds
<1>2. TypeOK'
  BY <1>1 DEF StoreInv, TypeOK
<1> QED
  BY <1>1, <1>2 DEF StoreInv, LockInv, BudgetInv, BackoffInv, LogInv

\* cancel_job, queued or running, leaves an unlocked row with finished_at.
LEMMA CancelPreserves ==
    ASSUME StoreInv, NEW j \in JobIds, NEW allow_running \in BOOLEAN,
           cancel_job(j, allow_running, clock)
    PROVE  StoreInv'
<1> DEFINE events == Append(log[j], "canceled")
<1>1. /\ jobs[j] \in JobRow /\ attempts[j] \in Seq(AttemptRow)
      /\ clock \in Time /\ clock # NULL
      /\ GoodJob(jobs[j], log[j])
  BY RowFacts
<1>2. events \in Seq(JobEventTypes) /\ events # <<>> /\ events[Len(events)] = "canceled"
  BY RowFacts, LastAppended DEF JobEventTypes
<1>3. CASE jobs[j].state = "queued"
  <2> DEFINE row == [jobs[j] EXCEPT !.state = "canceled", !.finished_at = clock]
  <2>1. row \in JobRow
    BY <1>1 DEF JobRow, JobStates
  <2>2. GoodJob(row, events)
    BY <1>1, <1>2, <1>3
    DEF GoodJob, LockedRow, WithinBudget, BackedOff, LogAgrees, StateAfter, JobRow
  <2>3. jobs' = [jobs EXCEPT ![j] = row] /\ attempts' = [attempts EXCEPT ![j] = attempts[j]]
    BY <1>1, <1>3 DEF cancel_job, StoreInv, TypeOK
  <2>4. log' = [log EXCEPT ![j] = events] /\ UNCHANGED <<clock, lastId>>
    BY DEF cancel_job
  <2> QED
    BY <1>1, <1>2, <2>1, <2>2, <2>3, <2>4, UpdateRow
<1>4. CASE jobs[j].state = "running"
  <2> DEFINE row == [Unlocked(jobs[j]) EXCEPT !.state = "canceled", !.finished_at = clock]
             tries == CloseRunning(j, "canceled", "canceled")
  <2>1. row \in JobRow
    BY <1>1 DEF JobRow, JobStates, Unlocked
  <2>2. GoodJob(row, events)
    BY <1>1, <1>2, <1>4
    DEF GoodJob, LockedRow, WithinBudget, BackedOff, LogAgrees, StateAfter, JobRow, Unlocked
  <2>3. tries \in Seq(AttemptRow)
    BY CloseType DEF StoreInv, AttemptStates, FailureReasons
  <2>4. /\ jobs' = [jobs EXCEPT ![j] = row] /\ attempts' = [attempts EXCEPT ![j] = tries]
        /\ log' = [log EXCEPT ![j] = events] /\ UNCHANGED <<clock, lastId>>
    BY <1>4 DEF cancel_job
  <2> QED
    BY <1>2, <2>1, <2>2, <2>3, <2>4, UpdateRow
<1> QED
  BY <1>3, <1>4 DEF cancel_job

\* retry_job leaves a fresh budget and no backoff to serve.
LEMMA RetryPreserves ==
    ASSUME StoreInv, NEW j \in JobIds, NEW force \in BOOLEAN,
           retry_job(j, force, clock)
    PROVE  StoreInv'
<1> DEFINE events == Append(log[j], "retried")
           row == FreshBudget(jobs[j], clock)
           tries == IF force THEN CloseRunning(j, "abandoned", "canceled")
                             ELSE attempts[j]
<1>1. /\ jobs[j] \in JobRow /\ attempts[j] \in Seq(AttemptRow)
      /\ clock \in Time
      /\ GoodJob(jobs[j], log[j])
  BY RowFacts
<1>2. events \in Seq(JobEventTypes) /\ events # <<>> /\ events[Len(events)] = "retried"
  BY RowFacts, LastAppended DEF JobEventTypes
<1>3. row \in JobRow
  BY <1>1 DEF JobRow, JobStates, FreshBudget, Unlocked
<1>4. jobs[j].spec.max_retries \in Nat /\ jobs[j].spec.max_crashes \in Nat \cup {NULL}
  BY <1>1, SpecsAssumption DEF JobRow
<1>5. GoodJob(row, events)
  BY <1>1, <1>2, <1>4
  DEF GoodJob, LockedRow, WithinBudget, BackedOff, LogAgrees, StateAfter, JobRow,
      FreshBudget, Unlocked, PrunableStates
<1>6. tries \in Seq(AttemptRow)
  BY <1>1, CloseType DEF StoreInv, AttemptStates, FailureReasons
<1>7. /\ jobs' = [jobs EXCEPT ![j] = row]
      /\ attempts' = [attempts EXCEPT ![j] = tries]
      /\ log' = [log EXCEPT ![j] = events] /\ UNCHANGED <<clock, lastId>>
  BY DEF retry_job, StoreInv, TypeOK
<1> QED
  BY <1>2, <1>3, <1>5, <1>6, <1>7, UpdateRow

\* claim_next locks the row and opens the attempt after the last one.
LEMMA ClaimPreserves ==
    ASSUME StoreInv, NEW j \in JobIds, NEW w \in WorkerIds, NEW pid \in Pids,
           NEW lane, claim_next(j, w, pid, lane, clock)
    PROVE  StoreInv'
<1> DEFINE events == Append(log[j], "claimed")
           row == [jobs[j] EXCEPT !.state = "running", !.locked_by = w,
                                  !.locked_pid = pid, !.heartbeat_at = clock]
           try == [worker_id |-> w, worker_pid |-> pid,
                   state |-> "running", failure_reason |-> NULL]
           tries == [n \in DOMAIN attempts[j] \cup {NextAttemptNo(j)} |->
                       IF n = NextAttemptNo(j) THEN try ELSE attempts[j][n]]
<1>1. /\ jobs[j] \in JobRow /\ attempts[j] \in Seq(AttemptRow)
      /\ clock \in Time /\ clock # NULL
      /\ GoodJob(jobs[j], log[j])
  BY RowFacts
<1>2. events \in Seq(JobEventTypes) /\ events # <<>> /\ events[Len(events)] = "claimed"
  BY RowFacts, LastAppended DEF JobEventTypes
<1>3. jobs[j].state = "queued"
  BY DEF claim_next, CanClaim, Claimable, Due
<1>4. row \in JobRow
  BY <1>1 DEF JobRow, JobStates
<1>5. GoodJob(row, events)
  BY <1>1, <1>2, <1>3, CallersAssumption
  DEF GoodJob, LockedRow, WithinBudget, BackedOff, LogAgrees, StateAfter, JobRow,
      PrunableStates
<1>6. tries \in Seq(AttemptRow)
  <2> DEFINE m == Len(attempts[j]) + 1
  <2>1. m \in Nat /\ NextAttemptNo(j) = m /\ DOMAIN attempts[j] = 1..(m - 1)
    BY NextAttemptNoIsLen DEF StoreInv
  <2>2. DOMAIN attempts[j] \cup {m} = 1..m
    BY <2>1
  <2>3. try \in AttemptRow
    BY DEF AttemptRow, AttemptStates
  <2>4. \A n \in 1..m : n # m => attempts[j][n] \in AttemptRow
    BY <1>1, <2>1
  <2>5. tries \in [1..m -> AttemptRow]
    BY <2>1, <2>2, <2>3, <2>4
  <2> QED
    BY <2>1, <2>5, FunctionIsSeq
<1>7. /\ jobs' = [jobs EXCEPT ![j] = row]
      /\ attempts' = [attempts EXCEPT ![j] = tries]
      /\ log' = [log EXCEPT ![j] = events] /\ UNCHANGED <<clock, lastId>>
  BY DEF claim_next
<1> QED
  BY <1>2, <1>4, <1>5, <1>6, <1>7, UpdateRow

\* update_heartbeat touches nothing but heartbeat_at.
LEMMA HeartbeatPreserves ==
    ASSUME StoreInv, NEW j \in JobIds, NEW w, NEW pid,
           update_heartbeat(j, w, pid, clock)
    PROVE  StoreInv'
<1> DEFINE row == [jobs[j] EXCEPT !.heartbeat_at = clock]
<1>1. /\ jobs[j] \in JobRow /\ attempts[j] \in Seq(AttemptRow)
      /\ log[j] \in Seq(JobEventTypes) /\ clock \in Time /\ clock # NULL
      /\ GoodJob(jobs[j], log[j])
  BY RowFacts
<1>2. row \in JobRow
  BY <1>1 DEF JobRow
<1>3. GoodJob(row, log[j])
  BY <1>1 DEF GoodJob, LockedRow, WithinBudget, BackedOff, LogAgrees, JobRow,
              update_heartbeat, Owns
<1>4. /\ jobs' = [jobs EXCEPT ![j] = row]
      /\ attempts' = [attempts EXCEPT ![j] = attempts[j]]
      /\ log' = [log EXCEPT ![j] = log[j]] /\ UNCHANGED <<clock, lastId>>
  BY DEF update_heartbeat, StoreInv, TypeOK
<1> QED
  BY <1>1, <1>2, <1>3, <1>4, UpdateRow

\* record_success leaves an unlocked, finished row.
LEMMA SuccessPreserves ==
    ASSUME StoreInv, NEW j \in JobIds, NEW no, NEW w, NEW pid,
           record_success(j, no, w, pid, clock)
    PROVE  StoreInv'
<1> DEFINE events == Append(log[j], "succeeded")
           row == [Unlocked(jobs[j]) EXCEPT !.state = "done", !.finished_at = clock]
           tries == CloseOne(j, no, "succeeded", NULL)
<1>1. /\ jobs[j] \in JobRow /\ clock \in Time /\ clock # NULL
      /\ GoodJob(jobs[j], log[j])
  BY RowFacts
<1>2. events \in Seq(JobEventTypes) /\ events # <<>> /\ events[Len(events)] = "succeeded"
  BY RowFacts, LastAppended DEF JobEventTypes
<1>3. row \in JobRow
  BY <1>1 DEF JobRow, JobStates, Unlocked
<1>4. GoodJob(row, events)
  BY <1>1, <1>2
  DEF GoodJob, LockedRow, WithinBudget, BackedOff, LogAgrees, StateAfter, JobRow,
      Unlocked, record_success, Owns
<1>5. tries \in Seq(AttemptRow)
  BY CloseType DEF StoreInv, AttemptStates
<1>6. /\ jobs' = [jobs EXCEPT ![j] = row] /\ attempts' = [attempts EXCEPT ![j] = tries]
      /\ log' = [log EXCEPT ![j] = events] /\ UNCHANGED <<clock, lastId>>
  BY DEF record_success
<1> QED
  BY <1>2, <1>3, <1>4, <1>5, <1>6, UpdateRow

-----------------------------------------------------------------------------
(* The two failure paths                                                   *)

\* The backoff is a number for every failure count.
LEMMA BackoffType == \A n \in Nat : backoff_seconds(n + 1) \in Int
<1> SUFFICES ASSUME NEW n \in Nat PROVE backoff_seconds(n + 1) \in Int
  OBVIOUS
<1>1. (n + 1) - 1 = n
  OBVIOUS
<1>2. 2 ^ n \in Int
  OBVIOUS
<1>3. BACKOFF_BASE * 2 ^ n \in Int
  BY <1>2, TunablesAssumption
<1> QED
  BY <1>1, <1>3, TunablesAssumption DEF backoff_seconds

\* The log after a failure ends with the event of the state it leads to.
LEMMA FailureLog ==
    ASSUME NEW events \in Seq(JobEventTypes),
           NEW e \in {"failed", "timed_out", "reaped"}, NEW exhausted \in BOOLEAN
    PROVE  LET new == events \o FailureEvents(e, exhausted)
           IN  /\ new \in Seq(JobEventTypes)
               /\ new # <<>>
               /\ new[Len(new)] = IF exhausted THEN "dead" ELSE e
<1>1. CASE exhausted
  <2>1. FailureEvents(e, exhausted) = <<e, "dead">>
    BY <1>1 DEF FailureEvents
  <2>2. e \in JobEventTypes /\ "dead" \in JobEventTypes
    BY DEF JobEventTypes
  <2>3. events \o <<e, "dead">> = Append(Append(events, e), "dead")
    OBVIOUS
  <2>4. Append(events, e) \in Seq(JobEventTypes)
    BY <2>2
  <2> DEFINE new == Append(Append(events, e), "dead")
  <2>5. new \in Seq(JobEventTypes) /\ new # <<>> /\ new[Len(new)] = "dead"
    BY <2>2, <2>4, LastAppended
  <2>6. events \o FailureEvents(e, exhausted) = new
    BY <2>1, <2>3
  <2> HIDE DEF new
  <2> QED
    BY <1>1, <2>5, <2>6
<1>2. CASE ~exhausted
  <2>1. FailureEvents(e, exhausted) = <<e>>
    BY <1>2 DEF FailureEvents
  <2>2. e \in JobEventTypes
    BY DEF JobEventTypes
  <2> QED
    BY <1>2, <2>1, <2>2
<1> QED
  BY <1>1, <1>2

\* A row that Requeued builds is good if it keeps to the budgets.
LEMMA RequeuedGood ==
    ASSUME StoreInv, NEW j \in JobIds, NEW t \in Time,
           NEW exhausted \in BOOLEAN, NEW crashes \in Nat,
           NEW e \in {"failed", "timed_out", "reaped"}
    PROVE  LET row == Requeued(jobs[j], exhausted, jobs[j].attempts + 1, crashes, t)
               events == log[j] \o FailureEvents(e, exhausted)
           IN  /\ row \in JobRow
               /\ events \in Seq(JobEventTypes)
               /\ WithinBudget(row) => GoodJob(row, events)
<1> DEFINE row == Requeued(jobs[j], exhausted, jobs[j].attempts + 1, crashes, t)
           events == log[j] \o FailureEvents(e, exhausted)
<1>1. /\ jobs[j] \in JobRow /\ log[j] \in Seq(JobEventTypes) /\ t # NULL
      /\ t \in Int
      /\ jobs[j].attempts \in Nat
  BY RowFacts DEF JobRow, Time
<1>2. backoff_seconds(jobs[j].attempts + 1) \in Int
  BY <1>1, BackoffType
<1>3. row \in JobRow
  <2>1. t + backoff_seconds(jobs[j].attempts + 1) \in Time
    BY <1>1, <1>2 DEF Time
  <2>2. /\ jobs[j].attempts + 1 \in Nat
        /\ (IF exhausted THEN "dead" ELSE "queued") \in JobStates
        /\ (IF exhausted THEN t ELSE t + backoff_seconds(jobs[j].attempts + 1)) \in Time
    BY <1>1, <2>1 DEF JobStates
  <2> QED
    BY <1>1, <2>2 DEF JobRow, Requeued, Unlocked
<1>4. /\ events \in Seq(JobEventTypes)
      /\ events # <<>>
      /\ events[Len(events)] = IF exhausted THEN "dead" ELSE e
  BY <1>1, FailureLog
<1>5. /\ row.state = IF exhausted THEN "dead" ELSE "queued"
      /\ row.attempts = jobs[j].attempts + 1
      /\ row.finished_at = t
      /\ row.locked_by = NULL /\ row.locked_pid = NULL /\ row.heartbeat_at = NULL
      /\ ~exhausted => row.next_run_at = t + backoff_seconds(row.attempts)
  BY <1>1 DEF JobRow, Requeued, Unlocked
<1>6. LockedRow(row)
  BY <1>5 DEF LockedRow
<1>7. BackedOff(row)
  BY <1>1, <1>5 DEF BackedOff
<1>8. LogAgrees(row, events)
  BY <1>1, <1>4, <1>5 DEF LogAgrees, StateAfter
<1> QED
  BY <1>3, <1>4, <1>6, <1>7, <1>8 DEF GoodJob

\* record_failure dead-letters exactly when the retry budget is used up.
LEMMA FailurePreserves ==
    ASSUME StoreInv, NEW j \in JobIds, NEW no, NEW w, NEW pid,
           NEW reason \in {"process_exit", "timeout", "spawn_failed"},
           record_failure(j, no, w, pid, reason, clock)
    PROVE  StoreInv'
<1> DEFINE exhausted == RetriesExhausted(jobs[j])
           row == Requeued(jobs[j], exhausted, jobs[j].attempts + 1, jobs[j].crashes, clock)
           events == log[j] \o FailureEvents(FailureKind(reason), exhausted)
           tries == CloseOne(j, no, FailureKind(reason), reason)
<1>1. /\ jobs[j] \in JobRow /\ clock \in Time
      /\ jobs[j].attempts \in Nat /\ jobs[j].crashes \in Nat
      /\ jobs[j].spec.max_retries \in Nat /\ jobs[j].spec.max_crashes \in Nat \cup {NULL}
      /\ WithinBudget(jobs[j]) /\ jobs[j].state = "running"
      /\ exhausted \in BOOLEAN
  BY RowFacts, SpecsAssumption DEF JobRow, GoodJob, record_failure, Owns, RetriesExhausted
<1>2. FailureKind(reason) \in {"failed", "timed_out", "reaped"}
  BY DEF FailureKind
<1>3. row \in JobRow /\ events \in Seq(JobEventTypes)
      /\ (WithinBudget(row) => GoodJob(row, events))
  BY <1>1, <1>2, RequeuedGood
<1>4. WithinBudget(row)
  <2>1. /\ row.state = IF exhausted THEN "dead" ELSE "queued"
        /\ row.attempts = jobs[j].attempts + 1 /\ row.crashes = jobs[j].crashes
        /\ row.spec = jobs[j].spec
    BY <1>1 DEF JobRow, Requeued, Unlocked
  <2> QED
    BY <1>1, <2>1 DEF WithinBudget, RetriesExhausted
<1>5. tries \in Seq(AttemptRow)
  BY CloseType DEF StoreInv, AttemptStates, FailureReasons, FailureKind
<1>6. /\ jobs' = [jobs EXCEPT ![j] = row] /\ attempts' = [attempts EXCEPT ![j] = tries]
      /\ log' = [log EXCEPT ![j] = events] /\ UNCHANGED <<clock, lastId>>
  BY DEF record_failure
<1> QED
  BY <1>3, <1>4, <1>5, <1>6, UpdateRow

\* reap dead-letters exactly when the crash budget is used up.
LEMMA ReapPreserves ==
    ASSUME StoreInv, NEW j \in JobIds, NEW pid, NEW cutoff, NEW t \in Time,
           reap(j, pid, cutoff, t)
    PROVE  StoreInv'
<1> DEFINE max == jobs[j].spec.max_crashes
           exhausted == CrashesExhausted(jobs[j])
           row == Requeued(jobs[j], exhausted, jobs[j].attempts + 1,
                           jobs[j].crashes + 1, t)
           events == log[j] \o FailureEvents("reaped", exhausted)
           tries == CloseRunning(j, "abandoned", "worker_crash")
<1>1. /\ jobs[j] \in JobRow
      /\ jobs[j].attempts \in Nat /\ jobs[j].crashes \in Nat
      /\ jobs[j].spec.max_retries \in Nat /\ max \in Nat \cup {NULL}
      /\ WithinBudget(jobs[j]) /\ jobs[j].state = "running"
      /\ exhausted \in BOOLEAN
  BY RowFacts, SpecsAssumption DEF JobRow, GoodJob, reap, Reapable, Stale, CrashesExhausted
<1>2. jobs[j].crashes + 1 \in Nat
  BY <1>1
<1>3. row \in JobRow /\ events \in Seq(JobEventTypes)
      /\ (WithinBudget(row) => GoodJob(row, events))
  <2> HIDE DEF exhausted
  <2> QED
    BY <1>1, <1>2, RequeuedGood
<1>4. WithinBudget(row)
  <2>1. /\ row.state = IF exhausted THEN "dead" ELSE "queued"
        /\ row.attempts = jobs[j].attempts + 1 /\ row.crashes = jobs[j].crashes + 1
        /\ row.spec = jobs[j].spec
    BY <1>1 DEF JobRow, Requeued, Unlocked
  <2> QED
    BY <1>1, <2>1 DEF WithinBudget, CrashesExhausted
<1>5. tries \in Seq(AttemptRow)
  BY CloseType DEF StoreInv, AttemptStates, FailureReasons
<1>6. /\ jobs' = [jobs EXCEPT ![j] = row] /\ attempts' = [attempts EXCEPT ![j] = tries]
      /\ log' = [log EXCEPT ![j] = events] /\ UNCHANGED <<clock, lastId>>
  BY DEF reap
<1> QED
  BY <1>3, <1>4, <1>5, <1>6, UpdateRow

-----------------------------------------------------------------------------
(* The theorems                                                            *)

\* Every step of the store, by whatever caller, preserves the invariant.
LEMMA StoreStep == StoreInv /\ [StoreNext]_storeVars => StoreInv'
<1> SUFFICES ASSUME StoreInv, [StoreNext]_storeVars PROVE StoreInv'
  OBVIOUS
<1>1. CASE UNCHANGED storeVars
  BY <1>1 DEF storeVars, StoreInv, TypeOK, LockInv, BudgetInv, BackoffInv, LogInv, JobIds
<1>2. CASE Tick
  BY <1>2 DEF Tick, StoreInv, TypeOK, LockInv, BudgetInv, BackoffInv, LogInv, JobIds
<1>3. CASE ClientNext
  BY <1>3, AddPreserves, CancelPreserves, RetryPreserves, PrunePreserves DEF ClientNext
<1>4. CASE WorkerNext
  <2>1. PICK j \in JobIds, w \in WorkerIds, pid \in Pids :
          \/ \E lane \in Lanes : claim_next(j, w, pid, lane, clock)
          \/ update_heartbeat(j, w, pid, clock)
          \/ \E no \in DOMAIN attempts[j] :
                \/ record_success(j, no, w, pid, clock)
                \/ \E reason \in {"process_exit", "timeout", "spawn_failed"} :
                      record_failure(j, no, w, pid, reason, clock)
          \/ \E t \in 0..clock : reap(j, pid, t - REAP_THRESHOLD, t)
    BY <1>4 DEF WorkerNext
  <2>2. \A t \in 0..clock : t \in Time
    BY DEF StoreInv, TypeOK, Time
  <2> QED
    BY <2>1, <2>2, ClaimPreserves, HeartbeatPreserves, SuccessPreserves,
       FailurePreserves, ReapPreserves
<1> QED
  BY <1>1, <1>2, <1>3, <1>4 DEF StoreNext

\* Whatever workers, reapers and clients call and in whatever order: rows
\* keep their types, a job is running exactly while it is locked, both retry
\* budgets are exact, a failed job waits out its backoff, and the event log
\* agrees with the row.
THEOREM StoreIsSafe == StoreSpec => []StoreInv
<1>1. StoreInit => StoreInv
  BY DEF StoreInit, StoreInv, TypeOK, LockInv, BudgetInv, BackoffInv, LogInv, JobIds
<1> QED
  BY <1>1, StoreStep, PTL DEF StoreSpec

\* The type invariant on its own.
THEOREM StoreTypes == StoreSpec => []TypeOK
<1>1. StoreInv => TypeOK
  BY DEF StoreInv
<1> QED
  BY <1>1, StoreIsSafe, PTL

\* A job is locked exactly while it runs.
THEOREM LocksMatchState == StoreSpec => []LockInv
<1>1. StoreInv => LockInv
  BY DEF StoreInv
<1> QED
  BY <1>1, StoreIsSafe, PTL

\* A job dies on the failure or the crash after its last allowed one.
THEOREM BudgetsAreExact == StoreSpec => []BudgetInv
<1>1. StoreInv => BudgetInv
  BY DEF StoreInv
<1> QED
  BY <1>1, StoreIsSafe, PTL

\* A job that failed waits out its backoff.
THEOREM BackoffIsServed == StoreSpec => []BackoffInv
<1>1. StoreInv => BackoffInv
  BY DEF StoreInv
<1> QED
  BY <1>1, StoreIsSafe, PTL

\* The last event of a job tells its state.
THEOREM LogTellsTheState == StoreSpec => []LogInv
<1>1. StoreInv => LogInv
  BY DEF StoreInv
<1> QED
  BY <1>1, StoreIsSafe, PTL

-----------------------------------------------------------------------------
(* What a step never does                                                  *)

\* The closed attempts in old are in new, unchanged.
ClosedKept(old, new) ==
    \A n \in DOMAIN old :
        old[n].state # "running" => n \in DOMAIN new /\ new[n] = old[n]

\* A step that touches one job keeps closed attempts if the new attempts of
\* that job do.
LEMMA TouchKeeps ==
    ASSUME StoreInv, NEW j \in JobIds, NEW tries,
           JobIds' = JobIds,
           attempts' = [attempts EXCEPT ![j] = tries],
           ClosedKept(attempts[j], tries)
    PROVE  KeepsClosedAttempts
<1>1. attempts \in [JobIds -> Seq(AttemptRow)]
  BY DEF StoreInv, TypeOK
<1>2. \A i \in JobIds : ClosedKept(attempts[i], attempts'[i])
  BY <1>1 DEF ClosedKept
<1> QED
  BY <1>2 DEF KeepsClosedAttempts, ClosedKept

\* Closing open attempts leaves the closed ones alone.
LEMMA CloseKeeps ==
    ASSUME NEW j, NEW no, NEW state, NEW reason
    PROVE  /\ ClosedKept(attempts[j], attempts[j])
           /\ ClosedKept(attempts[j], CloseRunning(j, state, reason))
           /\ ClosedKept(attempts[j], CloseOne(j, no, state, reason))
<1>1. ClosedKept(attempts[j], attempts[j])
  BY DEF ClosedKept
<1>2. ClosedKept(attempts[j], CloseRunning(j, state, reason))
  BY DEF CloseRunning, ClosedKept
<1>3. ClosedKept(attempts[j], CloseOne(j, no, state, reason))
  BY DEF CloseOne, ClosedKept
<1> QED
  BY <1>1, <1>2, <1>3

\* Nothing a client does rewrites history or touches a done job.
LEMMA ClientKeepsHistory == StoreInv /\ ClientNext => KeepsClosedAttempts
<1> SUFFICES ASSUME StoreInv, ClientNext PROVE KeepsClosedAttempts
  OBVIOUS
<1>1. ASSUME NEW s \in Specs, NEW delay \in Delays, add_job_checked(s, delay, clock)
      PROVE  KeepsClosedAttempts
  BY <1>1 DEF StoreInv, TypeOK, KeepsClosedAttempts, add_job_checked, JobIds
<1>2. ASSUME NEW j \in JobIds, NEW allow \in BOOLEAN, cancel_job(j, allow, clock)
      PROVE  KeepsClosedAttempts
  <2>1. JobIds' = JobIds
    BY <1>2 DEF cancel_job, JobIds
  <2>2. \/ attempts' = [attempts EXCEPT ![j] = attempts[j]]
        \/ attempts' = [attempts EXCEPT ![j] = CloseRunning(j, "canceled", "canceled")]
    BY <1>2 DEF cancel_job, StoreInv, TypeOK
  <2> QED
    BY <2>1, <2>2, TouchKeeps, CloseKeeps
<1>3. ASSUME NEW j \in JobIds, NEW force \in BOOLEAN, retry_job(j, force, clock)
      PROVE  KeepsClosedAttempts
  <2>1. JobIds' = JobIds
    BY <1>3 DEF retry_job, JobIds
  <2>2. \/ attempts' = [attempts EXCEPT ![j] = attempts[j]]
        \/ attempts' = [attempts EXCEPT ![j] = CloseRunning(j, "abandoned", "canceled")]
    BY <1>3 DEF retry_job, StoreInv, TypeOK
  <2> QED
    BY <2>1, <2>2, TouchKeeps, CloseKeeps
<1>4. ASSUME NEW ids, NEW states, NEW cutoff, prune_delete(ids, states, cutoff)
      PROVE  KeepsClosedAttempts
  BY <1>4 DEF KeepsClosedAttempts, prune_delete, JobIds
<1> QED
  BY <1>1, <1>2, <1>3, <1>4 DEF ClientNext

\* Nor does a worker.
LEMMA WorkerKeepsHistory == StoreInv /\ WorkerNext => KeepsClosedAttempts
<1> SUFFICES ASSUME StoreInv, WorkerNext PROVE KeepsClosedAttempts
  OBVIOUS
<1>1. ASSUME NEW j \in JobIds, NEW w, NEW pid, NEW lane,
             claim_next(j, w, pid, lane, clock)
      PROVE  KeepsClosedAttempts
  <2> DEFINE new == NextAttemptNo(j)
             try == [worker_id |-> w, worker_pid |-> pid,
                     state |-> "running", failure_reason |-> NULL]
             tries == [n \in DOMAIN attempts[j] \cup {new} |->
                         IF n = new THEN try ELSE attempts[j][n]]
  <2>1. JobIds' = JobIds
    BY <1>1 DEF claim_next, JobIds
  <2>2. attempts' = [attempts EXCEPT ![j] = tries]
    BY <1>1 DEF claim_next
  <2>3. new \notin DOMAIN attempts[j]
    BY NextAttemptNoIsLen DEF StoreInv
  <2>4. ClosedKept(attempts[j], tries)
    BY <2>3 DEF ClosedKept
  <2> HIDE DEF tries
  <2> QED
    BY <2>1, <2>2, <2>4, TouchKeeps
<1>2. ASSUME NEW j, NEW w, NEW pid, update_heartbeat(j, w, pid, clock)
      PROVE  KeepsClosedAttempts
  BY <1>2 DEF update_heartbeat, KeepsClosedAttempts
<1>3. ASSUME NEW j \in JobIds, NEW w, NEW pid, NEW no,
             record_success(j, no, w, pid, clock)
      PROVE  KeepsClosedAttempts
  <2> DEFINE tries == CloseOne(j, no, "succeeded", NULL)
  <2>1. JobIds' = JobIds
    BY <1>3 DEF record_success, JobIds
  <2>2. attempts' = [attempts EXCEPT ![j] = tries]
    BY <1>3 DEF record_success
  <2>3. ClosedKept(attempts[j], tries)
    BY CloseKeeps
  <2> HIDE DEF tries
  <2> QED
    BY <2>1, <2>2, <2>3, TouchKeeps
<1>4. ASSUME NEW j \in JobIds, NEW w, NEW pid, NEW no, NEW reason,
             record_failure(j, no, w, pid, reason, clock)
      PROVE  KeepsClosedAttempts
  <2> DEFINE tries == CloseOne(j, no, FailureKind(reason), reason)
  <2>1. JobIds' = JobIds
    BY <1>4 DEF record_failure, JobIds
  <2>2. attempts' = [attempts EXCEPT ![j] = tries]
    BY <1>4 DEF record_failure
  <2>3. ClosedKept(attempts[j], tries)
    BY CloseKeeps
  <2> HIDE DEF tries
  <2> QED
    BY <2>1, <2>2, <2>3, TouchKeeps
<1>5. ASSUME NEW j \in JobIds, NEW pid, NEW t, NEW cutoff, reap(j, pid, cutoff, t)
      PROVE  KeepsClosedAttempts
  <2> DEFINE tries == CloseRunning(j, "abandoned", "worker_crash")
  <2>1. JobIds' = JobIds
    BY <1>5 DEF reap, JobIds
  <2>2. attempts' = [attempts EXCEPT ![j] = tries]
    BY <1>5 DEF reap
  <2>3. ClosedKept(attempts[j], tries)
    BY CloseKeeps
  <2> HIDE DEF tries
  <2> QED
    BY <2>1, <2>2, <2>3, TouchKeeps
<1> QED
  BY <1>1, <1>2, <1>3, <1>4, <1>5 DEF WorkerNext

\* No transaction rewrites or renumbers an attempt that has ended.
THEOREM HistoryIsImmutable == StoreSpec => ClosedAttemptsFrozen
<1>1. StoreInv /\ [StoreNext]_storeVars => [KeepsClosedAttempts]_storeVars
  <2>1. StoreInv /\ Tick => KeepsClosedAttempts
    BY DEF Tick, KeepsClosedAttempts
  <2> QED
    BY <2>1, ClientKeepsHistory, WorkerKeepsHistory DEF StoreNext
<1> QED
  BY <1>1, StoreIsSafe, PTL DEF StoreSpec, ClosedAttemptsFrozen

\* A job that is done stays as it is until it is deleted, and no new job
\* takes the id of a deleted one.
THEOREM FinishedIsFinal == StoreSpec => DoneIsFinal
<1>1. StoreInv /\ ClientNext => KeepsDone
  <2> SUFFICES ASSUME StoreInv, ClientNext PROVE KeepsDone
    OBVIOUS
  <2>1. ASSUME NEW s \in Specs, NEW delay \in Delays, add_job_checked(s, delay, clock)
        PROVE  KeepsDone
    BY <2>1 DEF StoreInv, TypeOK, KeepsDone, add_job_checked, JobIds
  <2>2. ASSUME NEW j \in JobIds, NEW allow \in BOOLEAN, cancel_job(j, allow, clock)
        PROVE  KeepsDone
    BY <2>2 DEF StoreInv, TypeOK, KeepsDone, cancel_job, JobIds
  <2>3. ASSUME NEW j \in JobIds, NEW force \in BOOLEAN, retry_job(j, force, clock)
        PROVE  KeepsDone
    BY <2>3 DEF StoreInv, TypeOK, KeepsDone, retry_job, Retryable, JobIds
  <2>4. ASSUME NEW ids, NEW states, NEW cutoff, prune_delete(ids, states, cutoff)
        PROVE  KeepsDone
    BY <2>4 DEF KeepsDone, prune_delete, JobIds
  <2> QED
    BY <2>1, <2>2, <2>3, <2>4 DEF ClientNext
<1>2. StoreInv /\ WorkerNext => KeepsDone
  <2> SUFFICES ASSUME StoreInv, WorkerNext PROVE KeepsDone
    OBVIOUS
  <2>1. ASSUME NEW j \in JobIds, NEW row, NEW events,
               jobs[j].state # "done",
               jobs' = [jobs EXCEPT ![j] = row], log' = [log EXCEPT ![j] = events]
        PROVE  KeepsDone
    BY <2>1 DEF StoreInv, TypeOK, KeepsDone, JobIds
  <2>2. ASSUME NEW j \in JobIds, NEW w, NEW pid, NEW lane, claim_next(j, w, pid, lane, clock)
        PROVE  KeepsDone
    BY <2>1, <2>2 DEF claim_next, CanClaim, Claimable, Due
  <2>3. ASSUME NEW j \in JobIds, NEW w, NEW pid, update_heartbeat(j, w, pid, clock)
        PROVE  KeepsDone
    <3>1. /\ jobs[j].state # "done"
          /\ jobs' = [jobs EXCEPT ![j] = [jobs[j] EXCEPT !.heartbeat_at = clock]]
          /\ log' = [log EXCEPT ![j] = log[j]]
      BY <2>3 DEF update_heartbeat, Owns, StoreInv, TypeOK
    <3> QED
      BY <2>1, <3>1
  <2>4. ASSUME NEW j \in JobIds, NEW w, NEW pid, NEW no, record_success(j, no, w, pid, clock)
        PROVE  KeepsDone
    BY <2>1, <2>4 DEF record_success, Owns
  <2>5. ASSUME NEW j \in JobIds, NEW w, NEW pid, NEW no, NEW reason,
               record_failure(j, no, w, pid, reason, clock)
        PROVE  KeepsDone
    BY <2>1, <2>5 DEF record_failure, Owns
  <2>6. ASSUME NEW j \in JobIds, NEW pid, NEW cutoff, NEW t, reap(j, pid, cutoff, t)
        PROVE  KeepsDone
    BY <2>1, <2>6 DEF reap, Reapable, Stale
  <2> QED
    BY <2>2, <2>3, <2>4, <2>5, <2>6 DEF WorkerNext
<1>3. StoreInv /\ [StoreNext]_storeVars => [KeepsDone]_storeVars
  <2>1. Tick => KeepsDone
    BY DEF Tick, KeepsDone, JobIds
  <2> QED
    BY <1>1, <1>2, <2>1 DEF StoreNext
<1> QED
  BY <1>3, StoreIsSafe, PTL DEF StoreSpec, DoneIsFinal
=============================================================================
