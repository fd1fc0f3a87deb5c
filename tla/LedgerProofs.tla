---------------------------- MODULE LedgerProofs ----------------------------
(***************************************************************************)
(* What the store's three tables say of each other: the budget counters    *)
(* and the attempt rows against the event log, the slot ceiling of a lane  *)
(* and the holders of an idempotency key.  A transaction that is neither   *)
(* add_job_checked nor prune_delete touches one job, in one of five ways   *)
(* (Kind): it ends the job, retries it, claims it, beats its heart or      *)
(* charges it a failure.  StepKinds proves that once; every invariant is   *)
(* then an argument about the five kinds and no longer about transactions. *)
(* The last part proves that a page of list counts right.                  *)
(***************************************************************************)
EXTENDS Reports, StoreProofs, FiniteSetTheorems

\* The step rewrites job j, and no column that is set at submission.
Touches(j, row, tries, events) ==
    /\ row.spec = jobs[j].spec
    /\ jobs' = [jobs EXCEPT ![j] = row]
    /\ attempts' = [attempts EXCEPT ![j] = tries]
    /\ log' = [log EXCEPT ![j] = events]
    /\ UNCHANGED lastId

SameCounters(j, row) ==
    row.attempts = jobs[j].attempts /\ row.crashes = jobs[j].crashes

\* cancel_job and record_success.
Finishes(j, row, tries, events) ==
    /\ row.state \notin ActiveStates
    /\ SameCounters(j, row)
    /\ Len(tries) = Len(attempts[j])
    /\ \E e \in {"canceled", "succeeded"} : events = Append(log[j], e)

\* retry_job.
Retries(j, row, tries, events) ==
    /\ row.state = "queued"
    /\ row.attempts = 0 /\ row.crashes = 0
    /\ Len(tries) = Len(attempts[j])
    /\ events = Append(log[j], "retried")

\* claim_next.
Claims(j, row, tries, events) ==
    /\ jobs[j].state = "queued"
    /\ row.state = "running"
    /\ Slots # NULL => Cardinality(Running(jobs[j].spec.queue)) < Slots
    /\ SameCounters(j, row)
    /\ Len(tries) = Len(attempts[j]) + 1
    /\ events = Append(log[j], "claimed")

\* update_heartbeat.
Beats(j, row, tries, events) ==
    /\ row.state = jobs[j].state
    /\ SameCounters(j, row)
    /\ tries = attempts[j]
    /\ events = log[j]

\* record_failure and reap.
Charges(j, row, tries, events) ==
    \E e \in {"failed", "timed_out", "reaped"} :
        /\ jobs[j].state = "running"
        /\ row.state \in {"queued", "dead"}
        /\ row.attempts = jobs[j].attempts + 1
        /\ row.crashes = IF e = "reaped" THEN jobs[j].crashes + 1 ELSE jobs[j].crashes
        /\ Len(tries) = Len(attempts[j])
        /\ \/ events = Append(log[j], e)
           \/ events = Append(Append(log[j], e), "dead")

Kind(j, row, tries, events) ==
    \/ Finishes(j, row, tries, events)
    \/ Retries(j, row, tries, events)
    \/ Claims(j, row, tries, events)
    \/ Beats(j, row, tries, events)
    \/ Charges(j, row, tries, events)

\* The step touches one job in one of the five ways.
TouchesOne ==
    \E j \in JobIds : \E row, tries, events :
        Touches(j, row, tries, events) /\ Kind(j, row, tries, events)

-----------------------------------------------------------------------------
(* Every transaction is of a kind                                          *)

\* A function on 1..n is a sequence of length n.
LEMMA FunctionLen ==
    ASSUME NEW n \in Nat, NEW f, f = [i \in 1..n |-> f[i]]
    PROVE  Len(f) = n
<1> DEFINE S == {f[i] : i \in 1..n}
<1>1. f \in [1..n -> S]
  OBVIOUS
<1>2. f \in Seq(S) /\ DOMAIN f = 1..n
  BY <1>1, FunctionIsSeq
<1> QED
  BY <1>2

\* Closing attempt rows neither adds nor removes one.
LEMMA CloseLen ==
    ASSUME TypeOK, NEW j \in JobIds, NEW no, NEW state, NEW reason
    PROVE  /\ Len(CloseRunning(j, state, reason)) = Len(attempts[j])
           /\ Len(CloseOne(j, no, state, reason)) = Len(attempts[j])
<1> DEFINE n == Len(attempts[j])
           f == CloseRunning(j, state, reason)
           g == CloseOne(j, no, state, reason)
<1>1. n \in Nat /\ DOMAIN attempts[j] = 1..n
  BY DEF TypeOK
<1>2. f = [i \in 1..n |-> f[i]]
  BY <1>1 DEF CloseRunning
<1>3. g = [i \in 1..n |-> g[i]]
  BY <1>1 DEF CloseOne
<1> HIDE DEF f, g, n
<1>4. Len(f) = n /\ Len(g) = n
  BY <1>1, <1>2, <1>3, FunctionLen
<1> QED
  BY <1>4 DEF f, g, n

\* A failure appends its event and, if it was the last one, "dead".
LEMMA FailureAppends ==
    ASSUME NEW events \in Seq(JobEventTypes), NEW e \in JobEventTypes, NEW exhausted \in BOOLEAN
    PROVE  \/ events \o FailureEvents(e, exhausted) = Append(events, e)
           \/ events \o FailureEvents(e, exhausted) = Append(Append(events, e), "dead")
<1>1. events \o <<e>> = Append(events, e)
  OBVIOUS
<1>2. events \o <<e, "dead">> = Append(Append(events, e), "dead")
  OBVIOUS
<1> QED
  BY <1>1, <1>2 DEF FailureEvents

\* cancel_job ends the job.
LEMMA CancelKind ==
    ASSUME StoreInv, NEW j \in JobIds, NEW allow_running \in BOOLEAN,
           cancel_job(j, allow_running, clock)
    PROVE  TouchesOne
<1> DEFINE events == Append(log[j], "canceled")
<1>1. jobs[j] \in JobRow
  BY RowFacts
<1>2. CASE jobs[j].state = "queued"
  <2> DEFINE row == [jobs[j] EXCEPT !.state = "canceled", !.finished_at = clock]
  <2>1. jobs' = [jobs EXCEPT ![j] = row] /\ attempts' = [attempts EXCEPT ![j] = attempts[j]]
    BY <1>1, <1>2 DEF cancel_job, StoreInv, TypeOK
  <2>2. row.state = "canceled" /\ SameCounters(j, row) /\ row.spec = jobs[j].spec
    BY <1>1 DEF JobRow, SameCounters
  <2>3. Touches(j, row, attempts[j], events)
    BY <2>1, <2>2 DEF Touches, cancel_job
  <2>4. Finishes(j, row, attempts[j], events)
    BY <2>2 DEF Finishes, ActiveStates
  <2> HIDE DEF row, events
  <2> QED
    BY <2>3, <2>4 DEF TouchesOne, Kind
<1>3. CASE jobs[j].state = "running"
  <2> DEFINE row == [Unlocked(jobs[j]) EXCEPT !.state = "canceled", !.finished_at = clock]
             tries == CloseRunning(j, "canceled", "canceled")
  <2>1. jobs' = [jobs EXCEPT ![j] = row] /\ attempts' = [attempts EXCEPT ![j] = tries]
    BY <1>3 DEF cancel_job
  <2>2. row.state = "canceled" /\ SameCounters(j, row) /\ row.spec = jobs[j].spec
    BY <1>1 DEF JobRow, SameCounters, Unlocked
  <2>3. Touches(j, row, tries, events)
    BY <2>1, <2>2 DEF Touches, cancel_job
  <2>4. Len(tries) = Len(attempts[j])
    BY CloseLen DEF StoreInv
  <2>5. Finishes(j, row, tries, events)
    BY <2>2, <2>4 DEF Finishes, ActiveStates
  <2> HIDE DEF row, tries, events
  <2> QED
    BY <2>3, <2>5 DEF TouchesOne, Kind
<1> QED
  BY <1>2, <1>3 DEF cancel_job

\* retry_job retries it.
LEMMA RetryKind ==
    ASSUME StoreInv, NEW j \in JobIds, NEW force \in BOOLEAN,
           retry_job(j, force, clock)
    PROVE  TouchesOne
<1> DEFINE events == Append(log[j], "retried")
           row == FreshBudget(jobs[j], clock)
           tries == IF force THEN CloseRunning(j, "abandoned", "canceled")
                             ELSE attempts[j]
<1>1. jobs[j] \in JobRow
  BY RowFacts
<1>2. /\ row.state = "queued" /\ row.attempts = 0 /\ row.crashes = 0
      /\ row.spec = jobs[j].spec
  BY <1>1 DEF JobRow, FreshBudget, Unlocked
<1>3. jobs' = [jobs EXCEPT ![j] = row] /\ attempts' = [attempts EXCEPT ![j] = tries]
  BY DEF retry_job, StoreInv, TypeOK
<1>4. Len(tries) = Len(attempts[j])
  BY CloseLen DEF StoreInv
<1>5. Touches(j, row, tries, events)
  BY <1>2, <1>3 DEF Touches, retry_job
<1>6. Retries(j, row, tries, events)
  BY <1>2, <1>4 DEF Retries
<1> HIDE DEF row, tries, events
<1> QED
  BY <1>5, <1>6 DEF TouchesOne, Kind

\* claim_next claims it.
LEMMA ClaimTouches ==
    ASSUME StoreInv, NEW j \in JobIds, NEW w, NEW pid, NEW lane,
           claim_next(j, w, pid, lane, clock)
    PROVE  TouchesOne
<1> DEFINE events == Append(log[j], "claimed")
           row == [jobs[j] EXCEPT !.state = "running", !.locked_by = w,
                                  !.locked_pid = pid, !.heartbeat_at = clock]
           try == [worker_id |-> w, worker_pid |-> pid,
                   state |-> "running", failure_reason |-> NULL]
           tries == [n \in DOMAIN attempts[j] \cup {NextAttemptNo(j)} |->
                       IF n = NextAttemptNo(j) THEN try ELSE attempts[j][n]]
<1>1. jobs[j] \in JobRow
  BY RowFacts
<1>2. /\ jobs[j].state = "queued" /\ jobs[j].spec.queue = lane
      /\ Slots # NULL => Cardinality(Running(lane)) < Slots
  BY DEF claim_next, CanClaim, Claimable, Due
<1>3. row.state = "running" /\ SameCounters(j, row) /\ row.spec = jobs[j].spec
  BY <1>1 DEF JobRow, SameCounters
<1>4. jobs' = [jobs EXCEPT ![j] = row] /\ attempts' = [attempts EXCEPT ![j] = tries]
  BY DEF claim_next
<1>5. Len(tries) = Len(attempts[j]) + 1
  <2> DEFINE m == Len(attempts[j]) + 1
  <2>1. m \in Nat /\ NextAttemptNo(j) = m /\ DOMAIN attempts[j] = 1..(m - 1)
    BY NextAttemptNoIsLen DEF StoreInv
  <2>2. DOMAIN attempts[j] \cup {m} = 1..m
    BY <2>1
  <2>3. tries = [i \in 1..m |-> tries[i]]
    BY <2>1, <2>2
  <2> HIDE DEF tries, m
  <2>4. Len(tries) = m
    BY <2>1, <2>3, FunctionLen
  <2> QED
    BY <2>4 DEF m
<1>6. Touches(j, row, tries, events)
  BY <1>3, <1>4 DEF Touches, claim_next
<1> HIDE DEF tries
<1>7. Claims(j, row, tries, events)
  BY <1>2, <1>3, <1>5 DEF Claims
<1> HIDE DEF row, events
<1> QED
  BY <1>6, <1>7 DEF TouchesOne, Kind

\* update_heartbeat beats.
LEMMA HeartbeatKind ==
    ASSUME StoreInv, NEW j \in JobIds, NEW w, NEW pid,
           update_heartbeat(j, w, pid, clock)
    PROVE  TouchesOne
<1> DEFINE row == [jobs[j] EXCEPT !.heartbeat_at = clock]
<1>1. jobs[j] \in JobRow
  BY RowFacts
<1>2. row.state = jobs[j].state /\ SameCounters(j, row) /\ row.spec = jobs[j].spec
  BY <1>1 DEF JobRow, SameCounters
<1>3. /\ jobs' = [jobs EXCEPT ![j] = row]
      /\ attempts' = [attempts EXCEPT ![j] = attempts[j]]
      /\ log' = [log EXCEPT ![j] = log[j]]
  BY DEF update_heartbeat, StoreInv, TypeOK
<1>4. Touches(j, row, attempts[j], log[j])
  BY <1>2, <1>3 DEF Touches, update_heartbeat
<1>5. Beats(j, row, attempts[j], log[j])
  BY <1>2 DEF Beats
<1> HIDE DEF row
<1> QED
  BY <1>4, <1>5 DEF TouchesOne, Kind

\* record_success ends it.
LEMMA SuccessKind ==
    ASSUME StoreInv, NEW j \in JobIds, NEW no, NEW w, NEW pid,
           record_success(j, no, w, pid, clock)
    PROVE  TouchesOne
<1> DEFINE events == Append(log[j], "succeeded")
           row == [Unlocked(jobs[j]) EXCEPT !.state = "done", !.finished_at = clock]
           tries == CloseOne(j, no, "succeeded", NULL)
<1>1. jobs[j] \in JobRow
  BY RowFacts
<1>2. row.state = "done" /\ SameCounters(j, row) /\ row.spec = jobs[j].spec
  BY <1>1 DEF JobRow, SameCounters, Unlocked
<1>3. jobs' = [jobs EXCEPT ![j] = row] /\ attempts' = [attempts EXCEPT ![j] = tries]
  BY DEF record_success
<1>4. Len(tries) = Len(attempts[j])
  BY CloseLen DEF StoreInv
<1>5. Touches(j, row, tries, events)
  BY <1>2, <1>3 DEF Touches, record_success
<1>6. Finishes(j, row, tries, events)
  BY <1>2, <1>4 DEF Finishes, ActiveStates
<1> HIDE DEF row, tries, events
<1> QED
  BY <1>5, <1>6 DEF TouchesOne, Kind

\* record_failure charges a failure.
LEMMA FailureKindOf ==
    ASSUME StoreInv, NEW j \in JobIds, NEW no, NEW w, NEW pid, NEW reason,
           record_failure(j, no, w, pid, reason, clock)
    PROVE  TouchesOne
<1> DEFINE exhausted == RetriesExhausted(jobs[j])
           e == FailureKind(reason)
           row == Requeued(jobs[j], exhausted, jobs[j].attempts + 1, jobs[j].crashes, clock)
           events == log[j] \o FailureEvents(e, exhausted)
           tries == CloseOne(j, no, e, reason)
<1>1. jobs[j] \in JobRow /\ log[j] \in Seq(JobEventTypes) /\ jobs[j].state = "running"
  BY RowFacts DEF record_failure, Owns
<1>2. e \in {"failed", "timed_out"} /\ e \in JobEventTypes /\ exhausted \in BOOLEAN
  BY DEF FailureKind, JobEventTypes, RetriesExhausted
<1>3. /\ row.state \in {"queued", "dead"}
      /\ row.attempts = jobs[j].attempts + 1 /\ row.crashes = jobs[j].crashes
      /\ row.spec = jobs[j].spec
  <2> HIDE DEF exhausted
  <2> QED
    BY <1>1 DEF JobRow, Requeued, Unlocked
<1>4. jobs' = [jobs EXCEPT ![j] = row] /\ attempts' = [attempts EXCEPT ![j] = tries]
      /\ log' = [log EXCEPT ![j] = events] /\ UNCHANGED lastId
  BY DEF record_failure
<1>5. Len(tries) = Len(attempts[j])
  BY CloseLen DEF StoreInv
<1>6. events = Append(log[j], e) \/ events = Append(Append(log[j], e), "dead")
  <2> HIDE DEF exhausted, e
  <2> QED
    BY <1>1, <1>2, FailureAppends
<1>7. Touches(j, row, tries, events)
  BY <1>3, <1>4 DEF Touches
<1> HIDE DEF row, tries, events, e
<1>8. Charges(j, row, tries, events)
  BY <1>1, <1>2, <1>3, <1>5, <1>6 DEF Charges
<1> QED
  BY <1>7, <1>8 DEF TouchesOne, Kind

\* reap charges a crash.
LEMMA ReapKind ==
    ASSUME StoreInv, NEW j \in JobIds, NEW pid, NEW cutoff, NEW t,
           reap(j, pid, cutoff, t)
    PROVE  TouchesOne
<1> DEFINE exhausted == CrashesExhausted(jobs[j])
           row == Requeued(jobs[j], exhausted, jobs[j].attempts + 1,
                           jobs[j].crashes + 1, t)
           events == log[j] \o FailureEvents("reaped", exhausted)
           tries == CloseRunning(j, "abandoned", "worker_crash")
<1>1. jobs[j] \in JobRow /\ log[j] \in Seq(JobEventTypes) /\ jobs[j].state = "running"
  BY RowFacts DEF reap, Reapable, Stale
<1>2. "reaped" \in JobEventTypes /\ exhausted \in BOOLEAN
  BY DEF JobEventTypes, CrashesExhausted
<1>3. /\ row.state \in {"queued", "dead"}
      /\ row.attempts = jobs[j].attempts + 1 /\ row.crashes = jobs[j].crashes + 1
      /\ row.spec = jobs[j].spec
  <2> HIDE DEF exhausted
  <2> QED
    BY <1>1 DEF JobRow, Requeued, Unlocked
<1>4. jobs' = [jobs EXCEPT ![j] = row] /\ attempts' = [attempts EXCEPT ![j] = tries]
      /\ log' = [log EXCEPT ![j] = events] /\ UNCHANGED lastId
  BY DEF reap
<1>5. Len(tries) = Len(attempts[j])
  BY CloseLen DEF StoreInv
<1>6. events = Append(log[j], "reaped") \/ events = Append(Append(log[j], "reaped"), "dead")
  <2> HIDE DEF exhausted
  <2> QED
    BY <1>1, <1>2, FailureAppends
<1>7. Touches(j, row, tries, events)
  BY <1>3, <1>4 DEF Touches
<1> HIDE DEF row, tries, events
<1>8. Charges(j, row, tries, events)
  BY <1>1, <1>3, <1>5, <1>6 DEF Charges
<1> QED
  BY <1>7, <1>8 DEF TouchesOne, Kind

\* A step that adds no job, deletes none and changes a table touches one job
\* in one of the five ways.
LEMMA StepKinds ==
    ASSUME StoreInv, StoreNext
    PROVE  \/ UNCHANGED <<lastId, jobs, attempts, log>>
           \/ \E s \in Specs, delay \in Delays : add_job_checked(s, delay, clock)
           \/ \E ids : prune_delete(ids, PrunableStates, clock)
           \/ TouchesOne
<1>1. CASE Tick
  BY <1>1 DEF Tick
<1>2. CASE ClientNext
  BY <1>2, CancelKind, RetryKind DEF ClientNext
<1>3. CASE WorkerNext
  <2>1. PICK j \in JobIds, w \in WorkerIds, pid \in Pids :
          \/ \E lane \in Lanes : claim_next(j, w, pid, lane, clock)
          \/ update_heartbeat(j, w, pid, clock)
          \/ \E no \in DOMAIN attempts[j] :
                \/ record_success(j, no, w, pid, clock)
                \/ \E reason \in {"process_exit", "timeout", "spawn_failed"} :
                      record_failure(j, no, w, pid, reason, clock)
          \/ \E t \in 0..clock : reap(j, pid, t - REAP_THRESHOLD, t)
    BY <1>3 DEF WorkerNext
  <2> QED
    BY <2>1, ClaimTouches, HeartbeatKind, SuccessKind, FailureKindOf, ReapKind
<1> QED
  BY <1>1, <1>2, <1>3 DEF StoreNext

\* What a touched store looks like.
LEMMA TouchedTables ==
    ASSUME StoreInv, NEW j \in JobIds, NEW row, NEW tries, NEW events,
           Touches(j, row, tries, events)
    PROVE  /\ JobIds' = JobIds
           /\ \A i \in JobIds : jobs'[i] = IF i = j THEN row ELSE jobs[i]
           /\ \A i \in JobIds : attempts'[i] = IF i = j THEN tries ELSE attempts[i]
           /\ \A i \in JobIds : log'[i] = IF i = j THEN events ELSE log[i]
  BY DEF StoreInv, TypeOK, Touches, JobIds

-----------------------------------------------------------------------------
(* Idempotency keys                                                        *)

RetriedIn(events) == \E i \in DOMAIN events : events[i] = "retried"

\* Appending keeps a "retried" event, or adds one.
LEMMA AppendRetried ==
    ASSUME NEW events \in Seq(JobEventTypes), NEW e \in JobEventTypes
    PROVE  RetriedIn(Append(events, e)) <=> RetriedIn(events) \/ e = "retried"
<1> DEFINE n == Len(events)
           new == Append(events, e)
<1>1. /\ n \in Nat /\ DOMAIN events = 1..n /\ DOMAIN new = 1..(n + 1)
      /\ \A i \in 1..n : new[i] = events[i]
      /\ new[n + 1] = e
  OBVIOUS
<1>2. 1..(n + 1) = 1..n \cup {n + 1}
  BY <1>1
<1> HIDE DEF n, new
<1>3. RetriedIn(new) <=> RetriedIn(events) \/ e = "retried"
  BY <1>1, <1>2 DEF RetriedIn
<1> QED
  BY <1>3 DEF new

\* A touch never takes a "retried" away, and it makes a job active only by
\* adding one.
LEMMA KindKeepsKeys ==
    ASSUME StoreInv, NEW j \in JobIds, NEW row, NEW tries, NEW events,
           Kind(j, row, tries, events)
    PROVE  /\ RetriedIn(log[j]) => RetriedIn(events)
           /\ row.state \in ActiveStates =>
                jobs[j].state \in ActiveStates \/ RetriedIn(events)
<1>1. log[j] \in Seq(JobEventTypes)
  BY RowFacts
<1>2. \A e \in JobEventTypes : Append(log[j], e) \in Seq(JobEventTypes)
  BY <1>1
<1>3. {"canceled", "succeeded", "retried", "claimed", "failed", "timed_out",
       "reaped", "dead"} \subseteq JobEventTypes
  BY DEF JobEventTypes
<1>4. CASE Finishes(j, row, tries, events)
  BY <1>1, <1>3, <1>4, AppendRetried DEF Finishes
<1>5. CASE Retries(j, row, tries, events)
  BY <1>1, <1>3, <1>5, AppendRetried DEF Retries
<1>6. CASE Claims(j, row, tries, events)
  BY <1>1, <1>3, <1>6, AppendRetried DEF Claims, ActiveStates
<1>7. CASE Beats(j, row, tries, events)
  BY <1>7 DEF Beats
<1>8. CASE Charges(j, row, tries, events)
  <2>1. PICK e \in {"failed", "timed_out", "reaped"} :
          events = Append(log[j], e) \/ events = Append(Append(log[j], e), "dead")
    BY <1>8 DEF Charges
  <2>2. e \in JobEventTypes /\ Append(log[j], e) \in Seq(JobEventTypes)
    BY <1>2, <1>3
  <2>3. RetriedIn(log[j]) => RetriedIn(Append(log[j], e))
    BY <1>1, <2>2, AppendRetried
  <2>4. RetriedIn(Append(log[j], e)) => RetriedIn(Append(Append(log[j], e), "dead"))
    BY <1>3, <2>2, AppendRetried
  <2>5. RetriedIn(log[j]) => RetriedIn(events)
    BY <2>1, <2>3, <2>4
  <2> QED
    BY <1>8, <2>5 DEF Charges, ActiveStates
<1> QED
  BY <1>4, <1>5, <1>6, <1>7, <1>8 DEF Kind

\* The keys survive a step that touches one job.
LEMMA TouchKeepsKeys ==
    ASSUME StoreInv, KeyInv, TouchesOne PROVE KeyInv'
<1>1. PICK j \in JobIds : \E row, tries, events :
        Touches(j, row, tries, events) /\ Kind(j, row, tries, events)
  BY DEF TouchesOne
<1>2. PICK row, tries, events :
        Touches(j, row, tries, events) /\ Kind(j, row, tries, events)
  BY <1>1
<1>3. /\ JobIds' = JobIds
      /\ \A i \in JobIds : jobs'[i] = IF i = j THEN row ELSE jobs[i]
      /\ \A i \in JobIds : log'[i] = IF i = j THEN events ELSE log[i]
  BY <1>2, TouchedTables
<1>4. /\ RetriedIn(log[j]) => RetriedIn(events)
      /\ row.state \in ActiveStates => jobs[j].state \in ActiveStates \/ RetriedIn(events)
      /\ row.spec = jobs[j].spec
  BY <1>2, KindKeepsKeys DEF Touches
<1>5. \A i \in JobIds : Retried(i) <=> RetriedIn(log[i])
  BY DEF Retried, RetriedIn
<1>6. \A i \in JobIds : Retried(i)' <=> RetriedIn(log'[i])
  BY DEF Retried, RetriedIn
<1>7. ASSUME NEW a \in JobIds, NEW b \in JobIds, a # b,
             {jobs'[a].state, jobs'[b].state} \subseteq ActiveStates,
             jobs'[a].spec.key = jobs'[b].spec.key, jobs'[a].spec.key # NULL
      PROVE  Retried(a)' \/ Retried(b)'
  <2>1. jobs'[a].spec = jobs[a].spec /\ jobs'[b].spec = jobs[b].spec
    BY <1>3, <1>4
  <2>2. \/ Retried(a)' \/ Retried(b)'
        \/ {jobs[a].state, jobs[b].state} \subseteq ActiveStates
    BY <1>3, <1>4, <1>6, <1>7
  <2>3. {jobs[a].state, jobs[b].state} \subseteq ActiveStates => Retried(a) \/ Retried(b)
    BY <1>7, <2>1 DEF KeyInv
  <2>4. (Retried(a) => Retried(a)') /\ (Retried(b) => Retried(b)')
    BY <1>3, <1>4, <1>5, <1>6
  <2> QED
    BY <2>2, <2>3, <2>4
<1> QED
  BY <1>3, <1>7 DEF KeyInv

\* A new job takes a key only if no active job holds it.
LEMMA AddKeepsKeys ==
    ASSUME StoreInv, KeyInv, NEW s \in Specs, NEW delay \in Delays,
           add_job_checked(s, delay, clock)
    PROVE  KeyInv'
<1> DEFINE new == lastId + 1
<1>1. /\ JobIds' = JobIds \cup {new}
      /\ new \notin JobIds
      /\ jobs'[new].spec = s
      /\ \A i \in JobIds : jobs'[i] = jobs[i] /\ log'[i] = log[i]
  BY DEF add_job_checked, StoreInv, TypeOK, JobIds
<1> HIDE DEF new
<1>2. s.key = NULL \/ KeyHolders(s) = {}
  BY DEF add_job_checked, AddOutcome
<1>3. \A i \in JobIds : Retried(i)' <=> Retried(i)
  BY <1>1 DEF Retried
<1>4. ASSUME NEW i \in JobIds, jobs[i].state \in ActiveStates,
             jobs[i].spec.key = s.key, s.key # NULL
      PROVE  FALSE
  BY <1>2, <1>4 DEF KeyHolders
<1>5. ASSUME NEW a \in JobIds', NEW b \in JobIds', a # b,
             {jobs'[a].state, jobs'[b].state} \subseteq ActiveStates,
             jobs'[a].spec.key = jobs'[b].spec.key, jobs'[a].spec.key # NULL
      PROVE  Retried(a)' \/ Retried(b)'
  <2>1. CASE a = new
    BY <1>1, <1>4, <1>5, <2>1
  <2>2. CASE b = new
    BY <1>1, <1>4, <1>5, <2>2
  <2>3. CASE a # new /\ b # new
    <3>1. a \in JobIds /\ b \in JobIds
      BY <1>1, <2>3
    <3>2. Retried(a) \/ Retried(b)
      BY <1>1, <1>5, <3>1 DEF KeyInv
    <3> QED
      BY <1>3, <3>1, <3>2
  <2> QED
    BY <2>1, <2>2, <2>3
<1> QED
  BY <1>5 DEF KeyInv

\* Two active jobs share an idempotency key only after a manual retry
\* (add_job_checked's lookup, and every path out of the active states).
THEOREM KeysAreUnique == StoreSpec => []KeyInv
<1>1. StoreInit => KeyInv
  BY DEF StoreInit, KeyInv, JobIds
<1>2. StoreInv /\ KeyInv /\ [StoreNext]_storeVars => KeyInv'
  <2> SUFFICES ASSUME StoreInv, KeyInv, [StoreNext]_storeVars PROVE KeyInv'
    OBVIOUS
  <2>1. CASE UNCHANGED <<lastId, jobs, attempts, log>>
    BY <2>1 DEF KeyInv, JobIds, Retried
  <2>2. ASSUME NEW ids, prune_delete(ids, PrunableStates, clock) PROVE KeyInv'
    <3>1. /\ JobIds' \subseteq JobIds
          /\ \A i \in JobIds' : jobs'[i] = jobs[i] /\ log'[i] = log[i]
      BY <2>2 DEF prune_delete, JobIds
    <3>2. \A i \in JobIds' : Retried(i)' <=> Retried(i)
      BY <3>1 DEF Retried
    <3> QED
      BY <3>1, <3>2 DEF KeyInv
  <2>3. CASE StoreNext
    BY <2>1, <2>2, <2>3, StepKinds, AddKeepsKeys, TouchKeepsKeys
  <2> QED
    BY <2>1, <2>3 DEF storeVars
<1> QED
  BY <1>1, <1>2, StoreIsSafe, PTL DEF StoreSpec

-----------------------------------------------------------------------------
(* Slots                                                                   *)

\* What is in the jobs table is finite, and so is every lane of it.
LEMMA LanesFinite ==
    ASSUME StoreInv, NEW lane
    PROVE  IsFiniteSet(Running(lane)) /\ Cardinality(Running(lane)) \in Nat
<1>1. lastId \in Nat /\ Running(lane) \subseteq 1..lastId
  BY DEF StoreInv, TypeOK, Running
<1>2. IsFiniteSet(1..lastId)
  BY <1>1, FS_Interval
<1> QED
  BY <1>1, <1>2, FS_Subset, FS_CardinalityType

\* A lane that only loses running jobs stays below the ceiling.
LEMMA FewerIsFine ==
    ASSUME StoreInv, SlotsInv, Slots # NULL, NEW lane \in Lanes,
           Running(lane)' \subseteq Running(lane)
    PROVE  Cardinality(Running(lane)') <= Slots
<1> DEFINE old == Running(lane)
           new == Running(lane)'
<1>1. IsFiniteSet(old) /\ Cardinality(old) \in Nat /\ Cardinality(old) <= Slots
  BY LanesFinite DEF SlotsInv
<1>2. new \in SUBSET old
  OBVIOUS
<1> HIDE DEF old, new
<1>3. Cardinality(new) <= Cardinality(old) /\ Cardinality(new) \in Nat
  BY <1>1, <1>2, FS_Subset, FS_CardinalityType
<1>4. Cardinality(new) <= Slots
  BY <1>1, <1>3, CallersAssumption
<1> QED
  BY <1>4 DEF new

\* A claim adds one running job to a lane with a free slot; no other
\* transaction adds any.
LEMMA TouchKeepsSlots ==
    ASSUME StoreInv, SlotsInv, Slots # NULL, TouchesOne, NEW lane \in Lanes
    PROVE  Cardinality(Running(lane)') <= Slots
<1>1. PICK j \in JobIds : \E row, tries, events :
        Touches(j, row, tries, events) /\ Kind(j, row, tries, events)
  BY DEF TouchesOne
<1>2. PICK row, tries, events :
        Touches(j, row, tries, events) /\ Kind(j, row, tries, events)
  BY <1>1
<1>0. row.spec = jobs[j].spec
  BY <1>2 DEF Touches
<1>3. /\ JobIds' = JobIds
      /\ \A i \in JobIds : jobs'[i] = IF i = j THEN row ELSE jobs[i]
      /\ row.spec = jobs[j].spec
  BY <1>2, <1>0, TouchedTables
<1>4. CASE jobs[j].state = "running" \/ row.state # "running" \/ jobs[j].spec.queue # lane
  <2>1. Running(lane)' \subseteq Running(lane)
    BY <1>3, <1>4 DEF Running
  <2> QED
    BY <2>1, FewerIsFine
<1>5. CASE jobs[j].state # "running" /\ row.state = "running" /\ jobs[j].spec.queue = lane
  <2> DEFINE old == Running(lane)
             new == Running(lane)'
  <2>1. Claims(j, row, tries, events)
    BY <1>2, <1>5 DEF Kind, Finishes, Retries, Beats, Charges, ActiveStates
  <2>2. Cardinality(old) < Slots
    BY <1>5, <2>1 DEF Claims
  <2>3. new = old \cup {j} /\ j \notin old
    BY <1>3, <1>5 DEF Running
  <2>4. IsFiniteSet(old) /\ Cardinality(old) \in Nat
    BY LanesFinite
  <2> HIDE DEF old, new
  <2>5. Cardinality(new) = Cardinality(old) + 1
    BY <2>3, <2>4, FS_AddElement
  <2>6. Cardinality(new) <= Slots
    BY <2>2, <2>4, <2>5, CallersAssumption
  <2> QED
    BY <2>6 DEF new
<1> QED
  BY <1>4, <1>5

\* No lane runs more jobs than --slots allows (claim_next counts and claims
\* in one transaction; reap, retry and cancel only free slots).
THEOREM SlotsAreRespected == StoreSpec => []SlotsInv
<1>1. StoreInit => SlotsInv
  <2> SUFFICES ASSUME StoreInit, Slots # NULL, NEW lane \in Lanes
               PROVE  Cardinality(Running(lane)) <= Slots
    BY DEF SlotsInv
  <2>1. Running(lane) = {}
    BY DEF StoreInit, Running, JobIds
  <2> QED
    BY <2>1, FS_EmptySet, CallersAssumption
<1>2. StoreInv /\ SlotsInv /\ [StoreNext]_storeVars => SlotsInv'
  <2> SUFFICES ASSUME StoreInv, SlotsInv, [StoreNext]_storeVars,
                      Slots # NULL, NEW lane \in Lanes
               PROVE  Cardinality(Running(lane)') <= Slots
    BY DEF SlotsInv
  <2>1. CASE UNCHANGED jobs
    <3>1. Running(lane)' \subseteq Running(lane)
      BY <2>1 DEF Running, JobIds
    <3> QED
      BY <3>1, FewerIsFine
  <2>2. ASSUME NEW s, NEW delay, add_job_checked(s, delay, clock)
        PROVE  Running(lane)' \subseteq Running(lane)
    BY <2>2 DEF add_job_checked, Running, JobIds
  <2>3. ASSUME NEW ids, prune_delete(ids, PrunableStates, clock)
        PROVE  Running(lane)' \subseteq Running(lane)
    BY <2>3 DEF prune_delete, Running, JobIds
  <2>4. CASE StoreNext
    BY <2>1, <2>2, <2>3, <2>4, StepKinds, FewerIsFine, TouchKeepsSlots
  <2> QED
    BY <2>1, <2>4 DEF storeVars
<1> QED
  BY <1>1, <1>2, StoreIsSafe, PTL DEF StoreSpec

-----------------------------------------------------------------------------
(* Counters                                                                *)

FreshEvents(events) ==
    {i \in DOMAIN events :
        \A k \in DOMAIN events : events[k] = "retried" => k < i}

\* The events in E since the last retry, and all of them.
Recent(events, E) == {i \in FreshEvents(events) : events[i] \in E}
Ever(events, e) == {i \in DOMAIN events : events[i] = e}

\* Counting in a log counts a finite set.
LEMMA RecentFinite ==
    ASSUME NEW events \in Seq(JobEventTypes), NEW E, NEW e
    PROVE  /\ IsFiniteSet(Recent(events, E)) /\ Cardinality(Recent(events, E)) \in Nat
           /\ IsFiniteSet(Ever(events, e)) /\ Cardinality(Ever(events, e)) \in Nat
<1>1. Len(events) \in Nat /\ DOMAIN events = 1..Len(events)
  OBVIOUS
<1>2. IsFiniteSet(DOMAIN events)
  BY <1>1, FS_Interval
<1>3. Recent(events, E) \in SUBSET DOMAIN events /\ Ever(events, e) \in SUBSET DOMAIN events
  BY DEF Recent, FreshEvents, Ever
<1>4. \A S \in SUBSET DOMAIN events : IsFiniteSet(S)
  BY <1>2, FS_Subset
<1>5. IsFiniteSet(Recent(events, E)) /\ IsFiniteSet(Ever(events, e))
  BY <1>3, <1>4
<1> QED
  BY <1>5, FS_CardinalityType

\* Appending an event adds it to the counts it belongs to; a retry starts
\* them again.
LEMMA AppendCounts ==
    ASSUME NEW events \in Seq(JobEventTypes), NEW x \in JobEventTypes, NEW E, NEW e,
           "retried" \notin E
    PROVE  /\ Append(events, x) \in Seq(JobEventTypes)
           /\ Cardinality(Recent(Append(events, x), E)) =
                IF x = "retried" THEN 0
                ELSE Cardinality(Recent(events, E)) + (IF x \in E THEN 1 ELSE 0)
           /\ Cardinality(Ever(Append(events, x), e)) =
                Cardinality(Ever(events, e)) + (IF x = e THEN 1 ELSE 0)
<1> DEFINE n == Len(events)
           new == Append(events, x)
<1>1. /\ n \in Nat /\ DOMAIN events = 1..n /\ DOMAIN new = 1..(n + 1)
      /\ \A i \in 1..n : new[i] = events[i]
      /\ new[n + 1] = x
      /\ new \in Seq(JobEventTypes)
  OBVIOUS
<1>2. 1..(n + 1) = 1..n \cup {n + 1} /\ n + 1 \notin 1..n
  BY <1>1
<1> HIDE DEF n, new
<1>3. Ever(new, e) = IF x = e THEN Ever(events, e) \cup {n + 1} ELSE Ever(events, e)
  BY <1>1, <1>2 DEF Ever
<1>4. n + 1 \notin Ever(events, e)
  BY <1>1, <1>2 DEF Ever
<1>5. Cardinality(Ever(new, e)) = Cardinality(Ever(events, e)) + (IF x = e THEN 1 ELSE 0)
  <2>1. IsFiniteSet(Ever(events, e)) /\ Cardinality(Ever(events, e)) \in Nat
    BY RecentFinite
  <2>2. CASE x = e
    BY <1>3, <1>4, <2>1, <2>2, FS_AddElement
  <2>3. CASE x # e
    BY <1>3, <2>1, <2>3
  <2> QED
    BY <2>2, <2>3
<1>6. CASE x = "retried"
  <2>1. FreshEvents(new) = {}
    <3> SUFFICES ASSUME NEW i \in FreshEvents(new) PROVE FALSE
      OBVIOUS
    <3>1. i \in 1..(n + 1) /\ n + 1 < i
      BY <1>1, <1>2, <1>6 DEF FreshEvents
    <3> QED
      BY <1>1, <3>1
  <2>2. Recent(new, E) = {}
    BY <2>1 DEF Recent
  <2>3. Cardinality(Recent(new, E)) = 0
    BY <2>2, FS_EmptySet
  <2> QED
    BY <1>1, <1>5, <1>6, <2>3 DEF new
<1>7. CASE x # "retried"
  <2>1. \A k \in DOMAIN new : new[k] = "retried" <=> k \in DOMAIN events /\ events[k] = "retried"
    BY <1>1, <1>2, <1>7
  <2>2. FreshEvents(new) = FreshEvents(events) \cup {n + 1}
    <3>1. \A i \in 1..n : i \in FreshEvents(new) <=> i \in FreshEvents(events)
      BY <1>1, <1>2, <2>1 DEF FreshEvents
    <3>2. n + 1 \in FreshEvents(new)
      <4>1. \A k \in 1..n : k < n + 1
        BY <1>1
      <4> QED
        BY <1>1, <1>2, <2>1, <4>1 DEF FreshEvents
    <3>3. FreshEvents(new) \subseteq 1..n \cup {n + 1} /\ FreshEvents(events) \subseteq 1..n
      BY <1>1, <1>2 DEF FreshEvents
    <3> QED
      BY <3>1, <3>2, <3>3
  <2>3. FreshEvents(events) \subseteq 1..n
    BY <1>1 DEF FreshEvents
  <2>4. Recent(new, E) = IF x \in E THEN Recent(events, E) \cup {n + 1} ELSE Recent(events, E)
    BY <1>1, <2>2, <2>3 DEF Recent
  <2>5. n + 1 \notin Recent(events, E)
    BY <1>2, <2>3 DEF Recent
  <2>6. IsFiniteSet(Recent(events, E)) /\ Cardinality(Recent(events, E)) \in Nat
    BY RecentFinite
  <2>7. Cardinality(Recent(new, E)) =
          Cardinality(Recent(events, E)) + (IF x \in E THEN 1 ELSE 0)
    <3>1. CASE x \in E
      BY <2>4, <2>5, <2>6, <3>1, FS_AddElement
    <3>2. CASE x \notin E
      BY <2>4, <2>6, <3>2
    <3> QED
      BY <3>1, <3>2
  <2> QED
    BY <1>1, <1>5, <1>7, <2>7 DEF new
<1> QED
  BY <1>6, <1>7

Charged == {"failed", "timed_out", "reaped"}

\* What CountersMatchLog says of one job.
Counted(row, tries, events) ==
    /\ row.attempts = Cardinality(Recent(events, Charged))
    /\ row.crashes = Cardinality(Recent(events, {"reaped"}))
    /\ Len(tries) = Cardinality(Ever(events, "claimed"))

LEMMA CountersPerJob ==
    CountersMatchLog <=> \A j \in JobIds : Counted(jobs[j], attempts[j], log[j])
  BY DEF CountersMatchLog, Counted, Logged, SinceRetry, FreshEvents, Recent, Ever, Charged

\* Each way of touching a job keeps its counters and its log in step.
LEMMA KindKeepsCounters ==
    ASSUME StoreInv, NEW j \in JobIds, NEW row, NEW tries, NEW events,
           Kind(j, row, tries, events), Counted(jobs[j], attempts[j], log[j])
    PROVE  Counted(row, tries, events)
<1> DEFINE all(s) == Cardinality(Recent(s, Charged))
           reaps(s) == Cardinality(Recent(s, {"reaped"}))
           claims(s) == Cardinality(Ever(s, "claimed"))
           one(b) == IF b THEN 1 ELSE 0
<1>1. log[j] \in Seq(JobEventTypes)
  BY RowFacts
<1>2. ASSUME NEW s \in Seq(JobEventTypes), NEW x \in JobEventTypes
      PROVE  /\ Append(s, x) \in Seq(JobEventTypes)
             /\ all(s) \in Nat /\ reaps(s) \in Nat /\ claims(s) \in Nat
             /\ x = "retried" => all(Append(s, x)) = 0 /\ reaps(Append(s, x)) = 0
             /\ x # "retried" => /\ all(Append(s, x)) = all(s) + one(x \in Charged)
                                 /\ reaps(Append(s, x)) = reaps(s) + one(x \in {"reaped"})
             /\ claims(Append(s, x)) = claims(s) + one(x = "claimed")
  <2>1. "retried" \notin Charged /\ "retried" \notin {"reaped"}
    BY DEF Charged
  <2>2. all(s) \in Nat /\ reaps(s) \in Nat /\ claims(s) \in Nat
    BY RecentFinite
  <2>3. /\ Append(s, x) \in Seq(JobEventTypes)
        /\ all(Append(s, x)) = IF x = "retried" THEN 0 ELSE all(s) + one(x \in Charged)
        /\ claims(Append(s, x)) = claims(s) + one(x = "claimed")
    BY <2>1, AppendCounts
  <2>4. reaps(Append(s, x)) = IF x = "retried" THEN 0 ELSE reaps(s) + one(x \in {"reaped"})
    BY <2>1, AppendCounts
  <2> QED
    BY <2>2, <2>3, <2>4
<1>3. /\ jobs[j].attempts = all(log[j])
      /\ jobs[j].crashes = reaps(log[j])
      /\ Len(attempts[j]) = claims(log[j])
  BY DEF Counted
<1>4. SUFFICES /\ row.attempts = all(events)
               /\ row.crashes = reaps(events)
               /\ Len(tries) = claims(events)
  BY DEF Counted
<1> HIDE DEF all, reaps, claims
<1>5. CASE Finishes(j, row, tries, events)
  <2>1. PICK e \in {"canceled", "succeeded"} : events = Append(log[j], e)
    BY <1>5 DEF Finishes
  <2>2. e \in JobEventTypes /\ e \notin Charged /\ e \notin {"reaped", "claimed", "retried"}
    BY DEF JobEventTypes, Charged
  <2> QED
    BY <1>1, <1>2, <1>3, <1>5, <2>1, <2>2 DEF Finishes, SameCounters
<1>6. CASE Retries(j, row, tries, events)
  <2>1. "retried" \in JobEventTypes
    BY DEF JobEventTypes
  <2> QED
    BY <1>1, <1>2, <1>3, <1>6, <2>1 DEF Retries
<1>7. CASE Claims(j, row, tries, events)
  <2>1. "claimed" \in JobEventTypes /\ "claimed" \notin Charged
    BY DEF JobEventTypes, Charged
  <2> QED
    BY <1>1, <1>2, <1>3, <1>7, <2>1 DEF Claims, SameCounters
<1>8. CASE Beats(j, row, tries, events)
  BY <1>3, <1>8 DEF Beats, SameCounters
<1>9. CASE Charges(j, row, tries, events)
  <2>1. PICK e \in {"failed", "timed_out", "reaped"} :
          /\ row.attempts = jobs[j].attempts + 1
          /\ row.crashes = IF e = "reaped" THEN jobs[j].crashes + 1 ELSE jobs[j].crashes
          /\ Len(tries) = Len(attempts[j])
          /\ \/ events = Append(log[j], e)
             \/ events = Append(Append(log[j], e), "dead")
    BY <1>9 DEF Charges
  <2> DEFINE once == Append(log[j], e)
  <2>2. /\ e \in JobEventTypes /\ e \in Charged /\ e \notin {"claimed", "retried"}
        /\ "dead" \in JobEventTypes /\ "dead" \notin Charged
    BY DEF JobEventTypes, Charged
  <2>3. /\ once \in Seq(JobEventTypes)
        /\ all(once) = all(log[j]) + 1
        /\ reaps(once) = IF e = "reaped" THEN reaps(log[j]) + 1 ELSE reaps(log[j])
        /\ claims(once) = claims(log[j])
    BY <1>1, <1>2, <2>2
  <2> HIDE DEF once
  <2>4. /\ all(Append(once, "dead")) = all(once)
        /\ reaps(Append(once, "dead")) = reaps(once)
        /\ claims(Append(once, "dead")) = claims(once)
    BY <1>2, <2>2, <2>3
  <2>5. events = once \/ events = Append(once, "dead")
    BY <2>1 DEF once
  <2> QED
    BY <1>3, <2>1, <2>3, <2>4, <2>5
<1> QED
  BY <1>5, <1>6, <1>7, <1>8, <1>9 DEF Kind

\* The first event of a job counts for nothing.
LEMMA AddedCounts == Cardinality(Recent(<<"added">>, Charged)) = 0
                     /\ Cardinality(Recent(<<"added">>, {"reaped"})) = 0
                     /\ Cardinality(Ever(<<"added">>, "claimed")) = 0
<1>1. DOMAIN <<"added">> = {1} /\ <<"added">>[1] = "added"
  OBVIOUS
<1>2. /\ Recent(<<"added">>, Charged) = {} /\ Recent(<<"added">>, {"reaped"}) = {}
      /\ Ever(<<"added">>, "claimed") = {}
  BY <1>1 DEF Recent, FreshEvents, Ever, Charged
<1> QED
  BY <1>2, FS_EmptySet

\* The counters a budget is decided by are the events since the last manual
\* retry (record_failure, reap, retry_job), and attempts has one row per claim.
THEOREM CountersAreTheLog == StoreSpec => []CountersMatchLog
<1>1. StoreInit => CountersMatchLog
  BY DEF StoreInit, CountersMatchLog, JobIds
<1>2. StoreInv /\ CountersMatchLog /\ [StoreNext]_storeVars => CountersMatchLog'
  <2> SUFFICES ASSUME StoreInv, CountersMatchLog, [StoreNext]_storeVars
               PROVE  \A i \in JobIds' : Counted(jobs'[i], attempts'[i], log'[i])
    BY DEF CountersMatchLog, Counted, Logged, SinceRetry, FreshEvents, Recent, Ever, Charged
  <2>1. \A i \in JobIds : Counted(jobs[i], attempts[i], log[i])
    BY CountersPerJob
  <2>2. CASE UNCHANGED <<lastId, jobs, attempts, log>>
    BY <2>1, <2>2 DEF JobIds
  <2>3. ASSUME NEW s, NEW delay, add_job_checked(s, delay, clock)
        PROVE  \A i \in JobIds' : Counted(jobs'[i], attempts'[i], log'[i])
    <3>1. /\ JobIds' = JobIds \cup {lastId + 1}
          /\ \A i \in JobIds : i # lastId + 1
          /\ \A i \in JobIds :
               jobs'[i] = jobs[i] /\ attempts'[i] = attempts[i] /\ log'[i] = log[i]
          /\ jobs'[lastId + 1].attempts = 0 /\ jobs'[lastId + 1].crashes = 0
          /\ attempts'[lastId + 1] = <<>> /\ log'[lastId + 1] = <<"added">>
      BY <2>3 DEF add_job_checked, JobIds, StoreInv, TypeOK
    <3>2. Counted(jobs'[lastId + 1], attempts'[lastId + 1], log'[lastId + 1])
      BY <3>1, AddedCounts DEF Counted
    <3> QED
      BY <2>1, <3>1, <3>2
  <2>4. ASSUME NEW ids, prune_delete(ids, PrunableStates, clock)
        PROVE  \A i \in JobIds' : Counted(jobs'[i], attempts'[i], log'[i])
    <3>1. /\ JobIds' \subseteq JobIds
          /\ \A i \in JobIds' :
               jobs'[i] = jobs[i] /\ attempts'[i] = attempts[i] /\ log'[i] = log[i]
      BY <2>4 DEF prune_delete, JobIds
    <3> QED
      BY <2>1, <3>1
  <2>5. ASSUME TouchesOne
        PROVE  \A i \in JobIds' : Counted(jobs'[i], attempts'[i], log'[i])
    <3>1. PICK j \in JobIds : \E row, tries, events :
            Touches(j, row, tries, events) /\ Kind(j, row, tries, events)
      BY <2>5 DEF TouchesOne
    <3>2. PICK row, tries, events :
            Touches(j, row, tries, events) /\ Kind(j, row, tries, events)
      BY <3>1
    <3>3. Counted(row, tries, events)
      BY <2>1, <3>2, KindKeepsCounters
    <3> QED
      BY <2>1, <3>2, <3>3, TouchedTables
  <2>6. CASE StoreNext
    BY <2>2, <2>3, <2>4, <2>5, <2>6, StepKinds
  <2> QED
    BY <2>2, <2>6 DEF storeVars
<1> QED
  BY <1>1, <1>2, StoreIsSafe, PTL DEF StoreSpec

-----------------------------------------------------------------------------
(* The page of list                                                        *)

\* A set of naturals that is not empty has a minimum.
LEMMA LeastExists ==
    ASSUME NEW T, T \subseteq Nat, T # {}
    PROVE  \E x \in T : \A y \in T : x <= y
<1>1. PICK x \in T : \A y \in T : ~(<<y, x>> \in OpToRel(<, Nat))
  BY WFMin, NatLessThanWellFounded, Zenon
<1>2. \A y \in T : ~(y < x)
  BY <1>1 DEF OpToRel
<1> QED
  BY <1>2

LEMMA LeastIsIn ==
    ASSUME NEW T, T \subseteq Nat, T # {}
    PROVE  Min(T) \in T
  BY LeastExists DEF Min

\* Newest takes the n highest ids: all of them if there are no more, exactly
\* n if there are, and none that is lower than one it leaves out.
LEMMA NewestFacts ==
    ASSUME NEW S \in SUBSET Nat, IsFiniteSet(S), NEW n \in Nat
    PROVE  /\ Newest(S, n) \subseteq S
           /\ IsFiniteSet(Newest(S, n))
           /\ Cardinality(S) <= n => Newest(S, n) = S
           /\ Cardinality(S) >= n => Cardinality(Newest(S, n)) = n
           /\ \A j \in S \ Newest(S, n), k \in Newest(S, n) : j < k
<1> DEFINE Above(j) == {i \in S : i > j}
           f == [j \in S |-> Cardinality(Above(j))]
           top == Newest(S, n)
<1>1. Cardinality(S) \in Nat /\ \A i \in S : i \in Nat
  BY FS_CardinalityType
<1>2. ASSUME NEW j \in S
      PROVE  IsFiniteSet(Above(j)) /\ f[j] \in 0..(Cardinality(S) - 1)
  <2>1. Above(j) \in SUBSET S /\ j \notin Above(j)
    OBVIOUS
  <2>2. /\ IsFiniteSet(Above(j)) /\ Cardinality(Above(j)) <= Cardinality(S)
        /\ Cardinality(Above(j)) # Cardinality(S)
    BY <2>1, FS_Subset
  <2>3. Cardinality(Above(j)) \in Nat
    BY <2>2, FS_CardinalityType
  <2> QED
    BY <1>1, <2>2, <2>3
<1>3. ASSUME NEW j \in S, NEW k \in S, j < k
      PROVE  f[k] < f[j]
  <2>1. Above(k) \in SUBSET Above(j) /\ k \in Above(j) /\ k \notin Above(k)
    <3>1. \A i \in S : i > k => i > j
      BY <1>1, <1>3
    <3>2. k > j /\ ~(k > k)
      BY <1>1, <1>3
    <3>3. k \in Above(j)
      BY <3>2
    <3>4. k \notin Above(k)
      BY <3>2
    <3>5. Above(k) \in SUBSET Above(j)
      BY <3>1
    <3> QED
      BY <3>3, <3>4, <3>5
  <2>2. Cardinality(Above(k)) <= Cardinality(Above(j)) /\ Cardinality(Above(k)) # Cardinality(Above(j))
    BY <1>2, <2>1, FS_Subset
  <2>3. f[j] \in Int /\ f[k] \in Int
    BY <1>2
  <2> QED
    BY <2>2, <2>3
<1>4. top = {j \in S : f[j] < n} /\ f \in [S -> 0..(Cardinality(S) - 1)]
  BY <1>2 DEF Newest
<1> HIDE DEF f, top
<1>5. top \subseteq S /\ IsFiniteSet(top)
  BY <1>4, FS_Subset
<1>6. ASSUME Cardinality(S) <= n PROVE top = S
  <2>1. \A j \in S : f[j] \in Int /\ f[j] <= Cardinality(S) - 1
    BY <1>1, <1>4
  <2>2. \A j \in S : f[j] < n
    BY <1>1, <1>6, <2>1
  <2> QED
    BY <1>4, <2>2
<1>7. \A j \in S \ top, k \in top : j < k
  <2> SUFFICES ASSUME NEW j \in S \ top, NEW k \in top PROVE j < k
    OBVIOUS
  <2>1. f[k] < n /\ ~(f[j] < n) /\ f[j] \in Int /\ f[k] \in Int /\ j # k
    BY <1>2, <1>4
  <2>2. ~(k < j)
    BY <1>3, <1>4, <2>1
  <2>3. j \in Nat /\ k \in Nat
    BY <1>4
  <2> QED
    BY <2>1, <2>2, <2>3
<1>8. ASSUME Cardinality(S) >= n PROVE Cardinality(top) = n
  <2> DEFINE T == 0..(Cardinality(S) - 1)
  <2>1. IsFiniteSet(T) /\ Cardinality(T) = Cardinality(S)
    <3>1. PICK m \in Nat : m = Cardinality(S)
      BY <1>1
    <3>2. IsFiniteSet(0..(m - 1)) /\ Cardinality(0..(m - 1)) = m
      BY FS_Interval
    <3> QED
      BY <3>1, <3>2
  <2>2. \A j, k \in S : f[j] = f[k] => j = k
    <3> SUFFICES ASSUME NEW j \in S, NEW k \in S, f[j] = f[k], j # k PROVE FALSE
      OBVIOUS
    <3>1. f[j] \in Int /\ j \in Nat /\ k \in Nat
      BY <1>1, <1>4
    <3>2. j < k \/ k < j
      BY <3>1
    <3> QED
      BY <1>3, <3>1, <3>2
  <2>3. f \in [S -> T]
    BY <1>4
  <2> HIDE DEF T
  <2>4. f \in Injection(S, T)
    BY <2>2, <2>3 DEF Injection, IsInjective
  <2>5. f \in Surjection(S, T)
    BY <2>1, <2>4, FS_Injection
  <2> DEFINE low == 0..(n - 1)
             g == [j \in top |-> f[j]]
  <2>6. \A j \in top : f[j] \in low
    <3> SUFFICES ASSUME NEW j \in top PROVE f[j] \in low
      OBVIOUS
    <3>1. f[j] \in Nat /\ f[j] < n
      BY <1>1, <1>4
    <3> QED
      BY <3>1
  <2>7. \A m \in low : \E j \in top : f[j] = m
    <3> SUFFICES ASSUME NEW m \in low PROVE \E j \in top : f[j] = m
      OBVIOUS
    <3>1. m \in T /\ m < n
      BY <1>1, <1>8 DEF T
    <3>2. PICK j \in S : f[j] = m
      BY <2>5, <3>1 DEF Surjection
    <3> QED
      BY <1>4, <3>1, <3>2
  <2> HIDE DEF low
  <2>8. g \in [top -> low]
    BY <2>6
  <2>9. \A m \in low : \E j \in top : g[j] = m
    BY <2>7
  <2>10. \A j, k \in top : g[j] = g[k] => j = k
    BY <1>5, <2>2
  <2> HIDE DEF g
  <2>11. g \in Surjection(top, low)
    BY <2>8, <2>9 DEF Surjection
  <2>12. g \in Injection(top, low)
    BY <2>8, <2>10 DEF Injection, IsInjective
  <2>13. Cardinality(low) = Cardinality(top)
    BY <1>5, <2>11, <2>12, FS_Surjection
  <2>14. Cardinality(low) = n
    BY FS_Interval DEF low
  <2> QED
    BY <2>13, <2>14
<1> QED
  BY <1>5, <1>6, <1>7, <1>8 DEF top

\* The page that is cut from the rows D: it is all of them or it is full, and
\* a row it leaves out is older than its cursor.
LEMMA PageFacts ==
    ASSUME NEW D \in SUBSET Nat, IsFiniteSet(D), NEW limit \in Nat, limit # 0
    PROVE  /\ Newest(D, limit) \subseteq D
           /\ ~(Cardinality(D) > limit) => Newest(D, limit) = D
           /\ Cardinality(D) > limit => Cardinality(Newest(D, limit)) = limit
           /\ \A j \in D \ Newest(D, limit) : \A k \in Newest(D, limit) : j < k
           /\ D # {} => Newest(D, limit) # {}
<1>1. Cardinality(D) \in Nat
  BY FS_CardinalityType
<1>2. ~(Cardinality(D) > limit) => Newest(D, limit) = D
  BY <1>1, NewestFacts
<1>3. Cardinality(D) > limit => Cardinality(Newest(D, limit)) = limit
  BY <1>1, NewestFacts
<1>4. D # {} => Newest(D, limit) # {}
  BY <1>2, <1>3, FS_EmptySet
<1> QED
  BY <1>2, <1>3, <1>4, NewestFacts

\* What ListHonest says of one answer.
HonestPage(matching, tagged, asked) ==
    LET wanted == IF tagged = NULL THEN matching
                  ELSE {j \in matching : jobs[j].spec \in tagged}
        answer == list_operation(matching, tagged, asked)
        full == IF asked = 0 THEN LIST_LIMIT_MAX ELSE asked
    IN  /\ answer.page \subseteq wanted
        /\ ~answer.truncated => answer.page = wanted
        /\ answer.truncated => Cardinality(answer.page) = full \/ answer.warned
        /\ \A j \in wanted \ answer.page : j < answer.cursor \/ answer.warned

\* The answer of list_operation over the rows that match, with or without tags.
LEMMA ListFacts ==
    ASSUME NEW matching \in SUBSET Nat, IsFiniteSet(matching), NEW tagged, NEW asked \in Nat
    PROVE  HonestPage(matching, tagged, asked)
<1> DEFINE wanted == IF tagged = NULL THEN matching
                     ELSE {j \in matching : jobs[j].spec \in tagged}
           answer == list_operation(matching, tagged, asked)
           full == IF asked = 0 THEN LIST_LIMIT_MAX ELSE asked
           fetched == Newest(matching, FetchLimit(tagged, full))
           capped == tagged # NULL /\ Cardinality(fetched) > TAG_FILTER_SCAN_LIMIT
           scan == Newest(fetched, TAG_FILTER_SCAN_LIMIT)
           filtered == IF tagged = NULL THEN fetched
                       ELSE {j \in scan : jobs[j].spec \in tagged}
           page == Newest(filtered, full)
           cursor == Min(page \cup (IF page = {} THEN {0} ELSE {}))
<1>1. /\ answer.page = page
      /\ answer.truncated <=> capped \/ Cardinality(filtered) > full
      /\ answer.warned <=> capped
      /\ answer.cursor = cursor
  BY DEF list_operation
<1>2. full \in Nat /\ full # 0 /\ TAG_FILTER_SCAN_LIMIT \in Nat /\ TAG_FILTER_SCAN_LIMIT # 0
  BY ReportsAssumption
<1> HIDE DEF full
<1>3. Cardinality(matching) \in Nat /\ FetchLimit(tagged, full) \in Nat
  BY <1>2, FS_CardinalityType DEF FetchLimit
<1>4. /\ fetched \subseteq matching /\ IsFiniteSet(fetched)
      /\ ~(Cardinality(fetched) >= FetchLimit(tagged, full)) => fetched = matching
      /\ \A j \in matching \ fetched, k \in fetched : j < k
  BY <1>3, NewestFacts
<1>5. fetched \in SUBSET Nat /\ Cardinality(fetched) \in Nat
  BY <1>4, FS_CardinalityType
<1> HIDE DEF fetched
<1>6. /\ scan \subseteq fetched /\ IsFiniteSet(scan)
      /\ ~(Cardinality(fetched) > TAG_FILTER_SCAN_LIMIT) => scan = fetched
  BY <1>2, <1>4, <1>5, PageFacts, NewestFacts
<1> HIDE DEF scan
<1>7. filtered \subseteq wanted /\ filtered \in SUBSET Nat /\ IsFiniteSet(filtered)
  <2>1. filtered \subseteq wanted /\ filtered \in SUBSET fetched
    BY <1>4, <1>6
  <2> QED
    BY <1>4, <1>5, <2>1, FS_Subset
<1>8. Cardinality(filtered) \in Nat
  BY <1>7, FS_CardinalityType
\* What is not in filtered is older than all of it, or the scan was cut short.
<1>9. ~capped => /\ ~(Cardinality(filtered) > full) => filtered = wanted
                 /\ \A j \in wanted \ filtered, k \in filtered : j < k
                 /\ filtered = {} => wanted = {}
  <2>1. CASE tagged = NULL
    <3>1. filtered = fetched /\ wanted = matching /\ FetchLimit(tagged, full) = full + 1
      BY <2>1 DEF FetchLimit
    <3>2. ~(Cardinality(filtered) > full) => filtered = wanted
      <4>1. ~(Cardinality(fetched) > full) => ~(Cardinality(fetched) >= full + 1)
        BY <1>2, <1>5
      <4> QED
        BY <1>4, <3>1, <4>1
    <3>3. filtered = {} => filtered = wanted
      BY <1>2, <3>2, FS_EmptySet
    <3> QED
      BY <1>4, <3>1, <3>2, <3>3
  <2>2. CASE tagged # NULL
    <3> SUFFICES ASSUME ~capped PROVE filtered = wanted
      OBVIOUS
    <3>1. FetchLimit(tagged, full) = TAG_FILTER_SCAN_LIMIT + 1
      BY <2>2 DEF FetchLimit
    <3>2. fetched = matching /\ scan = fetched
      BY <1>2, <1>4, <1>5, <1>6, <2>2, <3>1
    <3> QED
      BY <2>2, <3>2
  <2> QED
    BY <2>1, <2>2
<1> HIDE DEF wanted, filtered
<1>10. /\ page \subseteq filtered
       /\ ~(Cardinality(filtered) > full) => page = filtered
       /\ Cardinality(filtered) > full => Cardinality(page) = full
       /\ \A j \in filtered \ page : \A k \in page : j < k
       /\ filtered # {} => page # {}
  BY <1>2, <1>7, PageFacts
<1> HIDE DEF page
<1>11. ASSUME ~capped, NEW j \in wanted \ page PROVE j < cursor
  <2>1. filtered # {} /\ page # {}
    BY <1>9, <1>10, <1>11
  <2>2. cursor = Min(page)
    BY <2>1
  <2>3. Min(page) \in page
    BY <1>7, <1>10, <2>1, LeastIsIn
  <2>4. CASE j \in filtered
    BY <1>10, <2>2, <2>3, <2>4
  <2>5. CASE j \notin filtered
    BY <1>9, <1>10, <1>11, <2>2, <2>3, <2>5
  <2> QED
    BY <2>4, <2>5
<1> HIDE DEF answer, capped, cursor
<1>12. answer.page \subseteq wanted /\ (~answer.truncated => answer.page = wanted)
  BY <1>1, <1>7, <1>9, <1>10
<1>13. answer.truncated => Cardinality(answer.page) = full \/ answer.warned
  BY <1>1, <1>10
<1>14. \A j \in wanted \ answer.page : j < answer.cursor \/ answer.warned
  BY <1>1, <1>11
<1> QED
  BY <1>12, <1>13, <1>14 DEF HonestPage, wanted, answer, full

\* list never passes a part off as the whole: whatever the queue holds and
\* whatever the limits are, a page that list_operation does not mark as
\* truncated is complete, a marked one is full or carries the warning that
\* the tag scan was capped, and the cursor skips nothing.
THEOREM PagesAreHonest == StoreSpec => []ListHonest
<1>1. StoreInv => ListHonest
  <2> SUFFICES ASSUME StoreInv,
                      NEW filter \in {<<NULL, NULL>>, <<PrunableStates, NULL>>}
                                       \cup {<<NULL, {s}>> : s \in Specs},
                      NEW asked \in 0..LIST_LIMIT_MAX
               PROVE  HonestPage(ListedJobs(filter[1], NULL, NULL), filter[2], asked)
    BY DEF ListHonest, HonestPage
  <2>1. PICK last \in Nat : JobIds \subseteq 1..last
    BY DEF StoreInv, TypeOK
  <2>2. PICK matching \in SUBSET (1..last) : matching = ListedJobs(filter[1], NULL, NULL)
    BY <2>1 DEF ListedJobs
  <2>3. IsFiniteSet(1..last)
    BY FS_Interval
  <2>4. matching \in SUBSET Nat /\ IsFiniteSet(matching)
    <3>1. IsFiniteSet(matching)
      BY <2>3, FS_Subset
    <3>2. matching \in SUBSET Nat
      OBVIOUS
    <3> QED
      BY <3>1, <3>2
  <2>5. asked \in Nat
    BY ReportsAssumption
  <2> QED
    BY <2>2, <2>4, <2>5, ListFacts
<1> QED
  BY <1>1, StoreIsSafe, PTL
=============================================================================
