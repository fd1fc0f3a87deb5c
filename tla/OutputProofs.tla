---------------------------- MODULE OutputProofs ----------------------------
(***************************************************************************)
(* What is proved about captured output: workers that write it, prunes     *)
(* that remove it and a report that reads it (Output and Readers).         *)
(*                                                                         *)
(* OutputInv is not inductive.  The invariant below adds what each process *)
(* knows between two of its system calls: RunnerInv, that a busy worker    *)
(* still owns its job or has been overruled, and that no two workers share *)
(* a path; PruneInv, that every job a prune has matched still is what it   *)
(* matched or has been retried since; DiskInv, that whatever such a job    *)
(* has on disk is on the list of the prune or was written late.            *)
(*                                                                         *)
(* AnswersFit is about a report that reads in several transactions.  Two   *)
(* more invariants carry it: HistorySafe, that the attempts of a job tell  *)
(* its state and left their output, and ReportInv, what a report may still *)
(* rely on when the job has moved on since it read a row of it.            *)
(***************************************************************************)
EXTENDS Readers, LedgerProofs

-----------------------------------------------------------------------------
(* The invariant                                                           *)

\* Places of a worker that has not opened its output yet.
Early == {"reread", "makedirs", "mkdir", "open"}

BusyPlaces == Early \cup {"spawn", "running", "grace", "record"}

Busy(r) == runner[r].pc \in BusyPlaces

Outcomes == {"succeeded", "process_exit", "timeout", "spawn_failed"}

RunnerRecords ==
    [pc : BusyPlaces \cup {"idle", "gone"},
     job : Nat,
     no : Nat,
     kind : Outcomes \cup {NULL, "raised"},
     group : [live : SUBSET {"leader", "helper"}, deaf : SUBSET {"leader", "helper"}]]

\* What has become of the process group, and of the outcome.
OutcomeOk(c) ==
    /\ c.kind = "raised" => c.pc = "gone"
    /\ c.pc = "record" => c.kind \in Outcomes
    /\ c.pc = "grace" =>
         /\ c.kind \in {"timeout", "process_exit"}
         /\ c.group.live \subseteq c.group.deaf
         /\ "leader" \in c.group.deaf => "leader" \in c.group.live
    /\ c.pc = "record" /\ c.kind = "timeout" =>
         /\ "leader" \notin c.group.live /\ c.group.live \subseteq c.group.deaf
         /\ c.group.live # {} => "leader" \notin c.group.deaf

Remaining ==
    [prunes : Nat, deaths : Nat, reads : Nat, crew : SUBSET Runners, groups : SUBSET Groups]

\* Workers stay within their types; the budget and the bounds are kept.
RunnerTypes ==
    /\ runner \in [Runners -> RunnerRecords]
    /\ \A r \in Runners : OutcomeOk(runner[r])
    /\ \A r \in Runners : runner[r].job <= lastId
    /\ left \in Remaining
    /\ lastId <= MaxJobs

\* The attempt of a busy worker has a row as long as its job has one.
HasRow(j, no) ==
    /\ j \in 1..lastId /\ no \in 1..MaxAttempts
    /\ j \in JobIds => no \in DOMAIN attempts[j]

Overruled(j) == \E i \in DOMAIN log[j] : log[j][i] \in {"canceled", "retried"}

\* Somebody deleted, canceled or retried the job.
Lost(j) == j \notin JobIds \/ Overruled(j)

\* What a worker knows of its job.
KnowsJob(r) ==
    LET j == runner[r].job
    IN  /\ Busy(r) => HasRow(j, runner[r].no) /\ (Owns(j, r, r) \/ Lost(j))
        /\ runner[r].pc \in Early => Mine(r) \notin files
        /\ runner[r].pc = "mkdir" => j \in jobDirs \/ Lost(j)
        /\ runner[r].pc = "open" => Mine(r) \in attemptDirs \/ Lost(j)
        /\ runner[r].kind = "raised" => Lost(j)

RunnerInv ==
    /\ \A r \in Runners : KnowsJob(r)
    /\ \A q, r \in Runners : Busy(q) /\ Busy(r) /\ q # r => Mine(q) # Mine(r)

\* What a prune knows of the jobs it has matched.
PruneInv ==
    /\ DOMAIN prune = {"pc", "ids", "cutoff", "asked", "paths", "seen"}
    /\ prune.pc \in {"idle", "select", "next", "rmdir", "rmjob"}
    /\ prune.cutoff \in 0..clock
    /\ prune.ids \subseteq JobIds
    /\ prune.asked \subseteq prune.ids
    /\ prune.pc = "select" <=> prune.asked # {}
    /\ prune.paths \subseteq Attempted
    /\ \A x \in prune.paths : x[1] \in prune.ids
    /\ prune.pc \in {"rmdir", "rmjob"} => prune.paths # {}
    /\ prune.pc = "rmjob" => \A x \in prune.paths \ {First} : x[1] # First[1]
    /\ \A j \in prune.ids :
         /\ prune.seen[j] \in 0..Len(log[j])
         /\ j \in Prunable(PrunableStates, prune.cutoff) \/ RetriedSinceMatch(j)

\* What is on disk.
DiskInv ==
    /\ jobDirs \subseteq 1..lastId
    /\ \A x \in files \cup attemptDirs : x \in Attempted /\ HasRow(x[1], x[2])
    /\ \A j \in jobDirs : j \in JobIds => 1 \in DOMAIN attempts[j]
    /\ late \cup taken \cup struck \subseteq Attempted
    /\ \A x \in files \cup attemptDirs :
         x[1] \in prune.ids => x \in late \/ x[1] \in prune.asked \/ x \in prune.paths
    /\ \A j \in jobDirs \cap prune.ids :
         \/ \E x \in late : x[1] = j
         \/ j \in prune.asked
         \/ \E x \in prune.paths : x[1] = j
    /\ prune.pc = "rmdir" => (First \in files => First \in late)
    /\ prune.pc = "rmjob" => (First \in files \cup attemptDirs => First \in late)

\* OwnedOutputKept for one worker.
KeepsOutput(r) == Writing(r) /\ Owns(runner[r].job, r, r) => Mine(r) \in files \cup struck

AttemptsBounded == \A j \in JobIds : DOMAIN attempts[j] \subseteq 1..MaxAttempts

\* The inductive invariant of workers, prune and disk.
OutputSafe ==
    /\ StoreInv
    /\ AttemptsBounded
    /\ RunnerTypes
    /\ RunnerInv
    /\ PruneInv
    /\ DiskInv
    /\ OrphansAreLate
    /\ OwnedOutputKept

-----------------------------------------------------------------------------
(* The order of a prune                                                    *)

\* The oldest attempt of a list of paths is one of them.
LEMMA OldestIsIn ==
    ASSUME NEW paths, paths \subseteq Attempted, paths # {}
    PROVE  Oldest(paths) \in paths
<1>1. \A x \in paths : x[1] \in Nat /\ x[2] \in Nat
  BY BoundsAssumption DEF Attempted
<1> DEFINE js == {x[1] : x \in paths}
<1>2. js \subseteq Nat /\ js # {}
  BY <1>1
<1>3. PICK j \in js : \A i \in js : j <= i
  BY <1>2, LeastExists
<1> DEFINE ns == {x[2] : x \in {y \in paths : y[1] = j}}
<1>4. ns \subseteq Nat /\ ns # {}
  BY <1>1, <1>3
<1>5. PICK n \in ns : \A m \in ns : n <= m
  BY <1>4, LeastExists
<1>6. PICK x \in paths : x[1] = j /\ x[2] = n
  BY <1>5
<1>7. \A y \in paths : x[1] < y[1] \/ (x[1] = y[1] /\ x[2] <= y[2])
  <2> SUFFICES ASSUME NEW y \in paths
               PROVE  x[1] < y[1] \/ (x[1] = y[1] /\ x[2] <= y[2])
    OBVIOUS
  <2>1. y[1] \in js /\ j <= y[1] /\ j \in Nat /\ y[1] \in Nat
    BY <1>1, <1>2, <1>3
  <2>2. y[1] = j => y[2] \in ns
    OBVIOUS
  <2>3. y[1] = j => n <= y[2]
    BY <1>5, <2>2
  <2> QED
    BY <1>6, <2>1, <2>3
<1> QED
  BY <1>6, <1>7 DEF Oldest

-----------------------------------------------------------------------------
(* What no transaction undoes                                              *)

\* The step adds one of these events to the log of j.
Adds(j, events) ==
    \E i \in DOMAIN log'[j] : i > Len(log[j]) /\ log'[j][i] \in events

\* Ids are not used again, attempts and events are only added, a settled row
\* changes only by a retry, and nobody but w gains a job, or loses one that
\* has not been canceled or retried.
QueueKept(w) ==
    /\ lastId' \in Nat /\ clock' \in Nat
    /\ lastId <= lastId' /\ clock <= clock'
    /\ \A j \in JobIds' : j \in JobIds \/ j > lastId
    /\ \A j \in JobIds' : \A n \in DOMAIN attempts'[j] :
         n \in 1..MaxAttempts \/ (j \in JobIds /\ n \in DOMAIN attempts[j])
    /\ \A j \in JobIds \cap JobIds' :
         /\ DOMAIN attempts[j] \subseteq DOMAIN attempts'[j]
         /\ DOMAIN log[j] \subseteq DOMAIN log'[j]
         /\ \A i \in DOMAIN log[j] : log'[j][i] = log[j][i]
         /\ jobs[j].state \in ActiveStates \/ jobs'[j] = jobs[j] \/ Adds(j, {"retried"})
    /\ \A j \in JobIds', r \in Runners \ {w} :
         /\ Owns(j, r, r)' => Owns(j, r, r)
         /\ Owns(j, r, r) => Owns(j, r, r)' \/ Adds(j, {"canceled", "retried"})

\* The step rewrites job j and keeps all of that for it.
KeepsJob(w, j, row, tries, events) ==
    /\ DOMAIN attempts[j] \subseteq DOMAIN tries
    /\ DOMAIN tries \subseteq DOMAIN attempts[j] \cup 1..MaxAttempts
    /\ DOMAIN log[j] \subseteq DOMAIN events
    /\ \A i \in DOMAIN log[j] : events[i] = log[j][i]
    /\ \/ jobs[j].state \in ActiveStates
       \/ Len(log[j]) + 1 \in DOMAIN events /\ events[Len(log[j]) + 1] = "retried"
    /\ row.state = "running" => row.locked_by = w
    /\ \/ \A r \in Runners \ {w} : ~Owns(j, r, r)
       \/ /\ Len(log[j]) + 1 \in DOMAIN events
          /\ events[Len(log[j]) + 1] \in {"canceled", "retried"}

\* A transaction that rewrites one job.
LEMMA OneJobKept ==
    ASSUME StoreInv, NEW w, NEW j \in JobIds, NEW row, NEW tries, NEW events,
           jobs' = [jobs EXCEPT ![j] = row],
           attempts' = [attempts EXCEPT ![j] = tries],
           log' = [log EXCEPT ![j] = events],
           UNCHANGED <<clock, lastId>>,
           KeepsJob(w, j, row, tries, events)
    PROVE  QueueKept(w) /\ JobIds' = JobIds
<1>1. /\ JobIds' = JobIds
      /\ jobs'[j] = row /\ attempts'[j] = tries /\ log'[j] = events
      /\ \A i \in JobIds : i # j => /\ jobs'[i] = jobs[i]
                                    /\ attempts'[i] = attempts[i]
                                    /\ log'[i] = log[i]
  BY DEF StoreInv, TypeOK, JobIds
<1>2. lastId' \in Nat /\ clock' \in Nat /\ lastId <= lastId' /\ clock <= clock'
  BY DEF StoreInv, TypeOK
<1>3. Len(log[j]) \in Nat
  BY DEF StoreInv, TypeOK
<1>4. ASSUME NEW i \in JobIds
      PROVE  /\ DOMAIN attempts[i] \subseteq DOMAIN attempts'[i]
             /\ DOMAIN log[i] \subseteq DOMAIN log'[i]
             /\ \A k \in DOMAIN log[i] : log'[i][k] = log[i][k]
             /\ \A n \in DOMAIN attempts'[i] : n \in 1..MaxAttempts \/ n \in DOMAIN attempts[i]
  BY <1>1 DEF KeepsJob
<1>5. ASSUME NEW i \in JobIds
      PROVE  jobs[i].state \in ActiveStates \/ jobs'[i] = jobs[i] \/ Adds(i, {"retried"})
  BY <1>1, <1>3 DEF KeepsJob, Adds
<1>6. ASSUME NEW i \in JobIds, NEW r \in Runners \ {w}
      PROVE  /\ Owns(i, r, r)' => Owns(i, r, r)
             /\ Owns(i, r, r) => Owns(i, r, r)' \/ Adds(i, {"canceled", "retried"})
  <2>1. CASE i # j
    BY <1>1, <2>1 DEF Owns
  <2>2. CASE i = j
    <3>1. ~Owns(j, r, r)'
      BY <1>1 DEF Owns, KeepsJob
    <3>2. Owns(j, r, r) => Adds(j, {"canceled", "retried"})
      BY <1>1, <1>3 DEF KeepsJob, Adds
    <3> QED
      BY <2>2, <3>1, <3>2
  <2> QED
    BY <2>1, <2>2
<1> QED
  BY <1>1, <1>2, <1>4, <1>5, <1>6 DEF QueueKept

\* Appending an event keeps the ones before it.
LEMMA AppendKeeps ==
    ASSUME NEW events \in Seq(JobEventTypes), NEW e \in JobEventTypes
    PROVE  LET new == Append(events, e)
           IN  /\ DOMAIN events \subseteq DOMAIN new
               /\ \A i \in DOMAIN events : new[i] = events[i]
               /\ Len(events) + 1 \in DOMAIN new
               /\ new[Len(events) + 1] = e
  OBVIOUS

\* A failure keeps the events before it.
LEMMA FailureKeeps ==
    ASSUME NEW events \in Seq(JobEventTypes), NEW e \in JobEventTypes, NEW exhausted \in BOOLEAN
    PROVE  LET new == events \o FailureEvents(e, exhausted)
           IN  /\ DOMAIN events \subseteq DOMAIN new
               /\ \A i \in DOMAIN events : new[i] = events[i]
<1>1. "dead" \in JobEventTypes
  BY DEF JobEventTypes
<1> QED
  BY <1>1, FailureAppends

\* Closing attempts keeps their rows.
LEMMA CloseDomain ==
    ASSUME NEW j, NEW no, NEW state, NEW reason
    PROVE  /\ DOMAIN CloseRunning(j, state, reason) = DOMAIN attempts[j]
           /\ DOMAIN CloseOne(j, no, state, reason) = DOMAIN attempts[j]
  BY DEF CloseRunning, CloseOne

\* add_job_checked: a new id.
LEMMA AddKept ==
    ASSUME StoreInv, NEW s \in Specs, NEW delay, add_job_checked(s, delay, clock),
           Runners \subseteq WorkerIds
    PROVE  QueueKept(NULL) /\ JobIds \subseteq JobIds' /\ lastId' <= MaxJobs
<1>1. /\ JobIds' = JobIds \cup {lastId + 1}
      /\ \A i \in JobIds : i # lastId + 1 => /\ jobs'[i] = jobs[i]
                                             /\ attempts'[i] = attempts[i]
                                             /\ log'[i] = log[i]
      /\ jobs'[lastId + 1].state = "queued" /\ attempts'[lastId + 1] = <<>>
      /\ lastId' = lastId + 1 /\ clock' = clock
  BY DEF add_job_checked, JobIds
<1>2. /\ lastId \in Nat /\ clock \in Nat /\ MaxJobs \in Nat /\ lastId < MaxJobs
      /\ \A i \in JobIds : i # lastId + 1
  BY BoundsAssumption DEF StoreInv, TypeOK, add_job_checked
<1>3. ASSUME NEW i \in JobIds', NEW r
      PROVE  Owns(i, r, r)' <=> Owns(i, r, r)
  BY <1>1, <1>2 DEF Owns
<1>4. lastId' \in Nat /\ clock' \in Nat /\ lastId <= lastId' /\ clock <= clock' /\ lastId' <= MaxJobs
  BY <1>1, <1>2
<1>5. \A j \in JobIds' : j \in JobIds \/ j > lastId
  BY <1>1, <1>2
<1> QED
  BY <1>1, <1>2, <1>3, <1>4, <1>5 DEF QueueKept

\* prune_delete: the rows that stay are as they were.
LEMMA PruneKept ==
    ASSUME StoreInv, NEW ids, NEW states, NEW cutoff, prune_delete(ids, states, cutoff)
    PROVE  /\ QueueKept(NULL)
           /\ JobIds' \subseteq JobIds /\ JobIds \ JobIds' \subseteq ids
           /\ lastId' = lastId
<1>1. /\ JobIds' = JobIds \ (ids \cap Prunable(states, cutoff))
      /\ \A i \in JobIds' : /\ jobs'[i] = jobs[i]
                            /\ attempts'[i] = attempts[i]
                            /\ log'[i] = log[i]
      /\ lastId' = lastId /\ clock' = clock
  BY DEF prune_delete, JobIds
<1>2. lastId \in Nat /\ clock \in Nat
  BY DEF StoreInv, TypeOK
<1>3. ASSUME NEW i \in JobIds', NEW r
      PROVE  Owns(i, r, r)' <=> Owns(i, r, r)
  BY <1>1 DEF Owns
<1> QED
  BY <1>1, <1>2, <1>3 DEF QueueKept

\* cancel_job cancels.
LEMMA CancelKept ==
    ASSUME StoreInv, NEW j \in JobIds, NEW allow_running \in BOOLEAN,
           cancel_job(j, allow_running, clock)
    PROVE  QueueKept(NULL) /\ JobIds' = JobIds
<1> DEFINE events == Append(log[j], "canceled")
<1>1. jobs[j] \in JobRow /\ log[j] \in Seq(JobEventTypes)
  BY RowFacts
<1>2. /\ DOMAIN log[j] \subseteq DOMAIN events
      /\ \A i \in DOMAIN log[j] : events[i] = log[j][i]
      /\ Len(log[j]) + 1 \in DOMAIN events
      /\ events[Len(log[j]) + 1] = "canceled"
  BY <1>1, AppendKeeps DEF JobEventTypes
<1>3. log' = [log EXCEPT ![j] = events] /\ UNCHANGED <<clock, lastId>>
  BY DEF cancel_job
<1> HIDE DEF events
<1>4. CASE jobs[j].state = "queued"
  <2> DEFINE row == [jobs[j] EXCEPT !.state = "canceled", !.finished_at = clock]
  <2>1. jobs' = [jobs EXCEPT ![j] = row] /\ attempts' = [attempts EXCEPT ![j] = attempts[j]]
    BY <1>1, <1>4 DEF cancel_job, StoreInv, TypeOK
  <2>2. row.state = "canceled"
    BY <1>1 DEF JobRow
  <2>3. KeepsJob(NULL, j, row, attempts[j], events)
    BY <1>2, <1>4, <2>2 DEF KeepsJob, ActiveStates
  <2> HIDE DEF row
  <2> QED
    BY <1>3, <2>1, <2>3, OneJobKept
<1>5. CASE jobs[j].state = "running"
  <2> DEFINE row == [Unlocked(jobs[j]) EXCEPT !.state = "canceled", !.finished_at = clock]
             tries == CloseRunning(j, "canceled", "canceled")
  <2>1. jobs' = [jobs EXCEPT ![j] = row] /\ attempts' = [attempts EXCEPT ![j] = tries]
    BY <1>5 DEF cancel_job
  <2>2. row.state = "canceled"
    BY <1>1 DEF JobRow, Unlocked
  <2>3. DOMAIN tries = DOMAIN attempts[j]
    BY CloseDomain
  <2>4. KeepsJob(NULL, j, row, tries, events)
    BY <1>2, <1>5, <2>2, <2>3 DEF KeepsJob, ActiveStates
  <2> HIDE DEF row, tries
  <2> QED
    BY <1>3, <2>1, <2>4, OneJobKept
<1> QED
  BY <1>4, <1>5 DEF cancel_job

\* retry_job retries.
LEMMA RetryKept ==
    ASSUME StoreInv, NEW j \in JobIds, NEW force \in BOOLEAN,
           retry_job(j, force, clock)
    PROVE  QueueKept(NULL) /\ JobIds' = JobIds
<1> DEFINE events == Append(log[j], "retried")
           row == FreshBudget(jobs[j], clock)
           tries == IF force THEN CloseRunning(j, "abandoned", "canceled")
                             ELSE attempts[j]
<1>1. jobs[j] \in JobRow /\ log[j] \in Seq(JobEventTypes)
  BY RowFacts
<1>2. /\ DOMAIN log[j] \subseteq DOMAIN events
      /\ \A i \in DOMAIN log[j] : events[i] = log[j][i]
      /\ Len(log[j]) + 1 \in DOMAIN events
      /\ events[Len(log[j]) + 1] = "retried"
  BY <1>1, AppendKeeps DEF JobEventTypes
<1>3. log' = [log EXCEPT ![j] = events] /\ UNCHANGED <<clock, lastId>>
  BY DEF retry_job
<1>4. jobs' = [jobs EXCEPT ![j] = row] /\ attempts' = [attempts EXCEPT ![j] = tries]
  BY DEF retry_job, StoreInv, TypeOK
<1>5. row.state = "queued"
  BY <1>1 DEF JobRow, FreshBudget, Unlocked
<1>6. DOMAIN tries = DOMAIN attempts[j]
  BY CloseDomain
<1> HIDE DEF row, tries, events
<1>7. KeepsJob(NULL, j, row, tries, events)
  BY <1>2, <1>5, <1>6 DEF KeepsJob
<1> QED
  BY <1>3, <1>4, <1>7, OneJobKept

\* claim_next takes a job that nobody owns, under a new attempt number.
LEMMA ClaimKept ==
    ASSUME StoreInv, NEW j \in JobIds, NEW w \in WorkerIds, NEW lane,
           claim_next(j, w, w, lane, clock)
    PROVE  /\ QueueKept(w) /\ JobIds' = JobIds /\ lastId' = lastId
           /\ Owns(j, w, w)'
           /\ NextAttemptNo(j) \in 1..MaxAttempts
           /\ NextAttemptNo(j) \in DOMAIN attempts'[j]
           /\ NextAttemptNo(j) \notin DOMAIN attempts[j]
<1> DEFINE events == Append(log[j], "claimed")
           row == [jobs[j] EXCEPT !.state = "running", !.locked_by = w,
                                  !.locked_pid = w, !.heartbeat_at = clock]
           try == [worker_id |-> w, worker_pid |-> w,
                   state |-> "running", failure_reason |-> NULL]
           tries == [n \in DOMAIN attempts[j] \cup {NextAttemptNo(j)} |->
                       IF n = NextAttemptNo(j) THEN try ELSE attempts[j][n]]
<1>1. jobs[j] \in JobRow /\ log[j] \in Seq(JobEventTypes)
  BY RowFacts
<1>2. /\ DOMAIN log[j] \subseteq DOMAIN events
      /\ \A i \in DOMAIN log[j] : events[i] = log[j][i]
  BY <1>1, AppendKeeps DEF JobEventTypes
<1>3. /\ jobs' = [jobs EXCEPT ![j] = row] /\ attempts' = [attempts EXCEPT ![j] = tries]
      /\ log' = [log EXCEPT ![j] = events] /\ UNCHANGED <<clock, lastId>>
  BY DEF claim_next
<1>4. row.state = "running" /\ row.locked_by = w /\ row.locked_pid = w
  BY <1>1 DEF JobRow
<1>5. jobs[j].state = "queued" /\ Cardinality(DOMAIN attempts[j]) < MaxAttempts
  BY DEF claim_next, CanClaim, Claimable, Due
<1>6. DOMAIN tries = DOMAIN attempts[j] \cup {NextAttemptNo(j)}
  OBVIOUS
<1>7. /\ NextAttemptNo(j) \in 1..MaxAttempts
      /\ NextAttemptNo(j) \notin DOMAIN attempts[j]
  <2>1. PICK n \in Nat : DOMAIN attempts[j] = 1..n /\ NextAttemptNo(j) = n + 1
    BY NextAttemptNoIsLen DEF StoreInv
  <2>2. Cardinality(1..n) = n
    BY FS_Interval
  <2> QED
    BY <1>5, <2>1, <2>2, BoundsAssumption
<1> HIDE DEF row, tries, events
<1>8. KeepsJob(w, j, row, tries, events)
  BY <1>2, <1>4, <1>5, <1>6, <1>7 DEF KeepsJob, ActiveStates, Owns
<1>9. QueueKept(w) /\ JobIds' = JobIds
  BY <1>3, <1>8, OneJobKept
<1>10. jobs'[j] = row /\ attempts'[j] = tries
  BY <1>3 DEF StoreInv, TypeOK, JobIds
<1>11. Owns(j, w, w)'
  BY <1>4, <1>9, <1>10 DEF Owns
<1> QED
  BY <1>3, <1>6, <1>7, <1>9, <1>10, <1>11

\* record_success and record_failure end the claim of their worker.
LEMMA RecordKept ==
    ASSUME StoreInv, NEW j \in JobIds, NEW w, NEW no, NEW reason,
           \/ record_success(j, no, w, w, clock)
           \/ record_failure(j, no, w, w, reason, clock)
    PROVE  QueueKept(w) /\ JobIds' = JobIds
<1>1. jobs[j] \in JobRow /\ log[j] \in Seq(JobEventTypes)
  BY RowFacts
<1>2. jobs[j].state = "running" /\ \A r \in Runners \ {w} : ~Owns(j, r, r)
  BY DEF record_success, record_failure, Owns
<1>3. CASE record_success(j, no, w, w, clock)
  <2> DEFINE events == Append(log[j], "succeeded")
             row == [Unlocked(jobs[j]) EXCEPT !.state = "done", !.finished_at = clock]
             tries == CloseOne(j, no, "succeeded", NULL)
  <2>1. /\ jobs' = [jobs EXCEPT ![j] = row] /\ attempts' = [attempts EXCEPT ![j] = tries]
        /\ log' = [log EXCEPT ![j] = events] /\ UNCHANGED <<clock, lastId>>
    BY <1>3 DEF record_success
  <2>2. row.state = "done"
    BY <1>1 DEF JobRow, Unlocked
  <2>3. DOMAIN tries = DOMAIN attempts[j]
    BY CloseDomain
  <2>4. /\ DOMAIN log[j] \subseteq DOMAIN events
        /\ \A i \in DOMAIN log[j] : events[i] = log[j][i]
    BY <1>1, AppendKeeps DEF JobEventTypes
  <2> HIDE DEF row, tries, events
  <2>5. KeepsJob(w, j, row, tries, events)
    BY <1>2, <2>2, <2>3, <2>4 DEF KeepsJob, ActiveStates
  <2> QED
    BY <2>1, <2>5, OneJobKept
<1>4. CASE record_failure(j, no, w, w, reason, clock)
  <2> DEFINE exhausted == RetriesExhausted(jobs[j])
             e == FailureKind(reason)
             row == Requeued(jobs[j], exhausted, jobs[j].attempts + 1, jobs[j].crashes, clock)
             events == log[j] \o FailureEvents(e, exhausted)
             tries == CloseOne(j, no, e, reason)
  <2>1. /\ jobs' = [jobs EXCEPT ![j] = row] /\ attempts' = [attempts EXCEPT ![j] = tries]
        /\ log' = [log EXCEPT ![j] = events] /\ UNCHANGED <<clock, lastId>>
    BY <1>4 DEF record_failure
  <2>2. e \in JobEventTypes /\ exhausted \in BOOLEAN
    BY DEF FailureKind, JobEventTypes, RetriesExhausted
  <2>3. row.state # "running"
    <3> HIDE DEF exhausted
    <3> QED
      BY <1>1 DEF JobRow, Requeued, Unlocked
  <2>4. DOMAIN tries = DOMAIN attempts[j]
    BY CloseDomain
  <2> HIDE DEF exhausted, e
  <2>5. /\ DOMAIN log[j] \subseteq DOMAIN events
        /\ \A i \in DOMAIN log[j] : events[i] = log[j][i]
    BY <1>1, <2>2, FailureKeeps
  <2> HIDE DEF row, tries, events
  <2>6. KeepsJob(w, j, row, tries, events)
    BY <1>2, <2>3, <2>4, <2>5 DEF KeepsJob, ActiveStates
  <2> QED
    BY <2>1, <2>6, OneJobKept
<1> QED
  BY <1>3, <1>4

\* reap ends the claim of the worker whose pid it was given.
LEMMA ReapKept ==
    ASSUME StoreInv, NEW j \in JobIds, NEW w, NEW cutoff,
           reap(j, w, cutoff, clock)
    PROVE  QueueKept(w) /\ JobIds' = JobIds
<1> DEFINE exhausted == CrashesExhausted(jobs[j])
           row == Requeued(jobs[j], exhausted, jobs[j].attempts + 1,
                           jobs[j].crashes + 1, clock)
           events == log[j] \o FailureEvents("reaped", exhausted)
           tries == CloseRunning(j, "abandoned", "worker_crash")
<1>1. jobs[j] \in JobRow /\ log[j] \in Seq(JobEventTypes)
  BY RowFacts
<1>2. jobs[j].state = "running" /\ \A r \in Runners \ {w} : ~Owns(j, r, r)
  BY DEF reap, Reapable, Stale, Owns
<1>3. /\ jobs' = [jobs EXCEPT ![j] = row] /\ attempts' = [attempts EXCEPT ![j] = tries]
      /\ log' = [log EXCEPT ![j] = events] /\ UNCHANGED <<clock, lastId>>
  BY DEF reap
<1>4. exhausted \in BOOLEAN
  BY DEF CrashesExhausted
<1> HIDE DEF exhausted
<1>5. row.state # "running"
  BY <1>1 DEF JobRow, Requeued, Unlocked
<1>6. DOMAIN tries = DOMAIN attempts[j]
  BY CloseDomain
<1>7. /\ DOMAIN log[j] \subseteq DOMAIN events
      /\ \A i \in DOMAIN log[j] : events[i] = log[j][i]
  BY <1>1, <1>4, FailureKeeps DEF JobEventTypes
<1> HIDE DEF row, tries, events
<1>8. KeepsJob(w, j, row, tries, events)
  BY <1>2, <1>5, <1>6, <1>7 DEF KeepsJob, ActiveStates
<1> QED
  BY <1>3, <1>8, OneJobKept

-----------------------------------------------------------------------------
(* A transaction and what the processes know                               *)

\* What is lost stays lost: ids are not used again and events stay.
LEMMA LostStays ==
    ASSUME StoreInv, NEW w, QueueKept(w), NEW j \in Nat, j <= lastId, Lost(j)
    PROVE  Lost(j)'
<1>1. lastId \in Nat
  BY DEF StoreInv, TypeOK
<1>2. CASE j \notin JobIds
  BY <1>1, <1>2 DEF QueueKept, Lost
<1>3. CASE j \in JobIds /\ j \in JobIds'
  BY <1>3 DEF QueueKept, Lost, Overruled
<1>4. CASE j \notin JobIds'
  BY <1>4 DEF Lost
<1> QED
  BY <1>2, <1>3, <1>4

\* A job is owned until it is lost.
LEMMA OwnedOrLost ==
    ASSUME StoreInv, NEW w, QueueKept(w), NEW r \in Runners, r # w, NEW j \in Nat,
           j <= lastId, Owns(j, r, r) \/ Lost(j)
    PROVE  (Owns(j, r, r) \/ Lost(j))'
<1>1. CASE Lost(j)
  BY <1>1, LostStays
<1>2. CASE Owns(j, r, r) /\ j \in JobIds'
  <2>1. Owns(j, r, r)' \/ Adds(j, {"canceled", "retried"})
    BY <1>2 DEF QueueKept
  <2>2. Adds(j, {"canceled", "retried"}) => Overruled(j)'
    BY DEF Adds, Overruled
  <2> QED
    BY <2>1, <2>2 DEF Lost
<1>3. CASE j \notin JobIds'
  BY <1>3 DEF Lost
<1> QED
  BY <1>1, <1>2, <1>3

\* An attempt keeps its row.
LEMMA RowStays ==
    ASSUME StoreInv, NEW w, QueueKept(w), NEW j, NEW no, HasRow(j, no)
    PROVE  HasRow(j, no)'
<1>1. lastId \in Nat /\ lastId' \in Nat /\ lastId <= lastId'
  BY DEF StoreInv, TypeOK, QueueKept
<1>2. j \in 1..lastId /\ j \in 1..lastId'
  BY <1>1 DEF HasRow
<1>3. j \in JobIds' => j \in JobIds
  BY <1>1, <1>2 DEF QueueKept
<1> QED
  BY <1>2, <1>3 DEF HasRow, QueueKept

\* Another worker's transaction leaves a worker with what it knew.
LEMMA BystanderKept ==
    ASSUME StoreInv, RunnerTypes, NEW w, QueueKept(w),
           NEW r \in Runners, r # w, KnowsJob(r),
           runner'[r] = runner[r], UNCHANGED fileVars
    PROVE  KnowsJob(r)'
<1>1. PICK j \in Nat, no \in Nat : j = runner[r].job /\ no = runner[r].no /\ j <= lastId
  BY DEF RunnerTypes, RunnerRecords
<1>2. Lost(j) => Lost(j)'
  BY <1>1, LostStays
<1>3. Owns(j, r, r) \/ Lost(j) => (Owns(j, r, r) \/ Lost(j))'
  BY <1>1, OwnedOrLost
<1>4. HasRow(j, no) => HasRow(j, no)'
  BY RowStays
<1>5. /\ runner'[r].job = j /\ runner'[r].no = no
      /\ (Busy(r))' <=> Busy(r)
      /\ (Mine(r))' = Mine(r)
  BY <1>1 DEF Busy, Mine
<1>6. Busy(r) => HasRow(j, no) /\ (Owns(j, r, r) \/ Lost(j))
  BY <1>1 DEF KnowsJob
<1>7. (Busy(r) => HasRow(runner[r].job, runner[r].no)
                  /\ (Owns(runner[r].job, r, r) \/ Lost(runner[r].job)))'
  BY <1>3, <1>4, <1>5, <1>6
<1> QED
  BY <1>1, <1>2, <1>5, <1>7 DEF KnowsJob, fileVars

\* The prune's matches stay what they were, or are retried.
LEMMA MatchesKept ==
    ASSUME StoreInv, PruneInv, NEW w, QueueKept(w), JobIds \subseteq JobIds', UNCHANGED prune,
           TypeOK'
    PROVE  PruneInv'
<1>1. First' = First
  BY DEF First
<1>2. clock \in Nat /\ clock' \in Nat /\ clock <= clock'
  BY DEF StoreInv, TypeOK, QueueKept
<1>3. ASSUME NEW j \in prune.ids
      PROVE  /\ prune.seen[j] \in 0..Len(log'[j])
             /\ (j \in Prunable(PrunableStates, prune.cutoff) \/ RetriedSinceMatch(j))'
  <2>1. j \in JobIds /\ j \in JobIds'
    BY DEF PruneInv
  <2>2. /\ log[j] \in Seq(JobEventTypes) /\ log'[j] \in Seq(JobEventTypes)
        /\ DOMAIN log[j] \subseteq DOMAIN log'[j]
        /\ \A i \in DOMAIN log[j] : log'[j][i] = log[j][i]
    BY <2>1 DEF QueueKept, StoreInv, TypeOK
  <2>3. PICK m \in Nat, n \in Nat : /\ m = Len(log[j]) /\ n = Len(log'[j])
                                    /\ DOMAIN log[j] = 1..m /\ DOMAIN log'[j] = 1..n
    BY <2>2
  <2>4. m <= n
    <3>1. CASE m = 0
      BY <3>1
    <3>2. CASE m # 0
      <4>1. m \in 1..m
        BY <3>2
      <4>2. m \in 1..n
        BY <2>2, <2>3, <4>1
      <4> QED
        BY <4>2
    <3> QED
      BY <3>1, <3>2
  <2>5. prune.seen[j] \in 0..m
    BY <2>3 DEF PruneInv
  <2>6. prune.seen[j] \in 0..n
    BY <2>4, <2>5
  <2>7. RetriedSinceMatch(j) => RetriedSinceMatch(j)'
    BY <2>1, <2>2 DEF RetriedSinceMatch
  <2>8. ASSUME j \in Prunable(PrunableStates, prune.cutoff)
        PROVE  (j \in Prunable(PrunableStates, prune.cutoff) \/ RetriedSinceMatch(j))'
    <3>1. jobs[j].state \notin ActiveStates
      BY <2>8 DEF Prunable, PrunableStates, ActiveStates
    <3>2. jobs'[j] = jobs[j] => (j \in Prunable(PrunableStates, prune.cutoff))'
      BY <2>1, <2>8 DEF Prunable
    <3>3. ASSUME Adds(j, {"retried"}) PROVE RetriedSinceMatch(j)'
      <4>1. PICK i \in DOMAIN log'[j] : i > m /\ log'[j][i] = "retried"
        BY <2>3, <3>3 DEF Adds
      <4>2. i > prune.seen[j]
        BY <2>3, <2>5, <4>1
      <4> QED
        BY <2>1, <4>1, <4>2 DEF RetriedSinceMatch
    <3> QED
      BY <2>1, <3>1, <3>2, <3>3 DEF QueueKept
  <2> QED
    BY <2>3, <2>6, <2>7, <2>8 DEF PruneInv
<1>4. prune.cutoff \in 0..clock'
  BY <1>2 DEF PruneInv
<1>5. prune.ids \subseteq JobIds'
  BY DEF PruneInv
<1> QED
  BY <1>1, <1>3, <1>4, <1>5 DEF PruneInv

\* What is on disk stays described.
LEMMA DiskKept ==
    ASSUME StoreInv, DiskInv, NEW w, QueueKept(w), UNCHANGED <<fileVars, prune, historyVars>>
    PROVE  DiskInv'
<1>1. First' = First
  BY DEF First
<1>2. lastId \in Nat /\ lastId' \in Nat /\ lastId <= lastId'
  BY DEF StoreInv, TypeOK, QueueKept
<1>3. jobDirs \subseteq 1..lastId'
  BY <1>2 DEF DiskInv
<1>4. \A x \in files \cup attemptDirs : HasRow(x[1], x[2])'
  BY RowStays DEF DiskInv
<1>5. \A j \in jobDirs : j \in JobIds' => 1 \in DOMAIN attempts'[j]
  BY <1>2 DEF DiskInv, QueueKept
<1> QED
  BY <1>1, <1>3, <1>4, <1>5 DEF DiskInv, fileVars, historyVars

\* A transaction that leaves the disk, the prune and every worker but w alone
\* keeps the invariant, if w does.
LEMMA TransactionKept ==
    ASSUME OutputSafe, StoreInv', RunnerTypes', NEW w, QueueKept(w), JobIds \subseteq JobIds',
           UNCHANGED <<fileVars, prune, historyVars>>,
           \A r \in Runners : r # w => runner'[r] = runner[r],
           w \in Runners =>
             /\ KnowsJob(w)' /\ KeepsOutput(w)'
             /\ \A q \in Runners : q # w /\ Busy(q) /\ Busy(w)' => Mine(q) # Mine(w)'
    PROVE  OutputSafe'
<1>1. PruneInv'
  BY MatchesKept DEF OutputSafe, StoreInv
<1>2. DiskInv'
  BY DiskKept DEF OutputSafe
<1>3. \A r \in Runners : KnowsJob(r)'
  <2> SUFFICES ASSUME NEW r \in Runners PROVE KnowsJob(r)'
    OBVIOUS
  <2>1. CASE r = w
    BY <2>1
  <2>2. CASE r # w
    BY <2>2, BystanderKept DEF OutputSafe, RunnerInv
  <2> QED
    BY <2>1, <2>2
<1>4. \A r \in Runners : r # w => /\ Mine(r)' = Mine(r) /\ (Busy(r)' <=> Busy(r))
                                  /\ (Writing(r)' <=> Writing(r))
  BY DEF Mine, Busy, Writing
<1>5. ASSUME NEW q \in Runners, NEW r \in Runners, Busy(q)', Busy(r)', q # r
      PROVE  Mine(q)' # Mine(r)'
  <2>1. CASE q # w /\ r # w
    BY <1>4, <1>5, <2>1 DEF OutputSafe, RunnerInv
  <2>2. CASE q = w
    <3>1. Busy(r) /\ Busy(w)' /\ Mine(r) # Mine(w)' /\ Mine(r)' = Mine(r)
      BY <1>4, <1>5, <2>2
    <3> QED
      BY <2>2, <3>1
  <2>3. CASE r = w
    <3>1. Busy(q) /\ Busy(w)' /\ Mine(q) # Mine(w)' /\ Mine(q)' = Mine(q)
      BY <1>4, <1>5, <2>3
    <3> QED
      BY <2>3, <3>1
  <2> QED
    BY <2>1, <2>2, <2>3
<1>6. OrphansAreLate'
  BY DEF OutputSafe, OrphansAreLate, fileVars, historyVars
<1>7. OwnedOutputKept'
  <2> SUFFICES ASSUME NEW r \in Runners PROVE KeepsOutput(r)'
    BY DEF OwnedOutputKept, KeepsOutput
  <2>1. CASE r = w
    BY <2>1
  <2>2. CASE r # w
    <3> SUFFICES ASSUME Writing(r)', Owns(runner[r].job, r, r)'
                 PROVE  (Mine(r) \in files \cup struck)'
      BY DEF KeepsOutput
    <3>1. PICK j : j = runner[r].job
      OBVIOUS
    <3>2. Owns(j, r, r)' /\ j \in JobIds'
      BY <2>2, <3>1 DEF Owns
    <3>3. Owns(j, r, r)
      BY <2>2, <3>2 DEF QueueKept
    <3> QED
      BY <1>4, <2>2, <3>1, <3>3 DEF OutputSafe, OwnedOutputKept, fileVars, historyVars
  <2> QED
    BY <2>1, <2>2
<1>8. AttemptsBounded'
  BY DEF OutputSafe, AttemptsBounded, QueueKept
<1> QED
  BY <1>1, <1>2, <1>3, <1>5, <1>6, <1>7, <1>8 DEF OutputSafe, RunnerInv

\* NULL is no worker.
LEMMA NullIsNobody == NULL \notin Runners
  BY RunnersAssumption, CallersAssumption

\* Clients and the clock.
LEMMA OthersKept ==
    ASSUME OutputSafe, Others
    PROVE  OutputSafe'
<1>1. StoreInv /\ RunnerTypes
  BY DEF OutputSafe
<1>2. UNCHANGED <<runner, jobDirs, attemptDirs, files, prune, left, late, taken, struck>>
  BY DEF Others, outputVars, fileVars, historyVars
<1>3. StoreInv' /\ QueueKept(NULL) /\ JobIds \subseteq JobIds' /\ lastId' <= MaxJobs
  <2>1. lastId <= MaxJobs
    BY <1>1 DEF RunnerTypes
  <2>2. CASE Tick
    <3>1. /\ JobIds' = JobIds /\ UNCHANGED <<lastId, jobs, attempts, log>>
          /\ lastId \in Nat /\ clock \in Nat /\ clock' = clock + 1
      BY <1>1, <2>2 DEF Tick, JobIds, StoreInv, TypeOK
    <3>2. StoreInv'
      BY <1>1, <2>2, StoreStep DEF StoreNext
    <3>3. \A j, r : Owns(j, r, r)' <=> Owns(j, r, r)
      BY <3>1 DEF Owns
    <3> QED
      BY <2>1, <3>1, <3>2, <3>3 DEF QueueKept
  <2>3. ASSUME NEW s \in Specs, NEW delay \in Delays, add_job_checked(s, delay, clock)
        PROVE  StoreInv' /\ QueueKept(NULL) /\ JobIds \subseteq JobIds' /\ lastId' <= MaxJobs
    BY <1>1, <2>3, AddPreserves, AddKept, RunnersAssumption
  <2>4. ASSUME NEW j \in JobIds, NEW allow_running \in BOOLEAN,
               cancel_job(j, allow_running, clock)
        PROVE  StoreInv' /\ QueueKept(NULL) /\ JobIds \subseteq JobIds' /\ lastId' <= MaxJobs
    <3>1. lastId' = lastId
      BY <2>4 DEF cancel_job
    <3> QED
      BY <1>1, <2>1, <2>4, <3>1, CancelPreserves, CancelKept
  <2>5. ASSUME NEW j \in JobIds, NEW force \in BOOLEAN, retry_job(j, force, clock)
        PROVE  StoreInv' /\ QueueKept(NULL) /\ JobIds \subseteq JobIds' /\ lastId' <= MaxJobs
    <3>1. lastId' = lastId
      BY <2>5 DEF retry_job
    <3> QED
      BY <1>1, <2>1, <2>5, <3>1, RetryPreserves, RetryKept
  <2> QED
    BY <2>2, <2>3, <2>4, <2>5 DEF Others
<1>4. RunnerTypes'
  BY <1>1, <1>2, <1>3 DEF RunnerTypes, RunnerRecords, QueueKept, StoreInv, TypeOK
<1>5. NULL \notin Runners
  BY NullIsNobody
<1>6. UNCHANGED <<fileVars, prune, historyVars>> /\ \A r \in Runners : runner'[r] = runner[r]
  BY <1>2 DEF fileVars, historyVars
<1> QED
  BY <1>3, <1>4, <1>5, <1>6, TransactionKept

\* A worker's record changes within its type.
LEMMA RunnerTyped ==
    ASSUME RunnerTypes, StoreInv, NEW r \in Runners, NEW c \in RunnerRecords,
           OutcomeOk(c), c.job <= lastId,
           runner' = [runner EXCEPT ![r] = c], left' \in Remaining, UNCHANGED lastId
    PROVE  RunnerTypes' /\ runner'[r] = c /\ \A q \in Runners : q # r => runner'[q] = runner[q]
  BY DEF RunnerTypes

\* A claim.
LEMMA ClaimStep ==
    ASSUME OutputSafe, NEW r \in Runners, Claim(r)
    PROVE  OutputSafe'
<1>1. StoreInv /\ RunnerTypes /\ r \in WorkerIds /\ r \in Pids
  BY RunnersAssumption DEF OutputSafe
<1>2. PICK j \in JobIds, lane \in Lanes :
        /\ claim_next(j, r, r, lane, clock)
        /\ runner' = [runner EXCEPT ![r] =
                        [Idle EXCEPT !.pc = "reread", !.job = j, !.no = NextAttemptNo(j)]]
  BY DEF Claim
<1>3. PICK no : no = NextAttemptNo(j)
  OBVIOUS
<1> DEFINE c == [Idle EXCEPT !.pc = "reread", !.job = j, !.no = no]
<1>4. runner' = [runner EXCEPT ![r] = c]
  BY <1>2, <1>3
<1>5. StoreInv'
  BY <1>1, <1>2, ClaimPreserves
<1>6. /\ QueueKept(r) /\ JobIds' = JobIds /\ lastId' = lastId
      /\ Owns(j, r, r)'
      /\ no \in 1..MaxAttempts /\ no \in DOMAIN attempts'[j] /\ no \notin DOMAIN attempts[j]
  BY <1>1, <1>2, <1>3, ClaimKept
<1>7. j \in 1..lastId /\ lastId \in Nat /\ MaxAttempts \in Nat
  BY <1>1, BoundsAssumption DEF StoreInv, TypeOK
<1>8. c \in RunnerRecords /\ OutcomeOk(c) /\ c.job <= lastId
  <2>1. j \in Nat /\ no \in Nat
    BY <1>6, <1>7
  <2>2. c.pc = "reread" /\ c.job = j /\ c.kind = NULL
    BY DEF Idle
  <2>3. c \in RunnerRecords
    BY <2>1 DEF Idle, RunnerRecords, NoGroup, BusyPlaces, Early
  <2> HIDE DEF c
  <2> QED
    BY <1>7, <2>2, <2>3, RunnersAssumption DEF OutcomeOk
<1>9. UNCHANGED <<jobDirs, attemptDirs, files, prune, left, late, taken, struck>>
  BY DEF Claim, fileVars, historyVars
<1>10. RunnerTypes' /\ runner'[r] = c /\ \A q \in Runners : q # r => runner'[q] = runner[q]
  BY <1>1, <1>4, <1>6, <1>8, <1>9, RunnerTyped DEF RunnerTypes
<1>11. KnowsJob(r)' /\ ~Writing(r)' /\ Mine(r)' = <<j, no>>
  <2>1. /\ runner'[r].pc = "reread" /\ runner'[r].job = j /\ runner'[r].no = no
        /\ runner'[r].kind = NULL
    BY <1>10 DEF Idle
  <2>2. ~Writing(r)' /\ Mine(r)' = <<j, no>>
    BY <2>1 DEF Writing, Mine
  <2>3. HasRow(j, no)'
    BY <1>6, <1>7 DEF HasRow
  <2>4. <<j, no>> \notin files
    <3>1. ~HasRow(j, no)
      BY <1>6 DEF HasRow
    <3> QED
      BY <3>1 DEF OutputSafe, DiskInv
  <2>5. NULL # "raised"
    BY RunnersAssumption
  <2> QED
    BY <1>6, <1>9, <2>1, <2>2, <2>3, <2>4, <2>5 DEF KnowsJob
<1>12. ASSUME NEW q \in Runners, q # r, Busy(q)
       PROVE  Mine(q) # Mine(r)'
  <2>1. HasRow(runner[q].job, runner[q].no)
    BY <1>12 DEF OutputSafe, RunnerInv, KnowsJob
  <2>2. ~HasRow(j, no)
    BY <1>6 DEF HasRow
  <2> QED
    BY <1>11, <2>1, <2>2 DEF Mine
<1>13. UNCHANGED <<fileVars, prune, historyVars>>
  BY <1>9 DEF fileVars, historyVars
<1>14. KeepsOutput(r)'
  BY <1>11 DEF KeepsOutput
<1> HIDE DEF c
<1> QED
  BY <1>5, <1>6, <1>10, <1>11, <1>12, <1>13, <1>14, TransactionKept

\* Nothing committed: everything is kept.
LEMMA NothingCommitted ==
    ASSUME StoreInv, UNCHANGED storeVars, NEW w
    PROVE  StoreInv' /\ QueueKept(w) /\ JobIds' = JobIds /\ lastId' = lastId
<1>1. StoreInv'
  BY StoreStep
<1>2. UNCHANGED <<clock, lastId, jobs, attempts, log>> /\ JobIds' = JobIds
  BY DEF storeVars, JobIds
<1>3. lastId \in Nat /\ clock \in Nat
  BY DEF StoreInv, TypeOK
<1>4. \A j, r : Owns(j, r, r)' <=> Owns(j, r, r)
  BY <1>2 DEF Owns
<1> QED
  BY <1>1, <1>2, <1>3, <1>4 DEF QueueKept

\* A worker is in the middle of its cycle, or ends it, and touches nothing else.
LEMMA RunnerMoves ==
    ASSUME OutputSafe, NEW r \in Runners, NEW c \in RunnerRecords, OutcomeOk(c),
           UNCHANGED <<storeVars, fileVars, prune, historyVars>>, left' \in Remaining,
           runner' = [runner EXCEPT ![r] = c],
           c.job <= lastId,
           c.pc \in BusyPlaces => Busy(r) /\ c.job = runner[r].job /\ c.no = runner[r].no,
           c.pc \in Early => runner[r].pc \in Early,
           c.pc \notin {"mkdir", "open"},
           c.pc \in {"spawn", "running", "grace", "record"} => Writing(r),
           c.kind = "raised" => Lost(c.job)
    PROVE  OutputSafe'
<1>1. StoreInv /\ RunnerTypes /\ KnowsJob(r) /\ KeepsOutput(r)
  BY DEF OutputSafe, RunnerInv, OwnedOutputKept, KeepsOutput
<1>2. StoreInv' /\ QueueKept(r) /\ JobIds' = JobIds /\ lastId' = lastId
  BY <1>1, NothingCommitted
<1>3. RunnerTypes' /\ runner'[r] = c /\ \A q \in Runners : q # r => runner'[q] = runner[q]
  BY <1>1, <1>2, RunnerTyped
<1>4. UNCHANGED <<jobs, attempts, log, lastId, jobDirs, attemptDirs, files, struck>>
  BY DEF storeVars, fileVars, historyVars
<1>5. KnowsJob(r)'
  <2>1. CASE c.pc \in BusyPlaces
    <3>1. PICK j, no : j = runner[r].job /\ no = runner[r].no
      OBVIOUS
    <3>2. /\ runner'[r].job = j /\ runner'[r].no = no
      BY <1>3, <2>1, <3>1
    <3>3. HasRow(j, no) /\ (Owns(j, r, r) \/ Lost(j))
      BY <1>1, <2>1, <3>1 DEF KnowsJob
    <3>4. HasRow(j, no)' /\ (Owns(j, r, r) \/ Lost(j))'
      BY <1>2, <1>4, <3>3 DEF HasRow, Owns, Lost, Overruled
    <3>5. runner'[r].pc \in Early => (Mine(r) \notin files)'
      BY <1>1, <1>3, <1>4, <2>1 DEF KnowsJob, Mine
    <3>6. c.kind # "raised"
      BY <2>1 DEF OutcomeOk, BusyPlaces, Early
    <3> QED
      BY <1>3, <3>2, <3>4, <3>5, <3>6 DEF KnowsJob
  <2>2. CASE c.pc \notin BusyPlaces
    <3>1. ~Busy(r)' /\ runner'[r].pc \notin Early /\ runner'[r].pc \notin {"mkdir", "open"}
      BY <1>3, <2>2 DEF Busy, BusyPlaces
    <3>2. runner'[r].kind = "raised" => Lost(runner[r].job)'
      BY <1>2, <1>3, <1>4 DEF Lost, Overruled
    <3> QED
      BY <3>1, <3>2 DEF KnowsJob
  <2> QED
    BY <2>1, <2>2
<1>6. KeepsOutput(r)'
  <2> SUFFICES ASSUME Writing(r)', Owns(runner[r].job, r, r)'
               PROVE  (Mine(r) \in files \cup struck)'
    BY DEF KeepsOutput
  <2>1. c.pc \in {"spawn", "running", "grace", "record"}
    BY <1>3 DEF Writing
  <2>2. Writing(r) /\ c.job = runner[r].job /\ c.no = runner[r].no
    BY <2>1 DEF BusyPlaces
  <2>3. Owns(runner[r].job, r, r) /\ Mine(r)' = Mine(r)
    BY <1>2, <1>3, <1>4, <2>2 DEF Owns, Mine
  <2> QED
    BY <1>1, <1>4, <2>2, <2>3 DEF KeepsOutput
<1>7. ASSUME NEW q \in Runners, q # r, Busy(q), Busy(r)'
      PROVE  Mine(q) # Mine(r)'
  <2>1. c.pc \in BusyPlaces
    BY <1>3, <1>7 DEF Busy
  <2>2. Busy(r) /\ Mine(r)' = Mine(r)
    BY <1>3, <2>1 DEF Mine
  <2> QED
    BY <1>7, <2>2 DEF OutputSafe, RunnerInv
<1> QED
  BY <1>2, <1>3, <1>5, <1>6, <1>7, TransactionKept

-----------------------------------------------------------------------------
(* Steps of a worker                                                       *)

\* A worker that ends on an exception had lost its job.
LEMMA RaiseKept ==
    ASSUME OutputSafe, NEW r \in Runners, Lost(runner[r].job), Raise(r),
           UNCHANGED <<storeVars, fileVars, prune, left, historyVars>>
    PROVE  OutputSafe'
<1>1. runner[r] \in RunnerRecords /\ runner[r].job <= lastId /\ left \in Remaining
  BY DEF OutputSafe, RunnerTypes
<1> DEFINE c == [Idle EXCEPT !.pc = "gone", !.job = runner[r].job, !.kind = "raised"]
<1>2. /\ c.pc = "gone" /\ c.job = runner[r].job /\ c.kind = "raised"
      /\ c \in RunnerRecords
  BY <1>1 DEF Idle, NoGroup, RunnerRecords
<1>3. runner' = [runner EXCEPT ![r] = c]
  BY DEF Raise
<1> HIDE DEF c
<1>4. OutcomeOk(c)
  BY <1>2 DEF OutcomeOk
<1>5. c.pc \notin BusyPlaces /\ c.pc \notin Early
  BY <1>2 DEF BusyPlaces, Early
<1> QED
  BY <1>1, <1>2, <1>3, <1>4, <1>5, RunnerMoves

\* The claim is read again.
LEMMA RereadKept ==
    ASSUME OutputSafe, NEW r \in Runners, Reread(r)
    PROVE  OutputSafe'
<1>1. UNCHANGED <<storeVars, fileVars, prune, left, historyVars>> /\ runner[r].pc = "reread"
  BY DEF Reread
<1>2. CASE runner[r].job \notin JobIds
  BY <1>1, <1>2, RaiseKept DEF Reread, Lost
<1>3. CASE runner[r].job \in JobIds
  <2> DEFINE c == [runner[r] EXCEPT !.pc = "makedirs"]
  <2>1. runner' = [runner EXCEPT ![r] = c]
    BY <1>3 DEF Reread, Set
  <2>2. /\ runner[r] \in RunnerRecords /\ runner[r].job <= lastId /\ left \in Remaining
        /\ OutcomeOk(runner[r])
    BY DEF OutputSafe, RunnerTypes
  <2>3. /\ c \in RunnerRecords
        /\ c.pc = "makedirs" /\ c.job = runner[r].job /\ c.no = runner[r].no
        /\ c.kind = runner[r].kind
    BY <2>2 DEF RunnerRecords, BusyPlaces, Early
  <2> HIDE DEF c
  <2>4. OutcomeOk(c) /\ c.kind # "raised"
    BY <1>1, <2>2, <2>3 DEF OutcomeOk
  <2>5. Busy(r) /\ runner[r].pc \in Early
    BY <1>1 DEF Busy, BusyPlaces, Early
  <2> QED
    BY <1>1, <2>1, <2>2, <2>3, <2>4, <2>5, RunnerMoves
<1> QED
  BY <1>2, <1>3

\* The steps of a worker that is running its command: it goes on to pc with
\* this outcome and this group.
LEMMA RunsOn ==
    ASSUME OutputSafe, NEW r \in Runners, NEW c \in RunnerRecords,
           runner[r].pc \in {"spawn", "running", "grace"},
           runner' = [runner EXCEPT ![r] = c],
           c.pc \in {"running", "grace", "record"},
           c.job = runner[r].job, c.no = runner[r].no,
           OutcomeOk(c), c.kind # "raised",
           UNCHANGED <<storeVars, fileVars, prune, left, historyVars>>
    PROVE  OutputSafe'
<1>1. runner[r].job <= lastId /\ left \in Remaining
  BY DEF OutputSafe, RunnerTypes
<1>2. Busy(r) /\ Writing(r) /\ c.pc \notin Early
  BY DEF Busy, Writing, BusyPlaces, Early
<1> QED
  BY <1>1, <1>2, RunnerMoves

\* The command starts, or does not.
LEMMA SpawnKept ==
    ASSUME OutputSafe, NEW r \in Runners, Spawn(r)
    PROVE  OutputSafe'
<1>1. runner[r] \in RunnerRecords /\ OutcomeOk(runner[r])
  BY DEF OutputSafe, RunnerTypes
<1>2. UNCHANGED <<storeVars, fileVars, prune, left, historyVars>> /\ runner[r].pc = "spawn"
  BY DEF Spawn
<1>3. CASE runner' = [runner EXCEPT ![r].pc = "running"]
  <2> DEFINE c == [runner[r] EXCEPT !.pc = "running"]
  <2>1. /\ c \in RunnerRecords /\ c.pc = "running" /\ c.job = runner[r].job
        /\ c.no = runner[r].no /\ c.kind = runner[r].kind
    BY <1>1 DEF RunnerRecords, BusyPlaces, Early
  <2>2. runner' = [runner EXCEPT ![r] = c]
    BY <1>3
  <2> HIDE DEF c
  <2>3. OutcomeOk(c) /\ c.kind # "raised"
    BY <1>1, <1>2, <2>1 DEF OutcomeOk
  <2> QED
    BY <1>2, <2>1, <2>2, <2>3, RunsOn
<1>4. CASE runner' = [runner EXCEPT ![r].pc = "record", ![r].kind = "spawn_failed"]
  <2> DEFINE c == [runner[r] EXCEPT !.pc = "record", !.kind = "spawn_failed"]
  <2>1. /\ c \in RunnerRecords /\ c.pc = "record" /\ c.job = runner[r].job
        /\ c.no = runner[r].no /\ c.kind = "spawn_failed"
    BY <1>1 DEF RunnerRecords, BusyPlaces, Early, Outcomes
  <2>2. runner' = [runner EXCEPT ![r] = c]
    BY <1>4
  <2> HIDE DEF c
  <2>3. OutcomeOk(c) /\ c.kind # "raised"
    BY <2>1 DEF OutcomeOk, Outcomes
  <2> QED
    BY <1>2, <2>1, <2>2, <2>3, RunsOn
<1> QED
  BY <1>3, <1>4 DEF Spawn, Set

\* The command ends.
LEMMA ExitsKept ==
    ASSUME OutputSafe, NEW r \in Runners, Exits(r)
    PROVE  OutputSafe'
<1>1. runner[r] \in RunnerRecords /\ OutcomeOk(runner[r])
  BY DEF OutputSafe, RunnerTypes
<1>2. UNCHANGED <<storeVars, fileVars, prune, left, historyVars>> /\ runner[r].pc = "running"
  BY DEF Exits
<1>3. PICK kind \in {"succeeded", "process_exit"} :
        runner' = [runner EXCEPT ![r].pc = "record", ![r].kind = kind]
  BY DEF Exits
<1> DEFINE c == [runner[r] EXCEPT !.pc = "record", !.kind = kind]
<1>4. /\ c \in RunnerRecords /\ c.pc = "record" /\ c.job = runner[r].job
      /\ c.no = runner[r].no /\ c.kind = kind
  BY <1>1 DEF RunnerRecords, BusyPlaces, Early, Outcomes
<1>5. runner' = [runner EXCEPT ![r] = c]
  BY <1>3
<1> HIDE DEF c
<1>6. OutcomeOk(c) /\ c.kind # "raised"
  BY <1>4 DEF OutcomeOk, Outcomes
<1> QED
  BY <1>2, <1>4, <1>5, <1>6, RunsOn

\* SIGTERM reaches the group: who is left ignores it.
LEMMA TerminateKept ==
    ASSUME OutputSafe, NEW r \in Runners, NEW kind \in {"timeout", "process_exit"},
           runner[r].pc = "running", Terminate(r, kind),
           UNCHANGED <<storeVars, fileVars, prune, left, historyVars>>
    PROVE  OutputSafe'
<1>1. runner[r] \in RunnerRecords /\ left \in Remaining
  BY DEF OutputSafe, RunnerTypes
<1>2. PICK g \in left.groups :
        runner' = [runner EXCEPT ![r].pc = "grace", ![r].kind = kind,
                                 ![r].group = [g EXCEPT !.live = @ \cap g.deaf]]
  BY DEF Terminate
<1>3. /\ g \in [live : SUBSET {"leader", "helper"}, deaf : SUBSET {"leader", "helper"}]
      /\ "leader" \in g.live /\ g.deaf \subseteq g.live
  BY <1>1, RunnersAssumption DEF Remaining
<1> DEFINE h == [g EXCEPT !.live = @ \cap g.deaf]
           c == [runner[r] EXCEPT !.pc = "grace", !.kind = kind, !.group = h]
<1>4. /\ h \in [live : SUBSET {"leader", "helper"}, deaf : SUBSET {"leader", "helper"}]
      /\ h.live = g.live \cap g.deaf /\ h.deaf = g.deaf
  BY <1>3
<1>5. runner' = [runner EXCEPT ![r] = c]
  BY <1>2
<1> HIDE DEF h
<1>6. /\ c \in RunnerRecords /\ c.pc = "grace" /\ c.job = runner[r].job
      /\ c.no = runner[r].no /\ c.kind = kind /\ c.group = h
  BY <1>1, <1>4 DEF RunnerRecords, BusyPlaces, Early, Outcomes
<1> HIDE DEF c
<1>7. OutcomeOk(c) /\ c.kind # "raised"
  BY <1>3, <1>4, <1>6 DEF OutcomeOk
<1> QED
  BY <1>5, <1>6, <1>7, RunsOn

\* After the grace the command is gone, and with it the group if it had to be
\* killed.
LEMMA GraceKept ==
    ASSUME OutputSafe, NEW r \in Runners, Grace(r)
    PROVE  OutputSafe'
<1>1. runner[r] \in RunnerRecords /\ OutcomeOk(runner[r])
  BY DEF OutputSafe, RunnerTypes
<1>2. UNCHANGED <<storeVars, fileVars, prune, left, historyVars>> /\ runner[r].pc = "grace"
  BY DEF Grace
<1> DEFINE g == runner[r].group
           live == IF "leader" \in g.live THEN {} ELSE g.live
           h == [g EXCEPT !.live = live]
           c == [runner[r] EXCEPT !.pc = "record", !.group = h]
<1>3. /\ g \in [live : SUBSET {"leader", "helper"}, deaf : SUBSET {"leader", "helper"}]
      /\ g.live \subseteq g.deaf /\ ("leader" \in g.deaf => "leader" \in g.live)
      /\ runner[r].kind \in {"timeout", "process_exit"}
  BY <1>1, <1>2 DEF OutcomeOk, RunnerRecords
<1>4. runner' = [runner EXCEPT ![r] = c]
  BY <1>1 DEF Grace, RunnerRecords
<1>5. /\ h \in [live : SUBSET {"leader", "helper"}, deaf : SUBSET {"leader", "helper"}]
      /\ h.live = live /\ h.deaf = g.deaf
  BY <1>3
<1>6. /\ "leader" \notin live /\ live \subseteq g.deaf
      /\ live # {} => "leader" \notin g.deaf
  BY <1>3
<1> HIDE DEF h, live
<1>7. /\ c \in RunnerRecords /\ c.pc = "record" /\ c.job = runner[r].job
      /\ c.no = runner[r].no /\ c.kind = runner[r].kind /\ c.group = h
  BY <1>1, <1>5 DEF RunnerRecords, BusyPlaces, Early, Outcomes
<1> HIDE DEF c
<1>8. OutcomeOk(c) /\ c.kind # "raised"
  BY <1>3, <1>5, <1>6, <1>7 DEF OutcomeOk, Outcomes
<1> QED
  BY <1>2, <1>4, <1>7, <1>8, RunsOn

\* A worker is idle again, or gone.
LEMMA RestKept ==
    ASSUME OutputSafe, NEW r \in Runners, NEW pc \in {"idle", "gone"},
           runner' = [runner EXCEPT ![r] = [Idle EXCEPT !.pc = pc]], left' \in Remaining,
           UNCHANGED <<storeVars, fileVars, prune, historyVars>>
    PROVE  OutputSafe'
<1>1. StoreInv
  BY DEF OutputSafe
<1> DEFINE c == [Idle EXCEPT !.pc = pc]
<1>2. c.pc = pc /\ c.job = 0 /\ c.kind = NULL /\ c \in RunnerRecords
  BY DEF Idle, NoGroup, RunnerRecords
<1>3. runner' = [runner EXCEPT ![r] = c]
  OBVIOUS
<1> HIDE DEF c
<1>4. OutcomeOk(c) /\ c.kind # "raised"
  BY <1>2, RunnersAssumption DEF OutcomeOk
<1>5. c.pc \notin BusyPlaces /\ c.pc \notin Early /\ c.job <= lastId
  BY <1>1, <1>2 DEF BusyPlaces, Early, StoreInv, TypeOK
<1> QED
  BY <1>2, <1>3, <1>4, <1>5, RunnerMoves

\* The worker is killed.
LEMMA DieKept ==
    ASSUME OutputSafe, NEW r \in Runners, Die(r)
    PROVE  OutputSafe'
<1>1. left' \in Remaining
  BY DEF OutputSafe, RunnerTypes, Remaining, Die
<1> QED
  BY <1>1, RestKept DEF Die

\* A result is recorded, or discarded.
LEMMA RecordStep ==
    ASSUME OutputSafe, NEW r \in Runners, Record(r)
    PROVE  OutputSafe'
<1>1. StoreInv /\ RunnerTypes /\ left \in Remaining /\ OutcomeOk(runner[r])
  BY DEF OutputSafe, RunnerTypes
<1>2. /\ runner' = [runner EXCEPT ![r] = Idle]
      /\ UNCHANGED <<fileVars, prune, left, historyVars>>
      /\ runner[r].pc = "record"
  BY DEF Record
<1>3. CASE UNCHANGED storeVars
  <2>1. [Idle EXCEPT !.pc = "idle"] = Idle
    BY DEF Idle
  <2> QED
    BY <1>1, <1>2, <1>3, <2>1, RestKept
<1>4. PICK j, no, kind : j = runner[r].job /\ no = runner[r].no /\ kind = runner[r].kind
  OBVIOUS
<1>5. CASE \/ record_success(j, no, r, r, clock)
           \/ kind # "succeeded" /\ record_failure(j, no, r, r, kind, clock)
  <2>1. j \in JobIds
    BY <1>5 DEF record_success, record_failure, Owns
  <2>2. kind # "succeeded" => kind \in {"process_exit", "timeout", "spawn_failed"}
    BY <1>1, <1>2, <1>4 DEF OutcomeOk, Outcomes
  <2>3. StoreInv'
    BY <1>1, <1>5, <2>1, <2>2, SuccessPreserves, FailurePreserves
  <2>4. QueueKept(r) /\ JobIds' = JobIds
    BY <1>1, <1>5, <2>1, RecordKept
  <2>5. lastId' = lastId
    BY <1>5 DEF record_success, record_failure
  <2>6. Idle.pc = "idle" /\ Idle.job = 0 /\ Idle.kind = NULL /\ Idle \in RunnerRecords
    BY DEF Idle, NoGroup, RunnerRecords
  <2>7. OutcomeOk(Idle) /\ Idle.job <= lastId
    BY <1>1, <2>6, RunnersAssumption DEF OutcomeOk, StoreInv, TypeOK
  <2>8. /\ RunnerTypes' /\ runner'[r] = Idle
        /\ \A q \in Runners : q # r => runner'[q] = runner[q]
    BY <1>1, <1>2, <2>5, <2>6, <2>7, RunnerTyped
  <2>9. ~Busy(r)' /\ ~Writing(r)' /\ runner'[r].kind # "raised"
        /\ runner'[r].pc \notin Early \cup {"mkdir", "open"}
    BY <2>6, <2>8, RunnersAssumption DEF Busy, Writing, BusyPlaces, Early
  <2>10. KnowsJob(r)' /\ KeepsOutput(r)'
    BY <2>9 DEF KnowsJob, KeepsOutput
  <2> QED
    BY <1>2, <2>3, <2>4, <2>8, <2>9, <2>10, TransactionKept
<1> QED
  BY <1>3, <1>4, <1>5 DEF Record

\* The claim of a dead worker is reaped.
LEMMA ReapStep ==
    ASSUME OutputSafe, NEW r \in Runners, Reap(r)
    PROVE  OutputSafe'
<1>1. StoreInv /\ RunnerTypes /\ KnowsJob(r)
  BY DEF OutputSafe, RunnerInv
<1>2. PICK j \in JobIds : reap(j, r, clock - REAP_THRESHOLD, clock)
  BY DEF Reap
<1>3. clock \in Time
  BY <1>1 DEF StoreInv, TypeOK, Time
<1>4. StoreInv' /\ QueueKept(r) /\ JobIds' = JobIds /\ lastId' = lastId
  BY <1>1, <1>2, <1>3, ReapPreserves, ReapKept DEF reap
<1>5. /\ UNCHANGED <<runner, fileVars, prune, left, historyVars>>
      /\ runner[r].pc = "gone"
  BY DEF Reap, outputVars
<1>6. RunnerTypes'
  BY <1>1, <1>4, <1>5 DEF RunnerTypes, RunnerRecords
<1>7. KnowsJob(r)'
  <2>1. PICK k \in Nat : k = runner[r].job /\ k <= lastId
    BY <1>1 DEF RunnerTypes, RunnerRecords
  <2>2. Lost(k) => Lost(k)'
    BY <1>1, <1>4, <2>1, LostStays
  <2>3. (runner[r].kind = "raised" => Lost(runner[r].job))'
    BY <1>1, <1>5, <2>1, <2>2 DEF KnowsJob
  <2>4. ~Busy(r)' /\ runner'[r].pc \notin Early \cup {"mkdir", "open"}
    BY <1>5 DEF Busy, BusyPlaces, Early
  <2> QED
    BY <2>3, <2>4 DEF KnowsJob
<1>8. KeepsOutput(r)' /\ ~Busy(r)'
  BY <1>5 DEF KeepsOutput, Writing, Busy, BusyPlaces, Early
<1> QED
  BY <1>4, <1>5, <1>6, <1>7, <1>8, TransactionKept

-----------------------------------------------------------------------------
(* Workers write to disk                                                   *)

\* What a worker writes: to a path that is new, or noted as late if the job
\* was matched or is gone.
LEMMA WritesKept ==
    ASSUME OutputSafe, NEW r \in Runners, NEW pc, NEW next,
           runner[r].pc = pc, Busy(r),
           <<pc, next>> \in {<<"makedirs", "mkdir">>, <<"mkdir", "open">>, <<"open", "spawn">>},
           Set(r, next), NotesLate(r),
           UNCHANGED <<storeVars, prune, left, taken, struck>>,
           jobDirs' = IF pc = "makedirs" THEN jobDirs \cup {runner[r].job} ELSE jobDirs,
           attemptDirs' = IF pc = "mkdir" THEN attemptDirs \cup {Mine(r)} ELSE attemptDirs,
           files' = IF pc = "open" THEN files \cup {Mine(r)} ELSE files
    PROVE  OutputSafe'
<1>1. /\ StoreInv /\ RunnerTypes /\ RunnerInv /\ PruneInv /\ DiskInv /\ OrphansAreLate
      /\ OwnedOutputKept /\ KnowsJob(r)
  BY DEF OutputSafe, RunnerInv
<1>2. StoreInv' /\ JobIds' = JobIds /\ lastId' = lastId
  BY <1>1, NothingCommitted
<1>3. UNCHANGED <<clock, jobs, attempts, log>>
  BY DEF storeVars
<1>4. PICK j \in Nat, no \in Nat : j = runner[r].job /\ no = runner[r].no /\ j <= lastId
  BY <1>1 DEF RunnerTypes, RunnerRecords
<1> DEFINE x == <<j, no>>
<1>5. Mine(r) = x /\ x[1] = j /\ x[2] = no
  BY <1>4 DEF Mine
<1>6. HasRow(j, no) /\ (Owns(j, r, r) \/ Lost(j))
  BY <1>1, <1>4 DEF KnowsJob
<1>7. x \in Attempted /\ j \in 1..lastId
  <2>1. lastId \in Nat /\ MaxJobs \in Nat /\ lastId <= MaxJobs
    BY <1>1, BoundsAssumption DEF StoreInv, TypeOK, RunnerTypes
  <2> QED
    BY <1>6, <2>1 DEF HasRow, Attempted
<1>8. late \subseteq late' /\ late' \subseteq late \cup {x}
      /\ (j \in prune.ids \/ j \notin JobIds => x \in late')
  BY <1>4, <1>5 DEF NotesLate
<1> DEFINE c == [runner[r] EXCEPT !.pc = next]
<1>9. /\ runner[r] \in RunnerRecords /\ OutcomeOk(runner[r]) /\ left \in Remaining
      /\ runner' = [runner EXCEPT ![r] = c]
  BY <1>1 DEF RunnerTypes, Set
<1>10. /\ c \in RunnerRecords /\ c.pc = next /\ c.job = j /\ c.no = no
       /\ c.kind = runner[r].kind
  BY <1>4, <1>9 DEF RunnerRecords, BusyPlaces, Early
<1> HIDE DEF c
<1>11. OutcomeOk(c) /\ c.kind # "raised"
  BY <1>9, <1>10 DEF OutcomeOk
<1>12. RunnerTypes' /\ runner'[r] = c /\ \A q \in Runners : q # r => runner'[q] = runner[q]
  BY <1>1, <1>2, <1>4, <1>9, <1>10, <1>11, RunnerTyped
<1>13. /\ \A i, n : HasRow(i, n)' <=> HasRow(i, n)
       /\ \A i, q : Owns(i, q, q)' <=> Owns(i, q, q)
       /\ \A i : Lost(i)' <=> Lost(i)
       /\ First' = First
  BY <1>2, <1>3 DEF HasRow, Owns, Lost, Overruled, First
<1>14. KnowsJob(r)' /\ Busy(r)' /\ Mine(r)' = x
  <2>1. /\ runner'[r].pc = next /\ runner'[r].job = j /\ runner'[r].no = no
        /\ runner'[r].kind # "raised"
    BY <1>10, <1>11, <1>12
  <2>2. Busy(r)' /\ Mine(r)' = x
    BY <2>1 DEF Busy, BusyPlaces, Early, Mine
  <2>3. next \in Early => x \notin files'
    <3>1. next \in Early => pc \in Early /\ pc # "open"
      BY DEF Early
    <3> QED
      BY <1>1, <1>5, <3>1 DEF KnowsJob
  <2>4. next = "mkdir" => j \in jobDirs'
    BY <1>4
  <2>5. next = "open" => x \in attemptDirs'
    BY <1>5
  <2> QED
    BY <1>6, <1>13, <2>1, <2>2, <2>3, <2>4, <2>5 DEF KnowsJob
<1>15. ASSUME NEW q \in Runners, q # r
       PROVE  /\ KnowsJob(q)' /\ Mine(q)' = Mine(q) /\ (Busy(q)' <=> Busy(q))
              /\ (Writing(q)' <=> Writing(q))
  <2>1. runner'[q] = runner[q]
    BY <1>12, <1>15
  <2>2. Mine(q)' = Mine(q) /\ (Busy(q)' <=> Busy(q)) /\ (Writing(q)' <=> Writing(q))
    BY <2>1 DEF Mine, Busy, Writing
  <2>3. KnowsJob(q)
    BY <1>1 DEF RunnerInv
  <2>4. runner[q].pc \in Early => Mine(q) \notin files'
    <3>1. runner[q].pc \in Early => Mine(q) # x /\ Mine(q) \notin files
      BY <1>1, <1>5, <1>15, <2>3 DEF RunnerInv, KnowsJob, Busy, BusyPlaces
    <3> QED
      BY <1>5, <3>1
  <2>5. jobDirs \subseteq jobDirs' /\ attemptDirs \subseteq attemptDirs'
    OBVIOUS
  <2> QED
    BY <1>13, <2>1, <2>2, <2>3, <2>4, <2>5 DEF KnowsJob
<1>16. RunnerInv'
  <2>1. \A q \in Runners : KnowsJob(q)'
    BY <1>14, <1>15
  <2>2. ASSUME NEW p \in Runners, NEW q \in Runners, Busy(p)', Busy(q)', p # q
        PROVE  Mine(p)' # Mine(q)'
    <3>1. \A s \in Runners : Busy(s)' => Busy(s) /\ Mine(s)' = Mine(s)
      BY <1>5, <1>14, <1>15
    <3> QED
      BY <1>1, <2>2, <3>1 DEF RunnerInv
  <2> QED
    BY <2>1, <2>2 DEF RunnerInv
<1>17. PruneInv'
  BY <1>1, <1>2, <1>3, <1>13 DEF PruneInv, Prunable, RetriedSinceMatch
<1>18. DiskInv'
  <2>1. jobDirs' \subseteq 1..lastId'
    BY <1>1, <1>2, <1>4, <1>7 DEF DiskInv
  <2>2. ASSUME NEW y \in files' \cup attemptDirs'
        PROVE  /\ y \in Attempted /\ HasRow(y[1], y[2])'
               /\ y[1] \in prune.ids =>
                    y \in late' \/ y[1] \in prune.asked \/ y \in prune.paths
    <3>1. CASE y = x
      BY <1>5, <1>6, <1>7, <1>8, <1>13, <3>1
    <3>2. CASE y # x
      <4>1. y \in files \cup attemptDirs
        BY <1>5, <2>2, <3>2
      <4> QED
        BY <1>1, <1>8, <1>13, <4>1 DEF DiskInv
    <3> QED
      BY <3>1, <3>2
  <2>3. ASSUME NEW i \in jobDirs'
        PROVE  /\ i \in JobIds => 1 \in DOMAIN attempts[i]
               /\ i \in prune.ids => \/ \E y \in late' : y[1] = i
                                     \/ i \in prune.asked
                                     \/ \E y \in prune.paths : y[1] = i
    <3>1. CASE i \in jobDirs
      BY <1>1, <1>8, <3>1 DEF DiskInv
    <3>2. CASE i = j
      <4>1. j \in JobIds => 1 \in DOMAIN attempts[j]
        BY <1>1, <1>6 DEF HasRow, StoreInv, TypeOK
      <4>2. j \in prune.ids => x \in late' /\ x[1] = j
        BY <1>5, <1>8
      <4> QED
        BY <3>2, <4>1, <4>2
    <3> QED
      BY <1>4, <2>3, <3>1, <3>2
  <2>4. (late \cup taken \cup struck)' \subseteq Attempted
    BY <1>1, <1>7, <1>8 DEF DiskInv
  <2>5. ASSUME First \in files' \cup attemptDirs', prune.pc \in {"rmdir", "rmjob"}, First = x
        PROVE  First \in late'
    <3>1. First \in prune.paths
      BY <1>1, <2>5, OldestIsIn DEF First, PruneInv
    <3>2. j \in prune.ids
      BY <1>1, <1>5, <2>5, <3>1 DEF PruneInv
    <3> QED
      BY <1>8, <2>5, <3>2
  <2>6. prune.pc = "rmdir" => (First \in files' => First \in late')
    BY <1>1, <1>5, <1>8, <2>5 DEF DiskInv
  <2>7. prune.pc = "rmjob" => (First \in files' \cup attemptDirs' => First \in late')
    BY <1>1, <1>5, <1>8, <2>5 DEF DiskInv
  <2> QED
    BY <1>2, <1>3, <1>13, <2>1, <2>2, <2>3, <2>4, <2>6, <2>7 DEF DiskInv
<1>19. OrphansAreLate'
  <2>1. ASSUME NEW y \in files' \cup attemptDirs', y[1] \notin JobIds
        PROVE  y \in late'
    BY <1>1, <1>5, <1>8, <2>1 DEF OrphansAreLate
  <2>2. ASSUME NEW i \in jobDirs', i \notin JobIds
        PROVE  \E y \in late' : y[1] = i
    BY <1>1, <1>4, <1>5, <1>8, <2>2 DEF OrphansAreLate
  <2> QED
    BY <1>2, <2>1, <2>2 DEF OrphansAreLate
<1>20. OwnedOutputKept'
  <2> SUFFICES ASSUME NEW q \in Runners, Writing(q)', Owns(runner[q].job, q, q)'
               PROVE  (Mine(q) \in files \cup struck)'
    BY DEF OwnedOutputKept
  <2>1. CASE q = r
    <3>1. next = "spawn"
      BY <1>10, <1>12, <2>1 DEF Writing
    <3> QED
      BY <1>5, <1>14, <2>1, <3>1
  <2>2. CASE q # r
    <3>1. runner'[q] = runner[q] /\ Writing(q) /\ Mine(q)' = Mine(q)
      BY <1>12, <1>15, <2>2
    <3>2. PICK i : i = runner[q].job
      OBVIOUS
    <3>3. Owns(i, q, q)'
      BY <3>1, <3>2
    <3>4. Owns(runner[q].job, q, q)
      BY <1>13, <3>2, <3>3
    <3> QED
      BY <1>1, <3>1, <3>4 DEF OwnedOutputKept
  <2> QED
    BY <2>1, <2>2
<1>21. AttemptsBounded'
  BY <1>2, <1>3 DEF OutputSafe, AttemptsBounded
<1> QED
  BY <1>2, <1>12, <1>16, <1>17, <1>18, <1>19, <1>20, <1>21 DEF OutputSafe

\* makedirs, its first half.
LEMMA MakeJobDirKept ==
    ASSUME OutputSafe, NEW r \in Runners, MakeJobDir(r)
    PROVE  OutputSafe'
<1>1. Busy(r)
  BY DEF MakeJobDir, Busy, BusyPlaces, Early
<1> QED
  BY <1>1, WritesKept DEF MakeJobDir

\* Its second half, which raises only if the job is lost.
LEMMA MakeAttemptDirKept ==
    ASSUME OutputSafe, NEW r \in Runners, MakeAttemptDir(r)
    PROVE  OutputSafe'
<1>1. Busy(r)
  BY DEF MakeAttemptDir, Busy, BusyPlaces, Early
<1>2. CASE runner[r].job \in jobDirs
  BY <1>1, <1>2, WritesKept DEF MakeAttemptDir
<1>3. CASE runner[r].job \notin jobDirs
  <2>1. Lost(runner[r].job)
    BY <1>3 DEF MakeAttemptDir, OutputSafe, RunnerInv, KnowsJob
  <2>2. UNCHANGED <<storeVars, fileVars, prune, left, historyVars>> /\ Raise(r)
    BY <1>3 DEF MakeAttemptDir, fileVars, historyVars
  <2> QED
    BY <2>1, <2>2, RaiseKept
<1> QED
  BY <1>2, <1>3

\* open() of the streams, which raises only if the job is lost.
LEMMA OpenFilesKept ==
    ASSUME OutputSafe, NEW r \in Runners, OpenFiles(r)
    PROVE  OutputSafe'
<1>1. Busy(r)
  BY DEF OpenFiles, Busy, BusyPlaces, Early
<1>2. CASE Mine(r) \in attemptDirs
  BY <1>1, <1>2, WritesKept DEF OpenFiles
<1>3. CASE Mine(r) \notin attemptDirs
  <2>1. Lost(runner[r].job)
    BY <1>3 DEF OpenFiles, OutputSafe, RunnerInv, KnowsJob
  <2>2. UNCHANGED <<storeVars, fileVars, prune, left, historyVars>> /\ Raise(r)
    BY <1>3 DEF OpenFiles, fileVars, historyVars
  <2> QED
    BY <2>1, <2>2, RaiseKept
<1> QED
  BY <1>2, <1>3

-----------------------------------------------------------------------------
(* Steps of a prune                                                        *)

\* A worker whose job a prune has matched has lost it.
LEMMA MatchedIsLost ==
    ASSUME OutputSafe, NEW r \in Runners, Busy(r), runner[r].job \in prune.ids
    PROVE  Lost(runner[r].job)
<1>1. PICK j : j = runner[r].job
  OBVIOUS
<1>2. Owns(j, r, r) \/ Lost(j)
  BY <1>1 DEF OutputSafe, RunnerInv, KnowsJob
<1>3. j \in Prunable(PrunableStates, prune.cutoff) \/ RetriedSinceMatch(j)
  BY <1>1 DEF OutputSafe, PruneInv
<1>4. j \in Prunable(PrunableStates, prune.cutoff) => ~Owns(j, r, r)
  BY DEF Prunable, PrunableStates, Owns
<1>5. RetriedSinceMatch(j) => Lost(j)
  BY DEF RetriedSinceMatch, Lost, Overruled
<1> QED
  BY <1>1, <1>2, <1>3, <1>4, <1>5

\* A step of a prune that commits nothing takes away only what is on its
\* list: no worker that has not lost its job misses anything.
LEMMA PruneMoves ==
    ASSUME OutputSafe, UNCHANGED <<storeVars, runner>>, left' \in Remaining,
           PruneInv', DiskInv', OrphansAreLate',
           files' \subseteq files, attemptDirs' \subseteq attemptDirs, jobDirs' \subseteq jobDirs,
           struck \subseteq struck',
           \A x \in attemptDirs \ attemptDirs' : x[1] \in prune.ids,
           \A j \in jobDirs \ jobDirs' : j \in prune.ids,
           \A x \in files \ files' :
             x \in struck' \/ x[1] \in Prunable(PrunableStates, prune.cutoff)
    PROVE  OutputSafe'
<1>1. StoreInv /\ RunnerTypes /\ RunnerInv /\ OwnedOutputKept
  BY DEF OutputSafe
<1>2. StoreInv' /\ JobIds' = JobIds /\ lastId' = lastId
  BY <1>1, NothingCommitted
<1>3. UNCHANGED <<clock, jobs, attempts, log>>
  BY DEF storeVars
<1>4. RunnerTypes'
  BY <1>1, <1>2 DEF RunnerTypes
<1>5. AttemptsBounded'
  BY <1>2, <1>3 DEF OutputSafe, AttemptsBounded
<1>6. ASSUME NEW r \in Runners
      PROVE  KnowsJob(r)' /\ Mine(r)' = Mine(r) /\ (Busy(r)' <=> Busy(r)) /\ KeepsOutput(r)'
  <2>1. PICK j, no : j = runner[r].job /\ no = runner[r].no
    OBVIOUS
  <2>2. Mine(r)' = Mine(r) /\ (Busy(r)' <=> Busy(r)) /\ (Writing(r)' <=> Writing(r))
        /\ Mine(r) = <<j, no>>
    BY <2>1 DEF Mine, Busy, Writing
  <2>3. KnowsJob(r)
    BY <1>1 DEF RunnerInv
  <2>4. /\ HasRow(j, no)' <=> HasRow(j, no)
        /\ Owns(j, r, r)' <=> Owns(j, r, r)
        /\ Lost(j)' <=> Lost(j)
    BY <1>2, <1>3 DEF HasRow, Owns, Lost, Overruled
  <2>5. runner[r].pc = "mkdir" => j \in jobDirs' \/ Lost(j)
    <3>1. runner[r].pc = "mkdir" /\ j \in prune.ids => Lost(j)
      BY <2>1, MatchedIsLost DEF Busy, BusyPlaces, Early
    <3> QED
      BY <2>1, <2>3, <3>1 DEF KnowsJob
  <2>6. runner[r].pc = "open" => Mine(r) \in attemptDirs' \/ Lost(j)
    <3>1. runner[r].pc = "open" /\ j \in prune.ids => Lost(j)
      BY <2>1, MatchedIsLost DEF Busy, BusyPlaces, Early
    <3>2. Mine(r)[1] = j
      BY <2>2
    <3> QED
      BY <2>1, <2>3, <3>1, <3>2 DEF KnowsJob
  <2>7. KnowsJob(r)'
    BY <2>1, <2>2, <2>3, <2>4, <2>5, <2>6 DEF KnowsJob
  <2>8. KeepsOutput(r)'
    <3> SUFFICES ASSUME Writing(r), Owns(j, r, r)
                 PROVE  Mine(r) \in files' \cup struck'
      BY <2>1, <2>2, <2>4 DEF KeepsOutput
    <3>1. Mine(r) \in files \cup struck
      BY <1>1, <2>1 DEF OwnedOutputKept
    <3>2. Mine(r)[1] \notin Prunable(PrunableStates, prune.cutoff)
      BY <2>2 DEF Prunable, PrunableStates, Owns
    <3> QED
      BY <3>1, <3>2
  <2> QED
    BY <2>2, <2>7, <2>8
<1>7. RunnerInv' /\ OwnedOutputKept'
  <2>1. \A q, r \in Runners : Busy(q)' /\ Busy(r)' /\ q # r => Mine(q)' # Mine(r)'
    BY <1>1, <1>6 DEF RunnerInv
  <2> QED
    BY <1>6, <2>1 DEF RunnerInv, OwnedOutputKept, KeepsOutput
<1> QED
  BY <1>2, <1>4, <1>5, <1>7 DEF OutputSafe

\* No prune is under way.
LEMMA NoPruneKept ==
    ASSUME StoreInv, DiskInv, prune' = NoPrune,
           UNCHANGED <<storeVars, fileVars, historyVars>>
    PROVE  PruneInv' /\ DiskInv'
<1>1. /\ prune'.pc = "idle" /\ prune'.ids = {} /\ prune'.cutoff = 0 /\ prune'.asked = {}
      /\ prune'.paths = {} /\ DOMAIN prune' = {"pc", "ids", "cutoff", "asked", "paths", "seen"}
  BY DEF NoPrune
<1>2. /\ UNCHANGED <<clock, lastId, jobs, attempts, log>> /\ JobIds' = JobIds
      /\ UNCHANGED <<files, attemptDirs, jobDirs, late, taken, struck>>
  BY DEF storeVars, JobIds, fileVars, historyVars
<1>3. clock \in Nat
  BY DEF StoreInv, TypeOK
<1>4. PruneInv'
  BY <1>1, <1>2, <1>3 DEF PruneInv
<1>5. \A i, n : HasRow(i, n)' <=> HasRow(i, n)
  BY <1>2 DEF HasRow
<1>6. DiskInv'
  BY <1>1, <1>2, <1>5 DEF DiskInv
<1> QED
  BY <1>4, <1>6

\* prune_matches: the jobs.
LEMMA MatchJobsKept ==
    ASSUME OutputSafe, MatchJobs
    PROVE  OutputSafe'
<1>1. StoreInv /\ DiskInv /\ OrphansAreLate /\ left \in Remaining
  BY DEF OutputSafe, RunnerTypes
<1>2. PICK cutoff \in 0..clock :
        LET ids == Matched(cutoff)
        IN  /\ ids # {}
            /\ prune' = [NoPrune EXCEPT !.pc = "select", !.ids = ids, !.cutoff = cutoff,
                                        !.asked = ids,
                                        !.seen = [j \in ids |-> Len(log[j])]]
  BY DEF MatchJobs
<1>3. PICK ids : ids = Matched(cutoff)
  OBVIOUS
<1>4. /\ ids # {} /\ prune'.pc = "select" /\ prune'.ids = ids /\ prune'.cutoff = cutoff
      /\ prune'.asked = ids /\ prune'.paths = {}
      /\ prune'.seen = [j \in ids |-> Len(log[j])]
      /\ DOMAIN prune' = {"pc", "ids", "cutoff", "asked", "paths", "seen"}
  BY <1>2, <1>3 DEF NoPrune
<1>5. ids = Prunable(PrunableStates, cutoff)
  BY <1>3 DEF Matched
<1>6. /\ UNCHANGED <<clock, lastId, jobs, attempts, log>> /\ JobIds' = JobIds
      /\ UNCHANGED <<runner, files, attemptDirs, jobDirs, late, taken, struck>>
      /\ UNCHANGED <<storeVars, runner>>
  BY DEF MatchJobs, storeVars, JobIds, fileVars, historyVars
<1>7. left' \in Remaining
  BY <1>1 DEF MatchJobs, Remaining
<1>8. PruneInv'
  <2>1. ids \subseteq JobIds
    BY <1>5 DEF Prunable
  <2>2. \A j \in ids : Len(log[j]) \in 0..Len(log[j])
    BY <1>1, <2>1 DEF StoreInv, TypeOK
  <2>3. Prunable(PrunableStates, cutoff)' = Prunable(PrunableStates, cutoff)
    BY <1>6 DEF Prunable
  <2> QED
    BY <1>4, <1>5, <1>6, <2>1, <2>2, <2>3 DEF PruneInv
<1>9. DiskInv'
  <2>1. \A i, n : HasRow(i, n)' <=> HasRow(i, n)
    BY <1>6 DEF HasRow
  <2> QED
    BY <1>1, <1>4, <1>6, <2>1 DEF DiskInv
<1>10. OrphansAreLate'
  BY <1>1, <1>6 DEF OrphansAreLate
<1> QED
  BY <1>6, <1>7, <1>8, <1>9, <1>10, PruneMoves

\* The list of a prune moves on and nothing else does: what it knows of its
\* matches stays.
LEMMA ListMoves ==
    ASSUME StoreInv, PruneInv, UNCHANGED storeVars,
           prune'.ids = prune.ids, prune'.cutoff = prune.cutoff, prune'.seen = prune.seen,
           DOMAIN prune' = DOMAIN prune,
           prune'.pc \in {"select", "next", "rmdir", "rmjob"},
           prune'.asked \subseteq prune.ids,
           prune'.pc = "select" <=> prune'.asked # {},
           prune'.paths \subseteq Attempted,
           \A x \in prune'.paths : x[1] \in prune.ids,
           prune'.pc \in {"rmdir", "rmjob"} => prune'.paths # {},
           prune'.pc = "rmjob" => \A x \in prune'.paths \ {First'} : x[1] # First'[1]
    PROVE  PruneInv'
<1>1. UNCHANGED <<clock, lastId, jobs, attempts, log>> /\ JobIds' = JobIds
  BY DEF storeVars, JobIds
<1>2. \A j : /\ RetriedSinceMatch(j)' <=> RetriedSinceMatch(j)
             /\ (j \in Prunable(PrunableStates, prune.cutoff))'
                  <=> j \in Prunable(PrunableStates, prune.cutoff)
  BY <1>1 DEF RetriedSinceMatch, Prunable
<1> QED
  BY <1>1, <1>2 DEF PruneInv

\* prune_matches: the attempts of one job.
LEMMA SelectPathsKept ==
    ASSUME OutputSafe, SelectPaths
    PROVE  OutputSafe'
<1>1. StoreInv /\ PruneInv /\ DiskInv /\ OrphansAreLate /\ left \in Remaining
  BY DEF OutputSafe, RunnerTypes
<1>2. /\ UNCHANGED <<clock, lastId, jobs, attempts, log>> /\ JobIds' = JobIds
      /\ UNCHANGED <<runner, files, attemptDirs, jobDirs, left, late, taken, struck>>
      /\ UNCHANGED <<storeVars, runner>>
  BY DEF SelectPaths, storeVars, JobIds, fileVars, historyVars
<1>3. PICK j \in prune.asked : j = Min(prune.asked)
  <2>1. prune.asked # {} /\ prune.asked \subseteq Nat
    BY <1>1 DEF SelectPaths, PruneInv, StoreInv, TypeOK
  <2> QED
    BY <2>1, LeastIsIn
<1>4. j \in prune.ids /\ j \in JobIds /\ PathRows(j) = DOMAIN attempts[j]
  BY <1>1 DEF PruneInv, PathRows
<1> DEFINE new == {<<j, n>> : n \in PathRows(j)}
<1>5. /\ prune'.asked = prune.asked \ {j}
      /\ prune'.paths = prune.paths \cup new
      /\ prune'.pc = IF prune.asked = {j} THEN "next" ELSE "select"
      /\ prune'.ids = prune.ids /\ prune'.cutoff = prune.cutoff /\ prune'.seen = prune.seen
      /\ DOMAIN prune' = DOMAIN prune
  BY <1>1, <1>3 DEF SelectPaths, PruneInv
<1>6. new \subseteq Attempted /\ \A x \in new : x[1] = j
  <2>1. DOMAIN attempts[j] \subseteq 1..MaxAttempts
    BY <1>4 DEF OutputSafe, AttemptsBounded
  <2>2. lastId \in Nat /\ j \in 1..lastId
    BY <1>1, <1>4 DEF StoreInv, TypeOK
  <2>3. lastId <= MaxJobs /\ MaxJobs \in Nat
    BY BoundsAssumption DEF OutputSafe, RunnerTypes
  <2> QED
    BY <1>4, <2>1, <2>2, <2>3 DEF Attempted
<1>7. \A x \in Attempted : x[1] = j /\ HasRow(x[1], x[2]) => x \in new
  BY <1>4 DEF Attempted, HasRow
<1> HIDE DEF new
<1>8. PruneInv'
  <2>1. prune'.pc \in {"select", "next"}
    BY <1>5
  <2>2. prune'.pc = "select" <=> prune'.asked # {}
    BY <1>5
  <2>3. prune'.paths \subseteq Attempted /\ \A x \in prune'.paths : x[1] \in prune.ids
    BY <1>1, <1>4, <1>5, <1>6 DEF PruneInv
  <2>4. prune'.asked \subseteq prune.ids
    BY <1>1, <1>5 DEF PruneInv
  <2> QED
    BY <1>1, <1>2, <1>5, <2>1, <2>2, <2>3, <2>4, ListMoves
<1>9. DiskInv'
  <2>1. \A i, n : HasRow(i, n)' <=> HasRow(i, n)
    BY <1>2 DEF HasRow
  <2>2. ASSUME NEW x \in files \cup attemptDirs, x[1] \in prune.ids
        PROVE  x \in late \/ x[1] \in prune'.asked \/ x \in prune'.paths
    <3>1. x \in Attempted /\ HasRow(x[1], x[2])
      BY <1>1 DEF DiskInv
    <3> QED
      BY <1>1, <1>5, <1>7, <2>2, <3>1 DEF DiskInv
  <2>3. ASSUME NEW i \in jobDirs \cap prune.ids
        PROVE  \/ \E x \in late : x[1] = i
               \/ i \in prune'.asked
               \/ \E x \in prune'.paths : x[1] = i
    <3>1. CASE i # j
      BY <1>1, <1>5, <3>1 DEF DiskInv
    <3>2. CASE i = j
      <4>1. 1 \in DOMAIN attempts[j]
        BY <1>1, <1>4, <3>2 DEF DiskInv
      <4>2. <<j, 1>> \in new
        BY <1>4, <4>1 DEF new
      <4>3. <<j, 1>>[1] = j
        OBVIOUS
      <4> QED
        BY <1>5, <3>2, <4>2, <4>3
    <3> QED
      BY <3>1, <3>2
  <2>4. prune'.pc # "rmdir" /\ prune'.pc # "rmjob"
    BY <1>5
  <2> QED
    BY <1>1, <1>2, <1>5, <2>1, <2>2, <2>3, <2>4 DEF DiskInv
<1>10. OrphansAreLate'
  BY <1>1, <1>2 DEF OrphansAreLate
<1> QED
  BY <1>1, <1>2, <1>8, <1>9, <1>10, PruneMoves

\* unlink: the file of a job that was not retried belongs to no owner.
LEMMA UnlinkKept ==
    ASSUME OutputSafe, Unlink
    PROVE  OutputSafe'
<1>1. StoreInv /\ PruneInv /\ DiskInv /\ OrphansAreLate /\ left \in Remaining
  BY DEF OutputSafe, RunnerTypes
<1>2. /\ UNCHANGED <<clock, lastId, jobs, attempts, log>> /\ JobIds' = JobIds
      /\ UNCHANGED <<runner, attemptDirs, jobDirs, left, late>>
      /\ UNCHANGED <<storeVars, runner>>
  BY DEF Unlink, storeVars, JobIds
<1>3. First \in prune.paths /\ First \in Attempted /\ First[1] \in prune.ids
  <2>1. First \in prune.paths
    BY <1>1, OldestIsIn DEF Unlink, First, PruneInv
  <2> QED
    BY <1>1, <2>1 DEF PruneInv
<1>4. /\ prune'.pc = "rmdir" /\ prune'.asked = prune.asked /\ prune'.paths = prune.paths
      /\ prune'.ids = prune.ids /\ prune'.cutoff = prune.cutoff /\ prune'.seen = prune.seen
      /\ DOMAIN prune' = DOMAIN prune
  BY <1>1 DEF Unlink, PruneInv
<1>5. First' = First
  BY <1>4 DEF First
<1>6. PruneInv'
  <2>1. prune'.asked = {}
    BY <1>1, <1>4 DEF Unlink, PruneInv
  <2> QED
    BY <1>1, <1>2, <1>3, <1>4, <2>1, ListMoves DEF PruneInv
<1>7. files' = files \ {First} /\ struck \subseteq struck' /\ struck' \subseteq struck \cup {First}
      /\ taken' \subseteq taken \cup {First}
      /\ (First \in files /\ RetriedSinceMatch(First[1]) => First \in struck')
  BY DEF Unlink
<1>8. DiskInv'
  <2>1. \A i, n : HasRow(i, n)' <=> HasRow(i, n)
    BY <1>2 DEF HasRow
  <2>2. (late \cup taken \cup struck)' \subseteq Attempted
    BY <1>1, <1>2, <1>3, <1>7 DEF DiskInv
  <2> QED
    BY <1>1, <1>2, <1>4, <1>5, <1>7, <2>1, <2>2 DEF DiskInv
<1>9. OrphansAreLate'
  BY <1>1, <1>2, <1>7 DEF OrphansAreLate
<1>10. \A x \in files \ files' :
         x \in struck' \/ x[1] \in Prunable(PrunableStates, prune.cutoff)
  BY <1>1, <1>3, <1>7 DEF PruneInv
<1> QED
  BY <1>1, <1>2, <1>6, <1>7, <1>8, <1>9, <1>10, PruneMoves

\* rmdir of the attempt: it stays only if somebody wrote there late.
LEMMA RmdirKept ==
    ASSUME OutputSafe, Rmdir
    PROVE  OutputSafe'
<1>1. StoreInv /\ PruneInv /\ DiskInv /\ OrphansAreLate /\ left \in Remaining
  BY DEF OutputSafe, RunnerTypes
<1>2. /\ UNCHANGED <<clock, lastId, jobs, attempts, log>> /\ JobIds' = JobIds
      /\ UNCHANGED <<runner, files, jobDirs, left, late, taken, struck>>
      /\ UNCHANGED <<storeVars, runner>>
  BY DEF Rmdir, storeVars, JobIds, historyVars
<1>3. First \in prune.paths /\ First[1] \in prune.ids
  <2>1. First \in prune.paths
    BY <1>1, OldestIsIn DEF Rmdir, First, PruneInv
  <2> QED
    BY <1>1, <2>1 DEF PruneInv
<1>4. /\ attemptDirs' \subseteq attemptDirs /\ attemptDirs \ attemptDirs' \subseteq {First}
      /\ First \in files \cup attemptDirs' => First \in late
  BY <1>1 DEF Rmdir, DiskInv
<1> DEFINE rest == prune.paths \ {First}
           last == \A x \in rest : x[1] # First[1]
<1>5. /\ prune'.asked = prune.asked /\ prune.asked = {}
      /\ prune'.ids = prune.ids /\ prune'.cutoff = prune.cutoff /\ prune'.seen = prune.seen
      /\ DOMAIN prune' = DOMAIN prune
      /\ last => prune'.pc = "rmjob" /\ prune'.paths = prune.paths
      /\ ~last => prune'.pc = "next" /\ prune'.paths = rest
  <2> HIDE DEF last, rest
  <2>1. prune' = IF last THEN [prune EXCEPT !.pc = "rmjob"]
                         ELSE [prune EXCEPT !.pc = "next", !.paths = rest]
    BY DEF Rmdir, last, rest
  <2> QED
    BY <1>1, <2>1 DEF Rmdir, PruneInv
<1>6. prune'.paths \subseteq prune.paths /\ prune.paths \ prune'.paths \subseteq {First}
  BY <1>5
<1>7. last => First' = First
  BY <1>5 DEF First
<1>8. PruneInv'
  <2>1. prune'.pc \in {"next", "rmjob"}
    BY <1>5
  <2>2. prune'.pc = "rmjob" => prune'.paths # {} /\ \A x \in prune'.paths \ {First'} : x[1] # First'[1]
    BY <1>3, <1>5, <1>7
  <2> HIDE DEF last
  <2> QED
    BY <1>1, <1>2, <1>5, <1>6, <2>1, <2>2, ListMoves DEF PruneInv
<1>9. \A i, n : HasRow(i, n)' <=> HasRow(i, n)
  BY <1>2 DEF HasRow
<1>10. DiskInv'
  <2>1. ASSUME NEW x \in files \cup attemptDirs', x[1] \in prune.ids
        PROVE  x \in late \/ x \in prune'.paths
    <3>1. x \in late \/ x \in prune.paths
      BY <1>1, <1>4, <1>5, <2>1 DEF DiskInv
    <3> QED
      BY <1>4, <1>6, <3>1
  <2>2. ASSUME NEW i \in jobDirs \cap prune.ids
        PROVE  (\E x \in late : x[1] = i) \/ (\E x \in prune'.paths : x[1] = i)
    <3>1. (\E x \in late : x[1] = i) \/ (\E x \in prune.paths : x[1] = i)
      BY <1>1, <1>5 DEF DiskInv
    <3>2. ASSUME NEW x \in prune.paths, x[1] = i
          PROVE  \E y \in prune'.paths : y[1] = i
      <4>1. CASE last
        BY <1>5, <3>2, <4>1
      <4>2. CASE ~last
        <5>1. PICK y \in rest : y[1] = First[1]
          BY <4>2
        <5> QED
          BY <1>5, <3>2, <4>2, <5>1
      <4> QED
        BY <4>1, <4>2
    <3> QED
      BY <3>1, <3>2
  <2>3. prune'.pc # "rmdir"
    BY <1>5
  <2>4. prune'.pc = "rmjob" => (First' \in files \cup attemptDirs' => First' \in late)
    BY <1>4, <1>5, <1>7
  <2> HIDE DEF last
  <2> QED
    BY <1>1, <1>2, <1>4, <1>5, <1>9, <2>1, <2>2, <2>3, <2>4 DEF DiskInv
<1>11. OrphansAreLate'
  BY <1>1, <1>2, <1>4 DEF OrphansAreLate
<1>12. \A x \in attemptDirs \ attemptDirs' : x[1] \in prune.ids
  BY <1>3, <1>4
<1> QED
  BY <1>1, <1>2, <1>4, <1>8, <1>10, <1>11, <1>12, PruneMoves

\* rmdir of the job, after the last of its attempts.
LEMMA RmJobDirKept ==
    ASSUME OutputSafe, RmJobDir
    PROVE  OutputSafe'
<1>1. StoreInv /\ PruneInv /\ DiskInv /\ OrphansAreLate /\ left \in Remaining
  BY DEF OutputSafe, RunnerTypes
<1>2. /\ UNCHANGED <<clock, lastId, jobs, attempts, log>> /\ JobIds' = JobIds
      /\ UNCHANGED <<runner, files, attemptDirs, left, late, taken, struck>>
      /\ UNCHANGED <<storeVars, runner>>
  BY DEF RmJobDir, storeVars, JobIds, historyVars
<1>3. /\ First \in prune.paths /\ First[1] \in prune.ids
      /\ \A x \in prune.paths \ {First} : x[1] # First[1]
      /\ First \in files \cup attemptDirs => First \in late
  <2>1. First \in prune.paths
    BY <1>1, OldestIsIn DEF RmJobDir, First, PruneInv
  <2> QED
    BY <1>1, <2>1 DEF PruneInv, RmJobDir, DiskInv
<1>4. /\ prune'.pc = "next" /\ prune'.paths = prune.paths \ {First}
      /\ prune'.asked = prune.asked /\ prune.asked = {}
      /\ prune'.ids = prune.ids /\ prune'.cutoff = prune.cutoff /\ prune'.seen = prune.seen
      /\ DOMAIN prune' = DOMAIN prune
  BY <1>1 DEF RmJobDir, PruneInv
<1>5. jobDirs' \subseteq jobDirs /\ jobDirs \ jobDirs' \subseteq {First[1]}
      /\ (First[1] \in jobDirs' => \E x \in attemptDirs : x[1] = First[1])
  BY DEF RmJobDir
<1>6. PruneInv'
  BY <1>1, <1>2, <1>4, ListMoves DEF PruneInv
<1>7. \A i, n : HasRow(i, n)' <=> HasRow(i, n)
  BY <1>2 DEF HasRow
<1>8. \A x \in files \cup attemptDirs : x[1] \in prune.ids => x \in late \/ x \in prune'.paths
  BY <1>1, <1>3, <1>4 DEF DiskInv
<1>9. ASSUME NEW i \in jobDirs' \cap prune.ids
      PROVE  (\E x \in late : x[1] = i) \/ (\E x \in prune'.paths : x[1] = i)
  <2>1. CASE i = First[1]
    <3>1. PICK x \in attemptDirs : x[1] = i
      BY <1>5, <2>1
    <3>2. x \in late
      BY <1>3, <1>4, <1>8, <2>1, <3>1
    <3> QED
      BY <3>1, <3>2
  <2>2. CASE i # First[1]
    BY <1>1, <1>4, <1>5, <2>2 DEF DiskInv
  <2> QED
    BY <2>1, <2>2
<1>10. DiskInv'
  BY <1>1, <1>2, <1>4, <1>5, <1>7, <1>8, <1>9 DEF DiskInv
<1>11. OrphansAreLate'
  BY <1>1, <1>2, <1>5 DEF OrphansAreLate
<1>12. \A j \in jobDirs \ jobDirs' : j \in prune.ids
  BY <1>3, <1>5
<1> QED
  BY <1>1, <1>2, <1>5, <1>6, <1>10, <1>11, <1>12, PruneMoves

\* The prune stops half way.
LEMMA PruneStopsKept ==
    ASSUME OutputSafe, PruneStops
    PROVE  OutputSafe'
<1>1. StoreInv /\ DiskInv /\ OrphansAreLate /\ left \in Remaining
  BY DEF OutputSafe, RunnerTypes
<1>2. PruneInv' /\ DiskInv'
  BY <1>1, NoPruneKept DEF PruneStops
<1>3. /\ UNCHANGED <<files, attemptDirs, jobDirs, left, late, struck>> /\ JobIds' = JobIds
      /\ UNCHANGED <<storeVars, runner>>
  BY DEF PruneStops, storeVars, JobIds, fileVars, historyVars
<1>4. OrphansAreLate'
  BY <1>1, <1>3 DEF OrphansAreLate
<1> QED
  BY <1>1, <1>2, <1>3, <1>4, PruneMoves

\* prune_delete: by now nothing is left on disk of the matched jobs but what
\* was written late.
LEMMA DeleteRowsKept ==
    ASSUME OutputSafe, DeleteRows
    PROVE  OutputSafe'
<1>1. /\ StoreInv /\ RunnerTypes /\ RunnerInv /\ PruneInv /\ DiskInv /\ OrphansAreLate
      /\ OwnedOutputKept /\ left \in Remaining
  BY DEF OutputSafe, RunnerTypes
<1>2. /\ UNCHANGED <<runner, files, attemptDirs, jobDirs, left, late, taken, struck>>
      /\ UNCHANGED fileVars /\ prune' = NoPrune /\ prune.paths = {} /\ prune.asked = {}
  BY <1>1 DEF DeleteRows, fileVars, historyVars, PruneInv
<1>3. CASE UNCHANGED storeVars
  <2>1. PruneInv' /\ DiskInv' /\ JobIds' = JobIds
    BY <1>1, <1>3, NoPruneKept DEF DeleteRows, storeVars, JobIds
  <2>2. OrphansAreLate'
    BY <1>1, <1>2, <2>1 DEF OrphansAreLate
  <2> QED
    BY <1>1, <1>2, <1>3, <2>1, <2>2, PruneMoves
<1>4. CASE prune_delete(prune.ids, PrunableStates, prune.cutoff)
  <2>1. PICK ids, cutoff : ids = prune.ids /\ cutoff = prune.cutoff
    OBVIOUS
  <2>2. StoreInv'
    BY <1>1, <1>4, <2>1, PrunePreserves
  <2>3. /\ QueueKept(NULL) /\ JobIds' \subseteq JobIds /\ JobIds \ JobIds' \subseteq prune.ids
        /\ lastId' = lastId
    BY <1>1, <1>4, <2>1, PruneKept
  <2>4. RunnerTypes' /\ AttemptsBounded'
    BY <1>1, <1>2, <2>3 DEF OutputSafe, AttemptsBounded, RunnerTypes, QueueKept
  <2>5. \A r \in Runners : KnowsJob(r)' /\ Mine(r)' = Mine(r) /\ (Busy(r)' <=> Busy(r))
                           /\ (Writing(r)' <=> Writing(r))
    <3>1. \A r \in Runners : r # NULL
      BY NullIsNobody
    <3>2. \A r \in Runners : Mine(r)' = Mine(r) /\ (Busy(r)' <=> Busy(r))
                             /\ (Writing(r)' <=> Writing(r))
      BY <1>2 DEF Mine, Busy, Writing
    <3> QED
      BY <1>1, <1>2, <2>3, <3>1, <3>2, BystanderKept DEF RunnerInv
  <2>6. RunnerInv'
    BY <1>1, <2>5 DEF RunnerInv
  <2>7. PruneInv'
    <3>1. /\ prune'.pc = "idle" /\ prune'.ids = {} /\ prune'.cutoff = 0 /\ prune'.asked = {}
          /\ prune'.paths = {}
          /\ DOMAIN prune' = {"pc", "ids", "cutoff", "asked", "paths", "seen"}
      BY <1>2 DEF NoPrune
    <3>2. clock' \in Nat
      BY <2>3 DEF QueueKept
    <3> QED
      BY <3>1, <3>2 DEF PruneInv
  <2>8. DiskInv'
    <3>1. \A x \in files \cup attemptDirs : HasRow(x[1], x[2])'
      BY <1>1, <2>3, RowStays DEF DiskInv
    <3>2. \A j \in jobDirs : j \in JobIds' => 1 \in DOMAIN attempts'[j]
      BY <1>1, <2>3 DEF DiskInv, QueueKept
    <3>3. prune'.ids = {} /\ prune'.pc = "idle"
      BY <1>2 DEF NoPrune
    <3> QED
      BY <1>1, <1>2, <2>3, <3>1, <3>2, <3>3 DEF DiskInv
  <2>9. OrphansAreLate'
    <3>1. ASSUME NEW x \in files \cup attemptDirs, x[1] \notin JobIds'
          PROVE  x \in late
      BY <1>1, <1>2, <2>3, <3>1 DEF OrphansAreLate, DiskInv
    <3>2. ASSUME NEW j \in jobDirs, j \notin JobIds'
          PROVE  \E x \in late : x[1] = j
      BY <1>1, <1>2, <2>3, <3>2 DEF OrphansAreLate, DiskInv
    <3> QED
      BY <1>2, <3>1, <3>2 DEF OrphansAreLate
  <2>10. OwnedOutputKept'
    <3> SUFFICES ASSUME NEW r \in Runners, Writing(r)', Owns(runner[r].job, r, r)'
                 PROVE  (Mine(r) \in files \cup struck)'
      BY DEF OwnedOutputKept
    <3>1. PICK j : j = runner[r].job
      OBVIOUS
    <3>2. Owns(j, r, r)' /\ j \in JobIds'
      BY <1>2, <3>1 DEF Owns
    <3>3. Owns(j, r, r)
      BY <2>3, <3>2, NullIsNobody DEF QueueKept
    <3> QED
      BY <1>1, <1>2, <2>5, <3>1, <3>3 DEF OwnedOutputKept
  <2> QED
    BY <2>2, <2>4, <2>6, <2>7, <2>8, <2>9, <2>10 DEF OutputSafe
<1> QED
  BY <1>3, <1>4 DEF DeleteRows

-----------------------------------------------------------------------------
(* The theorems                                                            *)

\* The empty queue and the empty disk.
LEMMA OutputStarts == OutputInit => OutputSafe
<1> SUFFICES ASSUME OutputInit PROVE OutputSafe
  OBVIOUS
<1>1. StoreInv /\ JobIds = {} /\ lastId = 0 /\ clock = 0
  BY DEF OutputInit, StoreInit, StoreInv, TypeOK, LockInv, BudgetInv, BackoffInv, LogInv, JobIds
<1>2. /\ runner = [r \in Runners |-> Idle] /\ prune = NoPrune /\ left \in Remaining
      /\ files = {} /\ attemptDirs = {} /\ jobDirs = {}
      /\ late = {} /\ taken = {} /\ struck = {}
  BY RunnersAssumption DEF OutputInit, Remaining
<1>3. Idle.pc = "idle" /\ Idle.job = 0 /\ Idle.kind = NULL /\ Idle \in RunnerRecords
  BY DEF Idle, NoGroup, RunnerRecords
<1>4. OutcomeOk(Idle)
  BY <1>3, RunnersAssumption DEF OutcomeOk
<1>5. RunnerTypes
  BY <1>1, <1>2, <1>3, <1>4, BoundsAssumption DEF RunnerTypes
<1>6. \A r \in Runners : KnowsJob(r) /\ ~Busy(r) /\ ~Writing(r)
  BY <1>2, <1>3, RunnersAssumption DEF KnowsJob, Busy, Writing, BusyPlaces, Early
<1>7. RunnerInv /\ OwnedOutputKept
  BY <1>6 DEF RunnerInv, OwnedOutputKept
<1>8. PruneInv
  <2>1. /\ prune.pc = "idle" /\ prune.ids = {} /\ prune.cutoff = 0 /\ prune.asked = {}
        /\ prune.paths = {}
        /\ DOMAIN prune = {"pc", "ids", "cutoff", "asked", "paths", "seen"}
    BY <1>2 DEF NoPrune
  <2> QED
    BY <1>1, <2>1 DEF PruneInv
<1>9. DiskInv
  <2>1. prune.pc = "idle"
    BY <1>2 DEF NoPrune
  <2> QED
    BY <1>2, <2>1 DEF DiskInv
<1>10. OrphansAreLate /\ AttemptsBounded
  BY <1>1, <1>2 DEF OrphansAreLate, AttemptsBounded
<1> QED
  BY <1>1, <1>5, <1>7, <1>8, <1>9, <1>10 DEF OutputSafe

\* One step of a worker, of a prune or of a client.
LEMMA OutputStep ==
    ASSUME OutputSafe, OutputNext
    PROVE  OutputSafe'
<1>1. ASSUME NEW r \in Runners, RunnerStep(r) PROVE OutputSafe'
  <2>1. TimesOut(r) => OutputSafe'
    BY TerminateKept DEF TimesOut
  <2>2. LosesJob(r) => OutputSafe'
    BY TerminateKept DEF LosesJob
  <2> QED
    BY <1>1, <2>1, <2>2, ClaimStep, RereadKept, MakeJobDirKept, MakeAttemptDirKept,
       OpenFilesKept, SpawnKept, ExitsKept, GraceKept, RecordStep DEF RunnerStep
<1>2. PruneStep => OutputSafe'
  BY MatchJobsKept, SelectPathsKept, UnlinkKept, RmdirKept, RmJobDirKept, DeleteRowsKept,
     PruneStopsKept DEF PruneStep
<1> QED
  BY <1>1, <1>2, OthersKept, DieKept, ReapStep DEF OutputNext

\* A report only reads.
LEMMA ReportKept ==
    ASSUME OutputSafe,
           \/ Starts \/ ReaderStep \/ WaitTimesOut \/ UNCHANGED readerVars
    PROVE  OutputSafe'
<1>1. UNCHANGED <<storeVars, runner, fileVars, prune, historyVars>>
  BY DEF Starts, ReaderStep, WaitTimesOut, ReadJob, ReadAttempts, ReadEvents, ReadStreams,
     Poll, ReadCounts, ReadDead, Quiet, readerVars, outputVars
<1>2. left' \in Remaining
  <2>1. left \in Remaining
    BY DEF OutputSafe, RunnerTypes
  <2>2. ASSUME Starts PROVE left' \in Remaining
    <3>1. left.reads > 0 /\ left' = [left EXCEPT !.reads = @ - 1]
      BY <2>2 DEF Starts
    <3> QED
      BY <2>1, <3>1 DEF Remaining
  <2>3. ~Starts => left' = left
    BY DEF ReaderStep, WaitTimesOut, ReadJob, ReadAttempts, ReadEvents, ReadStreams,
       Poll, ReadCounts, ReadDead, readerVars, outputVars
  <2> QED
    BY <2>1, <2>2, <2>3
<1>3. StoreInv' /\ QueueKept(NULL) /\ JobIds' = JobIds /\ lastId' = lastId
  BY <1>1, NothingCommitted DEF OutputSafe
<1>4. RunnerTypes'
  BY <1>1, <1>2, <1>3 DEF OutputSafe, RunnerTypes
<1> QED
  BY <1>1, <1>3, <1>4, NullIsNobody, TransactionKept

\* The inductive invariant holds of every behaviour of workers, prunes,
\* clients and a report.
THEOREM OutputIsSafe == ReadersSpec => []OutputSafe
<1>1. ReadersInit => OutputSafe
  BY OutputStarts DEF ReadersInit
<1>2. OutputSafe /\ [ReadersNext]_readerVars => OutputSafe'
  BY OutputStep, ReportKept DEF ReadersNext
<1> QED
  BY <1>1, <1>2, PTL DEF ReadersSpec

\* Files first, rows second works for every number of workers, jobs and
\* prunes: orphans are late, an owner's output is kept and no attempt is
\* overwritten (execute_attempt, prune_operation).
THEOREM OutputIsKept == ReadersSpec => []OutputInv
<1>1. OutputSafe => OutputInv
  <2> SUFFICES ASSUME OutputSafe PROVE OutputInv
    OBVIOUS
  <2>1. NothingToClobber
    BY DEF OutputSafe, RunnerInv, KnowsJob, NothingToClobber, Early
  <2>2. ASSUME NEW r \in Runners
        PROVE  /\ runner[r].pc \in {"idle", "reread", "makedirs", "mkdir", "open", "spawn",
                                    "running", "grace", "record", "gone"}
               /\ runner[r].group.live \subseteq {"leader", "helper"}
    <3>1. runner[r] \in RunnerRecords
      BY DEF OutputSafe, RunnerTypes
    <3> QED
      BY <3>1 DEF RunnerRecords, BusyPlaces, Early
  <2>3. jobDirs \subseteq 1..MaxJobs
    <3>1. lastId \in Nat /\ lastId <= MaxJobs /\ MaxJobs \in Nat /\ jobDirs \subseteq 1..lastId
      BY BoundsAssumption DEF OutputSafe, StoreInv, TypeOK, RunnerTypes, DiskInv
    <3> QED
      BY <3>1
  <2>4. attemptDirs \cup files \cup prune.paths \subseteq Attempted
    BY DEF OutputSafe, DiskInv, PruneInv
  <2>5. OutputTypeOK
    BY <2>2, <2>3, <2>4 DEF OutputTypeOK, OutputSafe, StoreInv, PruneInv, DiskInv
  <2> QED
    BY <2>1, <2>5 DEF OutputInv, OutputSafe
<1> QED
  BY <1>1, OutputIsSafe, PTL

\* A worker that ends on an exception of its own had been overruled: its job
\* was canceled, retried or pruned (claim_next, execute_attempt).
THEOREM RaisesAreOverruled == ReadersSpec => []RaisesOnlyWhenOverruled
<1>1. OutputSafe => RaisesOnlyWhenOverruled
  BY DEF OutputSafe, RunnerInv, KnowsJob, RaisesOnlyWhenOverruled, Lost, Overruled
<1> QED
  BY <1>1, OutputIsSafe, PTL

\* What survives a timeout ignores SIGTERM, and the command never does
\* (_kill_group).
THEOREM TimeoutsEndTheCommand == ReadersSpec => []SurvivorsIgnoreTerm
<1>1. OutputSafe => SurvivorsIgnoreTerm
  BY DEF OutputSafe, RunnerTypes, OutcomeOk, SurvivorsIgnoreTerm
<1> QED
  BY <1>1, OutputIsSafe, PTL

\* A prune removes files only of the jobs it was asked for, or of a job that
\* was retried after the match (prune_operation).
THEOREM PrunesTakeTheirOwn == ReadersSpec => OnlyMatchesLoseFiles
<1> DEFINE Loses == \A x \in files \ files' :
                      \/ x[1] \in Prunable(PrunableStates, prune.cutoff)
                      \/ RetriedSinceMatch(x[1])
<1>1. ASSUME OutputSafe, [ReadersNext]_readerVars PROVE Loses
  <2>1. CASE Unlink
    <3>1. First \in prune.paths
      BY <1>1, <2>1, OldestIsIn DEF OutputSafe, Unlink, First, PruneInv
    <3>2. First[1] \in prune.ids
      BY <1>1, <3>1 DEF OutputSafe, PruneInv
    <3>3. files \ files' \subseteq {First}
      BY <2>1 DEF Unlink
    <3>4. First[1] \in Prunable(PrunableStates, prune.cutoff) \/ RetriedSinceMatch(First[1])
      BY <1>1, <3>2 DEF OutputSafe, PruneInv
    <3> QED
      BY <3>3, <3>4
  <2>2. ASSUME NEW r \in Runners, RunnerStep(r) \/ Die(r) \/ Reap(r)
        PROVE  files \subseteq files'
    <3>1. CASE RunnerStep(r) /\ ~OpenFiles(r)
      BY <3>1 DEF RunnerStep, Claim, Reread, MakeJobDir, MakeAttemptDir, Spawn, Exits,
         TimesOut, LosesJob, Grace, Record, fileVars
    <3>2. CASE OpenFiles(r)
      BY <3>2 DEF OpenFiles
    <3>3. CASE Die(r) \/ Reap(r)
      BY <3>3 DEF Die, Reap, outputVars, fileVars
    <3> QED
      BY <2>2, <3>1, <3>2, <3>3
  <2>3. PruneStep /\ ~Unlink => files' = files
    BY DEF PruneStep, MatchJobs, SelectPaths, Rmdir, RmJobDir, DeleteRows, PruneStops, fileVars
  <2>4. Others \/ Starts \/ ReaderStep \/ WaitTimesOut \/ UNCHANGED readerVars => files' = files
    BY DEF Others, Starts, ReaderStep, WaitTimesOut, ReadJob, ReadAttempts, ReadEvents,
       ReadStreams, Poll, ReadCounts, ReadDead, Quiet, readerVars, outputVars, fileVars
  <2>5. ~Unlink => files \subseteq files'
    BY <1>1, <2>2, <2>3, <2>4 DEF ReadersNext, OutputNext
  <2> QED
    BY <2>1, <2>5
<1>2. OutputSafe /\ [ReadersNext]_readerVars => [Loses]_<<storeVars, outputVars>>
  BY <1>1
<1> QED
  BY <1>2, OutputIsSafe, PTL DEF ReadersSpec, OnlyMatchesLoseFiles


-----------------------------------------------------------------------------
(* The tail of a stream                                                    *)

ByteKinds == {"one", "lead", "cont"}

\* The continuation bytes that a cut after c bytes orphans: d of them, and a
\* fourth byte or one that starts a character ends the run.
LEMMA OrphanFacts ==
    ASSUME NEW blob \in Seq(ByteKinds), NEW c \in Nat, c <= Len(blob)
    PROVE  LET orphans == {d \in 0..3 : /\ c + d <= Len(blob)
                                        /\ \A i \in (c + 1)..(c + d) : blob[i] = "cont"}
           IN  /\ Max(orphans) \in 0..3
               /\ c + Max(orphans) <= Len(blob)
               /\ \A i \in (c + 1)..(c + Max(orphans)) : blob[i] = "cont"
               /\ Max(orphans) < 3 /\ c + Max(orphans) < Len(blob)
                    => blob[c + Max(orphans) + 1] # "cont"
<1> DEFINE orphans == {d \in 0..3 : /\ c + d <= Len(blob)
                                    /\ \A i \in (c + 1)..(c + d) : blob[i] = "cont"}
           m == Max(orphans)
<1>1. 0 \in orphans /\ Len(blob) \in Nat
  OBVIOUS
<1>2. \E x \in orphans : \A y \in orphans : x >= y
  <2> DEFINE T == {e \in 0..3 : 3 - e \in orphans}
  <2>1. T \in SUBSET Nat /\ 3 \in T
    BY <1>1
  <2>2. PICK e \in T : \A y \in T : e <= y
    BY <2>1, LeastExists
  <2>3. \A y \in orphans : 3 - y \in T
    <3> SUFFICES ASSUME NEW y \in orphans PROVE 3 - y \in T
      OBVIOUS
    <3>1. y \in 0..3
      OBVIOUS
    <3>2. 3 - y \in 0..3 /\ 3 - (3 - y) = y
      BY <3>1
    <3> HIDE DEF orphans
    <3> QED
      BY <3>2
  <2>4. \A y \in orphans : e <= 3 - y
    <3> HIDE DEF T, orphans
    <3> QED
      BY <2>2, <2>3
  <2>5. 3 - e \in orphans /\ e \in Int /\ \A y \in orphans : y \in Int
    OBVIOUS
  <2>6. \A y \in orphans : 3 - e >= y
    BY <2>4, <2>5
  <2> QED
    BY <2>5, <2>6
<1>3. m \in orphans /\ \A y \in orphans : m >= y
  BY <1>2 DEF Max
<1> HIDE DEF m
<1>4. /\ m \in 0..3 /\ c + m <= Len(blob)
      /\ \A i \in (c + 1)..(c + m) : blob[i] = "cont"
  BY <1>3
<1>5. ASSUME m < 3, c + m < Len(blob), blob[c + m + 1] = "cont" PROVE FALSE
  <2>1. m + 1 \in 0..3 /\ c + (m + 1) <= Len(blob)
    BY <1>1, <1>4, <1>5
  <2>2. \A i \in (c + 1)..(c + (m + 1)) : blob[i] = "cont"
    <3> SUFFICES ASSUME NEW i \in (c + 1)..(c + (m + 1)) PROVE blob[i] = "cont"
      OBVIOUS
    <3>1. i \in (c + 1)..(c + m) \/ i = c + m + 1
      BY <1>4
    <3> QED
      BY <1>4, <1>5, <3>1
  <2>3. m + 1 \in orphans
    BY <2>1, <2>2
  <2>4. m >= m + 1
    BY <1>3, <2>3
  <2> QED
    BY <1>4, <2>4
<1> QED
  BY <1>4, <1>5 DEF m

\* What decode_tail returns for a stream longer than n, and for a shorter one.
LEMMA TailFacts ==
    ASSUME NEW blob \in Seq(ByteKinds), NEW n \in Nat, n # 0
    PROVE  LET tail == decode_tail(blob, n)
               cut == Len(blob) - Len(tail)
               dropped == IF Len(blob) > n THEN n - Len(tail) ELSE 0
           IN  /\ tail = SubSeq(blob, cut + 1, Len(blob))
               /\ Len(tail) <= n /\ dropped \in 0..3
               /\ Len(blob) <= n => tail = blob
               /\ \A i \in (cut - dropped + 1)..cut : blob[i] = "cont"
               /\ dropped < 3 /\ tail # <<>> /\ Len(blob) > n => tail[1] # "cont"
<1> DEFINE tail == decode_tail(blob, n)
           cut == Len(blob) - Len(tail)
           dropped == IF Len(blob) > n THEN n - Len(tail) ELSE 0
           Fits == /\ tail = SubSeq(blob, cut + 1, Len(blob))
                   /\ Len(tail) <= n /\ dropped \in 0..3
                   /\ Len(blob) <= n => tail = blob
                   /\ \A i \in (cut - dropped + 1)..cut : blob[i] = "cont"
                   /\ dropped < 3 /\ tail # <<>> /\ Len(blob) > n => tail[1] # "cont"
<1>1. Len(blob) \in Nat
  OBVIOUS
<1>2. CASE ~(Len(blob) > n)
  <2>1. tail = SubSeq(blob, 1, Len(blob))
    BY <1>2 DEF decode_tail
  <2>2. tail = blob
    BY <2>1, SubSeqFull
  <2> HIDE DEF tail
  <2>3. cut = 0 /\ dropped = 0
    BY <1>1, <1>2, <2>2
  <2> HIDE DEF cut, dropped
  <2>4. Fits
    BY <1>1, <1>2, <2>1, <2>2, <2>3
  <2> QED
    BY <2>4 DEF tail, cut, dropped
<1>3. CASE Len(blob) > n
  <2> DEFINE c == Len(blob) - n
             orphans == {d \in 0..3 : /\ c + d <= Len(blob)
                                      /\ \A i \in (c + 1)..(c + d) : blob[i] = "cont"}
             m == Max(orphans)
  <2>1. c \in Nat /\ c <= Len(blob) /\ c # 0 /\ c + n = Len(blob)
    BY <1>1, <1>3
  <2>2. tail = SubSeq(blob, c + m + 1, Len(blob))
    BY <1>3, <2>1 DEF decode_tail
  <2> HIDE DEF c
  <2>3. /\ m \in 0..3 /\ c + m <= Len(blob)
        /\ \A i \in (c + 1)..(c + m) : blob[i] = "cont"
        /\ m < 3 /\ c + m < Len(blob) => blob[c + m + 1] # "cont"
    BY <2>1, OrphanFacts
  <2> HIDE DEF m, tail
  <2>4. \A i \in (c + m + 1)..Len(blob) : blob[i] \in ByteKinds
    BY <1>1, <2>1, <2>3
  <2>5. c + m + 1 \in Int /\ Len(blob) \in Int
    BY <1>1, <2>1, <2>3
  <2>6. /\ Len(tail) = IF c + m + 1 <= Len(blob) THEN Len(blob) - (c + m + 1) + 1 ELSE 0
        /\ \A i \in 1..(Len(blob) - (c + m + 1) + 1) : tail[i] = blob[c + m + 1 + i - 1]
    BY <2>2, <2>4, <2>5, SubSeqProperties
  <2>7. Len(tail) = n - m /\ m <= n
    BY <1>1, <2>1, <2>3, <2>6
  <2>8. cut = c + m /\ dropped = m
    BY <1>1, <1>3, <2>1, <2>3, <2>7
  <2>9. tail # <<>> => c + m < Len(blob) /\ tail[1] = blob[c + m + 1]
    <3> SUFFICES ASSUME tail # <<>> PROVE c + m < Len(blob) /\ tail[1] = blob[c + m + 1]
      OBVIOUS
    <3>1. c + m < Len(blob)
      <4> SUFFICES ASSUME ~(c + m < Len(blob)) PROVE FALSE
        OBVIOUS
      <4>1. PICK first \in Int, last \in Int : first = c + m + 1 /\ last = Len(blob)
        BY <2>5
      <4>2. last < first
        BY <1>1, <2>1, <2>3, <4>1
      <4>3. SubSeq(blob, first, last) = <<>>
        BY <4>2, SubSeqEmpty
      <4> QED
        BY <2>2, <4>1, <4>3
    <3>2. 1 \in 1..(Len(blob) - (c + m + 1) + 1) /\ c + m + 1 + 1 - 1 = c + m + 1
      BY <1>1, <2>1, <2>3, <3>1
    <3> QED
      BY <2>6, <3>1, <3>2
  <2> HIDE DEF cut, dropped
  <2>10. tail = SubSeq(blob, cut + 1, Len(blob)) /\ Len(tail) <= n /\ dropped \in 0..3
    BY <2>2, <2>3, <2>7, <2>8
  <2>11. \A i \in (cut - dropped + 1)..cut : blob[i] = "cont"
    <3>1. cut - dropped + 1 = c + 1
      BY <2>1, <2>3, <2>8
    <3> QED
      BY <2>3, <2>8, <3>1
  <2>12. dropped < 3 /\ tail # <<>> => tail[1] # "cont"
    BY <2>3, <2>8, <2>9
  <2>13. ~(Len(blob) <= n)
    BY <1>1, <1>3
  <2>14. Fits
    BY <2>10, <2>11, <2>12, <2>13
  <2> QED
    BY <2>14 DEF tail, cut, dropped
<1> QED
  BY <1>2, <1>3

\* The --tail-bytes of output loses nothing but orphaned continuation bytes:
\* for every stream of bytes and every length, decode_tail returns its end,
\* at most three bytes short, and does not begin inside a character.
THEOREM TailsAreEnds == ReadersSpec => []TailKeepsOutput
<1>1. TailKeepsOutput
  <2>1. ASSUME NEW blob \in Blobs, NEW n \in 1..MaxTail
        PROVE  blob \in Seq(ByteKinds) /\ n \in Nat /\ n # 0
    BY BlobsAssumption DEF ByteKinds
  <2> QED
    BY <2>1, TailFacts DEF TailKeepsOutput
<1> QED
  BY <1>1, PTL


-----------------------------------------------------------------------------
(* Workers and prunes use the store through its transactions               *)

\* Every step of workers, prunes, clients and a report is a transaction of
\* Store or leaves its tables alone.
LEMMA StepIsStoreStep ==
    ASSUME OutputSafe, [ReadersNext]_readerVars
    PROVE  [StoreNext]_storeVars
<1>1. StoreInv /\ clock \in Nat
  BY DEF OutputSafe, StoreInv, TypeOK
<1>2. ASSUME NEW r \in Runners, Claim(r) PROVE StoreNext
  <2>1. PICK j \in JobIds, lane \in Lanes : claim_next(j, r, r, lane, clock)
    BY <1>2 DEF Claim
  <2>2. r \in WorkerIds /\ r \in Pids
    BY RunnersAssumption
  <2>3. WorkerNext
    BY <2>1, <2>2 DEF WorkerNext
  <2> QED
    BY <2>3 DEF StoreNext
<1>3. ASSUME NEW r \in Runners, Record(r) PROVE [StoreNext]_storeVars
  <2> DEFINE j == runner[r].job
             no == runner[r].no
  <2>1. r \in WorkerIds /\ r \in Pids
    BY RunnersAssumption
  <2>2. Busy(r) /\ runner[r].kind \in Outcomes
    BY <1>3 DEF Record, Busy, BusyPlaces, OutputSafe, RunnerTypes, OutcomeOk
  <2>3. j \in JobIds => no \in DOMAIN attempts[j]
    BY <2>2 DEF OutputSafe, RunnerInv, KnowsJob, HasRow
  <2>4. CASE record_success(j, no, r, r, clock)
    <3>1. j \in JobIds
      BY <2>4 DEF record_success, Owns
    <3>2. WorkerNext
      BY <2>1, <2>3, <2>4, <3>1 DEF WorkerNext
    <3> QED
      BY <3>2 DEF StoreNext
  <2>5. CASE runner[r].kind # "succeeded" /\ record_failure(j, no, r, r, runner[r].kind, clock)
    <3>1. j \in JobIds
      BY <2>5 DEF record_failure, Owns
    <3>2. runner[r].kind \in {"process_exit", "timeout", "spawn_failed"}
      BY <2>2, <2>5 DEF Outcomes
    <3>3. WorkerNext
      BY <2>1, <2>3, <2>5, <3>1, <3>2 DEF WorkerNext
    <3> QED
      BY <3>3 DEF StoreNext
  <2> QED
    BY <1>3, <2>4, <2>5 DEF Record
<1>4. ASSUME NEW r \in Runners, Reap(r) PROVE StoreNext
  <2>1. PICK j \in JobIds : reap(j, r, clock - REAP_THRESHOLD, clock)
    BY <1>4 DEF Reap
  <2>2. r \in WorkerIds /\ r \in Pids /\ clock \in 0..clock
    BY <1>1, RunnersAssumption
  <2>3. WorkerNext
    BY <2>1, <2>2 DEF WorkerNext
  <2> QED
    BY <2>3 DEF StoreNext
<1>5. ASSUME DeleteRows PROVE [StoreNext]_storeVars
  <2>1. CASE prune_delete(prune.ids, PrunableStates, prune.cutoff)
    <3> DEFINE ids == prune.ids \cap Prunable(PrunableStates, prune.cutoff)
    <3>1. ids \in SUBSET JobIds
      BY DEF Prunable
    <3>2. Prunable(PrunableStates, prune.cutoff) \subseteq Prunable(PrunableStates, clock)
      <4>1. prune.cutoff \in Int /\ prune.cutoff <= clock
        BY <1>1 DEF OutputSafe, PruneInv
      <4>2. \A j \in JobIds : jobs[j].finished_at \in Int \cup {NULL}
        BY <1>1 DEF StoreInv, TypeOK, JobRow, Time
      <4> QED
        BY <1>1, <4>1, <4>2 DEF Prunable
    <3>3. ids \cap Prunable(PrunableStates, clock) = ids
      BY <3>2
    <3>4. prune_delete(ids, PrunableStates, clock)
      BY <2>1, <3>3 DEF prune_delete
    <3>5. ClientNext
      BY <3>1, <3>4 DEF ClientNext
    <3> QED
      BY <3>5 DEF StoreNext
  <2> QED
    BY <1>5, <2>1 DEF DeleteRows
<1>6. Others => StoreNext
  BY DEF Others, StoreNext, ClientNext
<1>7. ASSUME NEW r \in Runners,
             \/ RunnerStep(r) /\ ~Claim(r) /\ ~Record(r)
             \/ Die(r)
      PROVE  UNCHANGED storeVars
  BY <1>7 DEF RunnerStep, Reread, MakeJobDir, MakeAttemptDir, OpenFiles, Spawn, Exits,
     TimesOut, LosesJob, Grace, Die
<1>8. PruneStep /\ ~DeleteRows => UNCHANGED storeVars
  BY DEF PruneStep, MatchJobs, SelectPaths, Unlink, Rmdir, RmJobDir, PruneStops
<1>9. Starts \/ ReaderStep \/ WaitTimesOut \/ UNCHANGED readerVars => UNCHANGED storeVars
  BY DEF Starts, ReaderStep, WaitTimesOut, ReadJob, ReadAttempts, ReadEvents, ReadStreams,
     Poll, ReadCounts, ReadDead, Quiet, readerVars
<1> QED
  BY <1>2, <1>3, <1>4, <1>5, <1>6, <1>7, <1>8, <1>9 DEF ReadersNext, OutputNext

\* Workers, prunes and reports implement Store: execute_attempt and
\* prune_operation change the queue through its transactions only, with
\* arguments that a caller of Store may pass.  So whatever is proved of
\* StoreSpec holds beside the files and the process groups as well.
THEOREM ReadersUseTheStore == ReadersSpec => StoreSpec
<1>1. ReadersInit => StoreInit
  BY DEF ReadersInit, OutputInit
<1>2. OutputSafe /\ [ReadersNext]_readerVars => [StoreNext]_storeVars
  BY StepIsStoreStep
<1> QED
  BY <1>1, <1>2, OutputIsSafe, PTL DEF ReadersSpec, StoreSpec


-----------------------------------------------------------------------------
(* What attempts tell of their job                                         *)

Closed(try) == try.state \notin {"running", "succeeded"}

\* Attempt states of commands that were run to an end.
Ended == {"succeeded", "failed", "timed_out"}

\* The last attempt of a job is open while the job runs and a success once it
\* is done; every other one is closed with a reason.
Tells(row, tries) ==
    /\ \A n \in DOMAIN tries :
         /\ tries[n].state = "running" <=> row.state = "running" /\ n = Len(tries)
         /\ tries[n].state = "succeeded" <=> row.state = "done" /\ n = Len(tries)
         /\ Closed(tries[n]) => tries[n].failure_reason # NULL
    /\ row.state \in {"running", "done", "dead"} \/ row.attempts > 0 => Len(tries) > 0

AttemptsTell == \A j \in JobIds : Tells(jobs[j], attempts[j])

\* A worker that owns its job is at the job's last attempt.
OwnersAreLast ==
    \A r \in Runners :
        Busy(r) /\ Owns(runner[r].job, r, r) => runner[r].no = Len(attempts[runner[r].job])

\* A command that was run to its end has left its output, or a prune took it.
Captured(j, tries) ==
    \A n \in DOMAIN tries : tries[n].state \in Ended => <<j, n>> \in files \cup taken

HistorySafe ==
    /\ AttemptsTell
    /\ OwnersAreLast
    /\ \A j \in JobIds : Captured(j, attempts[j])
    /\ struck \subseteq taken

-----------------------------------------------------------------------------
(* A transaction and the attempts of its job                               *)

\* A job that runs is not given another attempt.
LensKept ==
    \A j \in JobIds \cap JobIds' :
        jobs[j].state = "running" => Len(attempts'[j]) = Len(attempts[j])

\* What a transaction leaves of the attempts.
HistoryKept ==
    /\ AttemptsTell'
    /\ \A j \in JobIds' : Captured(j, attempts'[j])
    /\ LensKept

\* A transaction that rewrites one job.
LEMMA TouchTells ==
    ASSUME StoreInv, HistorySafe, NEW j \in JobIds, NEW row, NEW tries,
           jobs' = [jobs EXCEPT ![j] = row], attempts' = [attempts EXCEPT ![j] = tries],
           Tells(row, tries), Captured(j, tries),
           jobs[j].state = "running" => Len(tries) = Len(attempts[j])
    PROVE  HistoryKept
<1>1. /\ JobIds' = JobIds
      /\ jobs'[j] = row /\ attempts'[j] = tries
      /\ \A i \in JobIds : i # j => jobs'[i] = jobs[i] /\ attempts'[i] = attempts[i]
  BY DEF StoreInv, TypeOK, JobIds
<1>2. AttemptsTell'
  BY <1>1 DEF HistorySafe, AttemptsTell
<1>3. \A i \in JobIds' : Captured(i, attempts'[i])
  BY <1>1 DEF HistorySafe
<1>4. LensKept
  BY <1>1 DEF LensKept
<1> QED
  BY <1>2, <1>3, <1>4 DEF HistoryKept

\* The attempts of a job and their numbers.
LEMMA TriesFacts ==
    ASSUME StoreInv, HistorySafe, NEW j \in JobIds
    PROVE  /\ Len(attempts[j]) \in Nat
           /\ DOMAIN attempts[j] = 1..Len(attempts[j])
           /\ \A n \in DOMAIN attempts[j] : attempts[j][n] \in AttemptRow
           /\ Tells(jobs[j], attempts[j]) /\ Captured(j, attempts[j])
<1>1. attempts[j] \in Seq(AttemptRow)
  BY RowFacts
<1>2. Tells(jobs[j], attempts[j]) /\ Captured(j, attempts[j])
  BY DEF HistorySafe, AttemptsTell
<1> QED
  BY <1>1, <1>2

\* cancel_job, a forced retry_job and reap close the attempt that runs.
LEMMA ClosingTells ==
    ASSUME StoreInv, HistorySafe, NEW j \in JobIds, jobs[j].state = "running",
           NEW row, row.state \notin {"running", "done"},
           NEW state \in {"canceled", "abandoned"}, NEW reason \in FailureReasons
    PROVE  LET tries == CloseRunning(j, state, reason)
           IN  Tells(row, tries) /\ Captured(j, tries) /\ Len(tries) = Len(attempts[j])
<1> DEFINE tries == CloseRunning(j, state, reason)
           m == Len(attempts[j])
<1>1. /\ m \in Nat /\ DOMAIN attempts[j] = 1..m
      /\ \A n \in DOMAIN attempts[j] : attempts[j][n] \in AttemptRow
      /\ Tells(jobs[j], attempts[j]) /\ Captured(j, attempts[j])
  BY TriesFacts
<1>2. DOMAIN tries = DOMAIN attempts[j] /\ Len(tries) = m
  BY CloseDomain, CloseLen DEF StoreInv
<1>3. ASSUME NEW n \in DOMAIN attempts[j]
      PROVE  \/ /\ attempts[j][n].state = "running"
                /\ tries[n].state = state /\ tries[n].failure_reason = reason
             \/ attempts[j][n].state # "running" /\ tries[n] = attempts[j][n]
  BY <1>1 DEF CloseRunning, AttemptRow
<1>4. \A n \in DOMAIN attempts[j] : attempts[j][n].state # "succeeded"
  BY <1>1 DEF Tells
<1>5. m > 0
  BY <1>1 DEF Tells
<1>6. reason # NULL
  BY NullAssumption
<1> HIDE DEF tries, m
<1>7. Tells(row, tries)
  BY <1>1, <1>2, <1>3, <1>4, <1>5, <1>6 DEF Tells, Closed
<1>8. Captured(j, tries)
  BY <1>1, <1>2, <1>3 DEF Captured, Ended
<1> QED
  BY <1>2, <1>7, <1>8 DEF tries, m

\* record_success and record_failure close the last attempt, whose output
\* is on disk or was taken.
LEMMA EndingTells ==
    ASSUME StoreInv, HistorySafe, NEW j \in JobIds, jobs[j].state = "running",
           NEW no, no = Len(attempts[j]), <<j, no>> \in files \cup taken,
           NEW state \in Ended, NEW reason \in FailureReasons \cup {NULL},
           state # "succeeded" => reason # NULL,
           NEW row, row.state # "running", row.state = "done" <=> state = "succeeded"
    PROVE  LET tries == CloseOne(j, no, state, reason)
           IN  Tells(row, tries) /\ Captured(j, tries) /\ Len(tries) = Len(attempts[j])
<1> DEFINE tries == CloseOne(j, no, state, reason)
           m == Len(attempts[j])
<1>1. /\ m \in Nat /\ DOMAIN attempts[j] = 1..m
      /\ \A n \in DOMAIN attempts[j] : attempts[j][n] \in AttemptRow
      /\ Tells(jobs[j], attempts[j]) /\ Captured(j, attempts[j])
  BY TriesFacts
<1>2. DOMAIN tries = DOMAIN attempts[j] /\ Len(tries) = m
  BY CloseDomain, CloseLen DEF StoreInv
<1>3. \A n \in DOMAIN attempts[j] : attempts[j][n].state = "running" <=> n = m
  BY <1>1 DEF Tells
<1>4. ASSUME NEW n \in DOMAIN attempts[j]
      PROVE  \/ n = m /\ tries[n].state = state /\ tries[n].failure_reason = reason
             \/ n # m /\ attempts[j][n].state # "running" /\ tries[n] = attempts[j][n]
  BY <1>1, <1>3 DEF CloseOne, AttemptRow
<1>5. \A n \in DOMAIN attempts[j] : attempts[j][n].state # "succeeded"
  BY <1>1 DEF Tells
<1>6. m > 0 /\ no = m
  BY <1>1 DEF Tells
<1>7. state # "running"
  BY DEF Ended
<1> HIDE DEF tries, m
<1>8. Tells(row, tries)
  <2>1. ASSUME NEW n \in DOMAIN tries
        PROVE  /\ tries[n].state = "running" <=> row.state = "running" /\ n = Len(tries)
               /\ tries[n].state = "succeeded" <=> row.state = "done" /\ n = Len(tries)
               /\ Closed(tries[n]) => tries[n].failure_reason # NULL
    <3>1. CASE n = m
      BY <1>2, <1>4, <1>7, <3>1 DEF Closed
    <3>2. CASE n # m
      BY <1>1, <1>2, <1>4, <1>5, <3>2 DEF Closed, Tells
    <3> QED
      BY <3>1, <3>2
  <2> QED
    BY <1>2, <1>6, <2>1 DEF Tells
<1>9. Captured(j, tries)
  BY <1>1, <1>2, <1>4, <1>6 DEF Captured
<1> QED
  BY <1>2, <1>8, <1>9 DEF tries, m

\* add_job_checked: a job without attempts.
LEMMA AddTells ==
    ASSUME StoreInv, HistorySafe, NEW s, NEW delay, add_job_checked(s, delay, clock)
    PROVE  HistoryKept
<1>1. /\ JobIds' = JobIds \cup {lastId + 1} /\ lastId + 1 \notin JobIds
      /\ \A i \in JobIds : jobs'[i] = jobs[i] /\ attempts'[i] = attempts[i]
      /\ jobs'[lastId + 1].state = "queued" /\ jobs'[lastId + 1].attempts = 0
      /\ attempts'[lastId + 1] = <<>>
  BY DEF add_job_checked, JobIds, StoreInv, TypeOK
<1>2. Tells(jobs'[lastId + 1], attempts'[lastId + 1])
  BY <1>1 DEF Tells
<1>3. Captured(lastId + 1, attempts'[lastId + 1])
  BY <1>1 DEF Captured
<1>4. AttemptsTell'
  BY <1>1, <1>2 DEF HistorySafe, AttemptsTell
<1>5. \A j \in JobIds' : Captured(j, attempts'[j])
  BY <1>1, <1>3 DEF HistorySafe
<1>6. LensKept
  BY <1>1 DEF LensKept
<1> QED
  BY <1>4, <1>5, <1>6 DEF HistoryKept

\* prune_delete: the rows that stay are as they were.
LEMMA PruneTells ==
    ASSUME StoreInv, HistorySafe, NEW ids, NEW states, NEW cutoff,
           prune_delete(ids, states, cutoff)
    PROVE  HistoryKept
<1>1. /\ JobIds' \subseteq JobIds
      /\ \A i \in JobIds' : jobs'[i] = jobs[i] /\ attempts'[i] = attempts[i]
  BY DEF prune_delete, JobIds
<1> QED
  BY <1>1 DEF HistorySafe, AttemptsTell, HistoryKept, LensKept

\* cancel_job.
LEMMA CancelTells ==
    ASSUME StoreInv, HistorySafe, NEW j \in JobIds, NEW allow_running,
           cancel_job(j, allow_running, clock)
    PROVE  HistoryKept
<1>1. jobs[j] \in JobRow
  BY RowFacts
<1>2. CASE jobs[j].state = "queued"
  <2> DEFINE row == [jobs[j] EXCEPT !.state = "canceled", !.finished_at = clock]
  <2>1. jobs' = [jobs EXCEPT ![j] = row] /\ attempts' = [attempts EXCEPT ![j] = attempts[j]]
    BY <1>1, <1>2 DEF cancel_job, StoreInv, TypeOK
  <2>2. row.state = "canceled" /\ row.attempts = jobs[j].attempts
    BY <1>1 DEF JobRow
  <2>3. Tells(jobs[j], attempts[j]) /\ Captured(j, attempts[j])
    BY TriesFacts
  <2> HIDE DEF row
  <2>4. Tells(row, attempts[j])
    BY <1>2, <2>2, <2>3 DEF Tells
  <2> QED
    BY <1>2, <2>1, <2>3, <2>4, TouchTells
<1>3. CASE jobs[j].state = "running"
  <2> DEFINE row == [Unlocked(jobs[j]) EXCEPT !.state = "canceled", !.finished_at = clock]
             tries == CloseRunning(j, "canceled", "canceled")
  <2>1. jobs' = [jobs EXCEPT ![j] = row] /\ attempts' = [attempts EXCEPT ![j] = tries]
    BY <1>3 DEF cancel_job
  <2>2. row.state = "canceled"
    BY <1>1 DEF JobRow, Unlocked
  <2> HIDE DEF row
  <2>3. Tells(row, tries) /\ Captured(j, tries) /\ Len(tries) = Len(attempts[j])
    BY <1>3, <2>2, ClosingTells DEF FailureReasons
  <2> HIDE DEF tries
  <2> QED
    BY <2>1, <2>3, TouchTells
<1> QED
  BY <1>2, <1>3 DEF cancel_job

\* retry_job.
LEMMA RetryTells ==
    ASSUME StoreInv, HistorySafe, NEW j \in JobIds, NEW force \in BOOLEAN,
           retry_job(j, force, clock)
    PROVE  HistoryKept
<1> DEFINE row == FreshBudget(jobs[j], clock)
           tries == CloseRunning(j, "abandoned", "canceled")
<1>1. jobs[j] \in JobRow
  BY RowFacts
<1>2. jobs' = [jobs EXCEPT ![j] = row] /\ row.state = "queued" /\ row.attempts = 0
  BY <1>1 DEF retry_job, JobRow, FreshBudget, Unlocked
<1> HIDE DEF row
<1>3. CASE force
  <2>1. attempts' = [attempts EXCEPT ![j] = tries] /\ jobs[j].state = "running"
    BY <1>3 DEF retry_job, Retryable
  <2>2. Tells(row, tries) /\ Captured(j, tries) /\ Len(tries) = Len(attempts[j])
    BY <1>2, <2>1, ClosingTells DEF FailureReasons
  <2> HIDE DEF tries
  <2> QED
    BY <1>2, <2>1, <2>2, TouchTells
<1>4. CASE ~force
  <2>1. attempts' = [attempts EXCEPT ![j] = attempts[j]]
        /\ jobs[j].state \notin {"running", "done"}
    BY <1>4 DEF retry_job, Retryable, ActiveStates, StoreInv, TypeOK
  <2>2. Tells(jobs[j], attempts[j]) /\ Captured(j, attempts[j])
    BY TriesFacts
  <2>3. Tells(row, attempts[j])
    BY <1>2, <2>1, <2>2 DEF Tells
  <2> QED
    BY <1>2, <2>1, <2>2, <2>3, TouchTells
<1> QED
  BY <1>3, <1>4

\* reap.
LEMMA ReapTells ==
    ASSUME StoreInv, HistorySafe, NEW j \in JobIds, NEW pid, NEW cutoff,
           reap(j, pid, cutoff, clock)
    PROVE  HistoryKept
<1> DEFINE exhausted == CrashesExhausted(jobs[j])
           row == Requeued(jobs[j], exhausted, jobs[j].attempts + 1,
                           jobs[j].crashes + 1, clock)
           tries == CloseRunning(j, "abandoned", "worker_crash")
<1>1. jobs[j] \in JobRow
  BY RowFacts
<1>2. /\ jobs' = [jobs EXCEPT ![j] = row] /\ attempts' = [attempts EXCEPT ![j] = tries]
      /\ jobs[j].state = "running"
  BY DEF reap, Reapable, Stale
<1> HIDE DEF exhausted
<1>3. row.state \in {"queued", "dead"}
  BY <1>1 DEF JobRow, Requeued, Unlocked
<1> HIDE DEF row
<1>4. Tells(row, tries) /\ Captured(j, tries) /\ Len(tries) = Len(attempts[j])
  BY <1>2, <1>3, ClosingTells DEF FailureReasons
<1> HIDE DEF tries
<1> QED
  BY <1>2, <1>4, TouchTells

\* record_success and record_failure, of the worker that has the last attempt.
LEMMA RecordTells ==
    ASSUME StoreInv, HistorySafe, NEW j \in JobIds, NEW w,
           NEW no, no = Len(attempts[j]), <<j, no>> \in files \cup taken,
           NEW reason \in {"process_exit", "timeout", "spawn_failed"},
           \/ record_success(j, no, w, w, clock)
           \/ record_failure(j, no, w, w, reason, clock)
    PROVE  HistoryKept
<1>1. jobs[j] \in JobRow /\ jobs[j].state = "running"
  BY RowFacts DEF record_success, record_failure, Owns
<1>2. CASE record_success(j, no, w, w, clock)
  <2> DEFINE row == [Unlocked(jobs[j]) EXCEPT !.state = "done", !.finished_at = clock]
             tries == CloseOne(j, no, "succeeded", NULL)
  <2>1. /\ jobs' = [jobs EXCEPT ![j] = row] /\ attempts' = [attempts EXCEPT ![j] = tries]
    BY <1>2 DEF record_success
  <2>2. row.state = "done"
    BY <1>1 DEF JobRow, Unlocked
  <2> HIDE DEF row
  <2>3. Tells(row, tries) /\ Captured(j, tries) /\ Len(tries) = Len(attempts[j])
    BY <1>1, <2>2, EndingTells DEF Ended
  <2> HIDE DEF tries
  <2> QED
    BY <2>1, <2>3, TouchTells
<1>3. CASE record_failure(j, no, w, w, reason, clock)
  <2> DEFINE exhausted == RetriesExhausted(jobs[j])
             row == Requeued(jobs[j], exhausted, jobs[j].attempts + 1, jobs[j].crashes, clock)
             state == FailureKind(reason)
             tries == CloseOne(j, no, state, reason)
  <2>1. /\ jobs' = [jobs EXCEPT ![j] = row] /\ attempts' = [attempts EXCEPT ![j] = tries]
    BY <1>3 DEF record_failure
  <2> HIDE DEF exhausted
  <2>2. row.state \in {"queued", "dead"}
    BY <1>1 DEF JobRow, Requeued, Unlocked
  <2> HIDE DEF row
  <2>3. state \in Ended /\ state # "succeeded" /\ reason \in FailureReasons /\ reason # NULL
    BY NullAssumption DEF FailureKind, Ended, FailureReasons
  <2> HIDE DEF state
  <2>4. Tells(row, tries) /\ Captured(j, tries) /\ Len(tries) = Len(attempts[j])
    BY <1>1, <2>2, <2>3, EndingTells
  <2> HIDE DEF tries
  <2> QED
    BY <2>1, <2>4, TouchTells
<1> QED
  BY <1>2, <1>3

\* claim_next opens a new last attempt.
LEMMA ClaimTells ==
    ASSUME StoreInv, HistorySafe, NEW j \in JobIds, NEW w, NEW lane,
           claim_next(j, w, w, lane, clock)
    PROVE  /\ HistoryKept
           /\ NextAttemptNo(j) = Len(attempts'[j])
           /\ jobs[j].state = "queued"
<1> DEFINE row == [jobs[j] EXCEPT !.state = "running", !.locked_by = w,
                                  !.locked_pid = w, !.heartbeat_at = clock]
           try == [worker_id |-> w, worker_pid |-> w,
                   state |-> "running", failure_reason |-> NULL]
           m == Len(attempts[j]) + 1
           tries == [n \in DOMAIN attempts[j] \cup {NextAttemptNo(j)} |->
                       IF n = NextAttemptNo(j) THEN try ELSE attempts[j][n]]
<1>1. jobs[j] \in JobRow /\ jobs[j].state = "queued"
  BY RowFacts DEF claim_next, CanClaim, Claimable, Due
<1>2. jobs' = [jobs EXCEPT ![j] = row] /\ attempts' = [attempts EXCEPT ![j] = tries]
  BY DEF claim_next
<1>3. row.state = "running"
  BY <1>1 DEF JobRow
<1>4. m \in Nat /\ m > 0 /\ NextAttemptNo(j) = m /\ DOMAIN attempts[j] = 1..(m - 1)
  BY NextAttemptNoIsLen DEF StoreInv
<1>5. DOMAIN attempts[j] \cup {m} = 1..m
  BY <1>4
<1>6. Len(tries) = m /\ DOMAIN tries = 1..m
  <2>1. tries = [i \in 1..m |-> tries[i]]
    BY <1>4, <1>5
  <2> HIDE DEF tries, m
  <2> QED
    BY <1>4, <2>1, FunctionLen
<1>7. tries[m].state = "running" /\ \A n \in 1..(m - 1) : tries[n] = attempts[j][n]
  BY <1>4
<1>8. Tells(jobs[j], attempts[j]) /\ Captured(j, attempts[j])
  BY TriesFacts
<1>9. attempts'[j] = tries
  BY <1>2 DEF StoreInv, TypeOK
<1> HIDE DEF tries, m, row
<1>10. ASSUME NEW n \in 1..m
       PROVE  /\ tries[n].state = "running" <=> n = m
              /\ tries[n].state # "succeeded"
              /\ Closed(tries[n]) => tries[n].failure_reason # NULL
  <2>1. CASE n = m
    BY <1>7, <2>1 DEF Closed
  <2>2. CASE n # m
    <3>1. n \in 1..(m - 1)
      BY <1>4, <2>2
    <3> QED
      BY <1>1, <1>4, <1>7, <1>8, <2>2, <3>1 DEF Tells
  <2> QED
    BY <2>1, <2>2
<1>11. Tells(row, tries)
  BY <1>3, <1>4, <1>6, <1>10 DEF Tells
<1>12. Captured(j, tries)
  <2> SUFFICES ASSUME NEW n \in DOMAIN tries, tries[n].state \in Ended
               PROVE  <<j, n>> \in files \cup taken
    BY DEF Captured
  <2>1. n # m
    BY <1>7 DEF Ended
  <2>2. n \in 1..(m - 1)
    BY <1>4, <1>6, <2>1
  <2> QED
    BY <1>4, <1>7, <1>8, <2>2 DEF Captured
<1>13. HistoryKept
  BY <1>1, <1>2, <1>11, <1>12, TouchTells
<1> QED
  BY <1>1, <1>4, <1>6, <1>9, <1>13

-----------------------------------------------------------------------------
(* HistorySafe is an invariant                                             *)

\* A transaction of w, or of nobody.
LEMMA HistoryStays ==
    ASSUME OutputSafe, HistorySafe, NEW w, QueueKept(w), HistoryKept,
           UNCHANGED <<files, taken, struck>>,
           \A r \in Runners : r # w => runner'[r] = runner[r],
           w \in Runners /\ Busy(w)' /\ Owns(runner[w].job, w, w)' =>
             runner'[w].no = Len(attempts'[runner'[w].job])
    PROVE  HistorySafe'
<1>1. OwnersAreLast'
  <2> SUFFICES ASSUME NEW r \in Runners, Busy(r)', Owns(runner[r].job, r, r)'
               PROVE  runner'[r].no = Len(attempts'[runner'[r].job])
    BY DEF OwnersAreLast
  <2>1. CASE r = w
    BY <2>1
  <2>2. CASE r # w
    <3>1. PICK j : j = runner[r].job
      OBVIOUS
    <3>2. runner'[r] = runner[r] /\ Busy(r)
      BY <2>2 DEF Busy
    <3>3. j \in JobIds' /\ Owns(j, r, r)'
      BY <3>1, <3>2 DEF Owns
    <3>4. Owns(j, r, r)
      BY <2>2, <3>3 DEF QueueKept
    <3>5. j \in JobIds /\ jobs[j].state = "running"
      BY <3>4 DEF Owns
    <3>6. Len(attempts'[j]) = Len(attempts[j])
      BY <3>3, <3>5 DEF HistoryKept, LensKept
    <3>7. runner[r].no = Len(attempts[j])
      BY <3>1, <3>2, <3>4 DEF HistorySafe, OwnersAreLast
    <3> QED
      BY <3>1, <3>2, <3>6, <3>7
  <2> QED
    BY <2>1, <2>2
<1>2. (\A j \in JobIds : Captured(j, attempts[j]))'
  BY DEF HistoryKept, Captured
<1>3. (struck \subseteq taken)'
  BY DEF HistorySafe
<1> QED
  BY <1>1, <1>2, <1>3 DEF HistorySafe, HistoryKept

\* A step that commits nothing, makes nobody busy and loses no output
\* that is not noted as taken.
LEMMA QuietHistory ==
    ASSUME HistorySafe, UNCHANGED <<jobs, attempts>>,
           \A r \in Runners : Busy(r)' => /\ Busy(r) /\ runner'[r].job = runner[r].job
                                          /\ runner'[r].no = runner[r].no,
           files \cup taken \subseteq files' \cup taken', struck' \subseteq taken'
    PROVE  HistorySafe'
<1>1. JobIds' = JobIds
  BY DEF JobIds
<1>2. AttemptsTell'
  BY <1>1 DEF HistorySafe, AttemptsTell
<1>3. OwnersAreLast'
  BY <1>1 DEF HistorySafe, OwnersAreLast, Owns
<1>4. (\A j \in JobIds : Captured(j, attempts[j]))'
  BY <1>1 DEF HistorySafe, Captured
<1> QED
  BY <1>2, <1>3, <1>4 DEF HistorySafe

\* Clients and the clock.
LEMMA OthersHistory ==
    ASSUME OutputSafe, HistorySafe, Others
    PROVE  HistorySafe'
<1>1. StoreInv
  BY DEF OutputSafe
<1>2. UNCHANGED <<runner, files, taken, struck>>
  BY DEF Others, outputVars, fileVars, historyVars
<1>3. CASE Tick
  <2>1. \A r \in Runners : Busy(r)' <=> Busy(r)
    BY <1>2 DEF Busy
  <2> QED
    BY <1>2, <1>3, <2>1, QuietHistory DEF Tick, HistorySafe
<1>4. CASE ~Tick
  <2>1. QueueKept(NULL) /\ HistoryKept
    BY <1>1, <1>4, AddKept, CancelKept, RetryKept, AddTells, CancelTells, RetryTells,
       RunnersAssumption DEF Others
  <2> QED
    BY <1>2, <2>1, HistoryStays, NullIsNobody
<1> QED
  BY <1>3, <1>4

\* A claim.
LEMMA ClaimHistory ==
    ASSUME OutputSafe, HistorySafe, NEW r \in Runners, Claim(r)
    PROVE  HistorySafe'
<1>1. StoreInv /\ runner \in [Runners -> RunnerRecords] /\ r \in WorkerIds
  BY RunnersAssumption DEF OutputSafe, RunnerTypes
<1>2. PICK j \in JobIds, lane \in Lanes :
        /\ claim_next(j, r, r, lane, clock)
        /\ runner' = [runner EXCEPT ![r] =
                        [Idle EXCEPT !.pc = "reread", !.job = j, !.no = NextAttemptNo(j)]]
  BY DEF Claim
<1>3. HistoryKept /\ NextAttemptNo(j) = Len(attempts'[j]) /\ QueueKept(r)
  BY <1>1, <1>2, ClaimTells, ClaimKept
<1>4. /\ runner'[r].job = j /\ runner'[r].no = NextAttemptNo(j)
      /\ \A q \in Runners : q # r => runner'[q] = runner[q]
  BY <1>1, <1>2 DEF Idle
<1>5. UNCHANGED <<files, taken, struck>>
  BY DEF Claim, fileVars, historyVars
<1> QED
  BY <1>3, <1>4, <1>5, HistoryStays

\* A result.
LEMMA RecordHistory ==
    ASSUME OutputSafe, HistorySafe, NEW r \in Runners, Record(r)
    PROVE  HistorySafe'
<1>1. StoreInv /\ runner \in [Runners -> RunnerRecords] /\ OutcomeOk(runner[r])
  BY DEF OutputSafe, RunnerTypes
<1>2. /\ runner' = [runner EXCEPT ![r] = Idle]
      /\ UNCHANGED <<files, taken, struck>>
      /\ runner[r].pc = "record"
  BY DEF Record, fileVars, historyVars
<1>3. ~Busy(r)' /\ \A q \in Runners : q # r => runner'[q] = runner[q]
  BY <1>1, <1>2 DEF Busy, BusyPlaces, Early, Idle
<1>4. CASE UNCHANGED storeVars
  <2>1. \A q \in Runners : Busy(q)' => /\ Busy(q) /\ runner'[q].job = runner[q].job
                                       /\ runner'[q].no = runner[q].no
    BY <1>3 DEF Busy
  <2> QED
    BY <1>2, <1>4, <2>1, QuietHistory DEF HistorySafe, storeVars
<1>5. PICK j, no, kind : j = runner[r].job /\ no = runner[r].no /\ kind = runner[r].kind
  OBVIOUS
<1>6. CASE \/ record_success(j, no, r, r, clock)
           \/ kind # "succeeded" /\ record_failure(j, no, r, r, kind, clock)
  <2>1. Owns(j, r, r) /\ j \in JobIds
    BY <1>6 DEF record_success, record_failure, Owns
  <2>2. Busy(r) /\ Writing(r) /\ Mine(r) = <<j, no>>
    BY <1>2, <1>5 DEF Busy, Writing, Mine, BusyPlaces
  <2>3. no = Len(attempts[j])
    BY <1>5, <2>1, <2>2 DEF HistorySafe, OwnersAreLast
  <2>4. <<j, no>> \in files \cup taken
    BY <1>5, <2>1, <2>2 DEF OutputSafe, OwnedOutputKept, HistorySafe
  <2>5. HistoryKept
    <3>1. kind # "succeeded" => kind \in {"process_exit", "timeout", "spawn_failed"}
      BY <1>1, <1>2, <1>5 DEF OutcomeOk, Outcomes
    <3> QED
      BY <1>1, <1>6, <2>1, <2>3, <2>4, <3>1, RecordTells
  <2>6. QueueKept(r)
    BY <1>1, <1>6, <2>1, RecordKept
  <2> QED
    BY <1>2, <1>3, <2>5, <2>6, HistoryStays
<1> QED
  BY <1>4, <1>5, <1>6 DEF Record

\* A reaped claim.
LEMMA ReapHistory ==
    ASSUME OutputSafe, HistorySafe, NEW r \in Runners, Reap(r)
    PROVE  HistorySafe'
<1>1. StoreInv
  BY DEF OutputSafe
<1>2. PICK j \in JobIds : reap(j, r, clock - REAP_THRESHOLD, clock)
  BY DEF Reap
<1>3. QueueKept(r) /\ HistoryKept
  BY <1>1, <1>2, ReapKept, ReapTells
<1>4. UNCHANGED <<runner, files, taken, struck>> /\ ~Busy(r)'
  BY DEF Reap, outputVars, fileVars, historyVars, Busy, BusyPlaces, Early
<1> QED
  BY <1>3, <1>4, HistoryStays

\* The rows of a prune are deleted, or it finds nothing to delete.
LEMMA DeleteHistory ==
    ASSUME OutputSafe, HistorySafe, DeleteRows
    PROVE  HistorySafe'
<1>1. StoreInv
  BY DEF OutputSafe
<1>2. UNCHANGED <<runner, files, taken, struck>>
  BY DEF DeleteRows, fileVars, historyVars
<1>3. CASE prune_delete(prune.ids, PrunableStates, prune.cutoff)
  <2>1. PICK ids, cutoff : prune_delete(ids, PrunableStates, cutoff)
    BY <1>3
  <2>2. QueueKept(NULL) /\ HistoryKept
    BY <1>1, <2>1, PruneKept, PruneTells
  <2> QED
    BY <1>2, <2>2, HistoryStays, NullIsNobody
<1>4. CASE UNCHANGED storeVars
  <2>1. \A r \in Runners : Busy(r)' <=> Busy(r)
    BY <1>2 DEF Busy
  <2> QED
    BY <1>2, <1>4, <2>1, QuietHistory DEF HistorySafe, storeVars
<1> QED
  BY <1>3, <1>4 DEF DeleteRows

\* A worker between its claim and its result.
LEMMA CycleHistory ==
    ASSUME OutputSafe, HistorySafe, NEW r \in Runners,
           \/ RunnerStep(r) /\ ~Claim(r) /\ ~Record(r)
           \/ Die(r)
    PROVE  HistorySafe'
<1>1. runner \in [Runners -> RunnerRecords]
  BY DEF OutputSafe, RunnerTypes
<1>2. UNCHANGED <<jobs, attempts>>
  BY DEF RunnerStep, Reread, MakeJobDir, MakeAttemptDir, OpenFiles, Spawn, Exits,
     TimesOut, LosesJob, Grace, Die, storeVars
<1>3. files \cup taken \subseteq files' \cup taken' /\ UNCHANGED <<taken, struck>>
  BY DEF RunnerStep, Reread, MakeJobDir, MakeAttemptDir, OpenFiles, Spawn, Exits,
     TimesOut, LosesJob, Grace, Die, fileVars, historyVars
<1>4. ASSUME NEW c, runner' = [runner EXCEPT ![r] = c],
             c.pc \in BusyPlaces => /\ Busy(r) /\ c.job = runner[r].job
                                    /\ c.no = runner[r].no
      PROVE  HistorySafe'
  <2>1. \A q \in Runners : Busy(q)' => /\ Busy(q) /\ runner'[q].job = runner[q].job
                                       /\ runner'[q].no = runner[q].no
    BY <1>1, <1>4 DEF Busy
  <2> QED
    BY <1>2, <1>3, <2>1, QuietHistory DEF HistorySafe
<1>5. ASSUME NEW pc, Set(r, pc), Busy(r) PROVE HistorySafe'
  <2> DEFINE c == [runner[r] EXCEPT !.pc = pc]
  <2>1. runner' = [runner EXCEPT ![r] = c] /\ c.job = runner[r].job /\ c.no = runner[r].no
    BY <1>1, <1>5 DEF Set, RunnerRecords
  <2> HIDE DEF c
  <2> QED
    BY <1>4, <1>5, <2>1
<1>6. ASSUME Raise(r) PROVE HistorySafe'
  <2> DEFINE c == [Idle EXCEPT !.pc = "gone", !.job = runner[r].job, !.kind = "raised"]
  <2>1. runner' = [runner EXCEPT ![r] = c] /\ c.pc = "gone"
    BY <1>6 DEF Raise, Idle
  <2> HIDE DEF c
  <2> QED
    BY <1>4, <2>1 DEF BusyPlaces, Early
<1>7. ASSUME Spawn(r) \/ Exits(r) PROVE HistorySafe'
  <2>1. Busy(r)
    BY <1>7 DEF Spawn, Exits, Busy, BusyPlaces
  <2>2. ASSUME NEW kind, runner' = [runner EXCEPT ![r].pc = "record", ![r].kind = kind]
        PROVE  HistorySafe'
    <3> DEFINE c == [runner[r] EXCEPT !.pc = "record", !.kind = kind]
    <3>1. runner' = [runner EXCEPT ![r] = c] /\ c.job = runner[r].job /\ c.no = runner[r].no
      BY <1>1, <2>2 DEF RunnerRecords
    <3> HIDE DEF c
    <3> QED
      BY <1>4, <2>1, <3>1
  <2> QED
    BY <1>5, <1>7, <2>1, <2>2 DEF Spawn, Exits
<1>8. ASSUME TimesOut(r) \/ LosesJob(r) PROVE HistorySafe'
  <2>1. Busy(r)
    BY <1>8 DEF TimesOut, LosesJob, Busy, BusyPlaces
  <2>2. PICK kind, group : runner' = [runner EXCEPT ![r].pc = "grace", ![r].kind = kind,
                                                    ![r].group = group]
    BY <1>8 DEF TimesOut, LosesJob, Terminate
  <2> DEFINE c == [runner[r] EXCEPT !.pc = "grace", !.kind = kind, !.group = group]
  <2>3. runner' = [runner EXCEPT ![r] = c] /\ c.job = runner[r].job /\ c.no = runner[r].no
    BY <1>1, <2>2 DEF RunnerRecords
  <2> HIDE DEF c
  <2> QED
    BY <1>4, <2>1, <2>3
<1>9. ASSUME Grace(r) PROVE HistorySafe'
  <2>1. Busy(r)
    BY <1>9 DEF Grace, Busy, BusyPlaces
  <2>2. PICK live : runner' = [runner EXCEPT ![r].pc = "record", ![r].group.live = live]
    BY <1>1, <1>9 DEF Grace
  <2> DEFINE c == [runner[r] EXCEPT !.pc = "record", !.group.live = live]
  <2>3. runner' = [runner EXCEPT ![r] = c] /\ c.job = runner[r].job /\ c.no = runner[r].no
    BY <1>1, <2>2 DEF RunnerRecords
  <2> HIDE DEF c
  <2> QED
    BY <1>4, <2>1, <2>3
<1>10. ASSUME Die(r) PROVE HistorySafe'
  <2> DEFINE c == [Idle EXCEPT !.pc = "gone"]
  <2>1. runner' = [runner EXCEPT ![r] = c] /\ c.pc = "gone"
    BY <1>10 DEF Die, Idle
  <2> HIDE DEF c
  <2> QED
    BY <1>4, <2>1 DEF BusyPlaces, Early
<1>11. ASSUME Reread(r) \/ MakeJobDir(r) \/ MakeAttemptDir(r) \/ OpenFiles(r)
       PROVE  HistorySafe'
  <2>1. Busy(r)
    BY <1>11 DEF Reread, MakeJobDir, MakeAttemptDir, OpenFiles, Busy, BusyPlaces, Early
  <2>2. Raise(r) \/ \E pc : Set(r, pc)
    BY <1>11 DEF Reread, MakeJobDir, MakeAttemptDir, OpenFiles
  <2> QED
    BY <1>5, <1>6, <2>1, <2>2
<1> QED
  BY <1>7, <1>8, <1>9, <1>10, <1>11 DEF RunnerStep

\* A prune before it deletes.
LEMMA PruneHistory ==
    ASSUME OutputSafe, HistorySafe, PruneStep, ~DeleteRows
    PROVE  HistorySafe'
<1>1. UNCHANGED <<jobs, attempts, runner>>
  BY DEF PruneStep, MatchJobs, SelectPaths, Unlink, Rmdir, RmJobDir, PruneStops, storeVars
<1>2. files \cup taken \subseteq files' \cup taken' /\ struck' \subseteq taken'
  <2>1. CASE Unlink
    BY <2>1 DEF Unlink, HistorySafe
  <2>2. CASE ~Unlink
    <3>1. UNCHANGED <<files, taken, struck>>
      BY <2>2 DEF PruneStep, MatchJobs, SelectPaths, Rmdir, RmJobDir, PruneStops,
         fileVars, historyVars
    <3> QED
      BY <3>1 DEF HistorySafe
  <2> QED
    BY <2>1, <2>2
<1>3. \A r \in Runners : Busy(r)' <=> Busy(r)
  BY <1>1 DEF Busy
<1> QED
  BY <1>1, <1>2, <1>3, QuietHistory

\* One step of anybody.
LEMMA HistoryStep ==
    ASSUME OutputSafe, HistorySafe, [ReadersNext]_readerVars
    PROVE  HistorySafe'
<1>1. CASE OutputNext
  <2>1. ASSUME NEW r \in Runners, RunnerStep(r) \/ Die(r) \/ Reap(r) PROVE HistorySafe'
    BY <2>1, ClaimHistory, RecordHistory, CycleHistory, ReapHistory
  <2>2. PruneStep => HistorySafe'
    BY DeleteHistory, PruneHistory
  <2> QED
    BY <1>1, <2>1, <2>2, OthersHistory DEF OutputNext
<1>2. CASE Starts \/ ReaderStep \/ WaitTimesOut \/ UNCHANGED readerVars
  <2>1. UNCHANGED <<jobs, attempts, runner, files, taken, struck>>
    BY <1>2 DEF Starts, ReaderStep, WaitTimesOut, ReadJob, ReadAttempts, ReadEvents,
       ReadStreams, Poll, ReadCounts, ReadDead, Quiet, readerVars, outputVars, storeVars,
       fileVars, historyVars
  <2>2. \A r \in Runners : Busy(r)' <=> Busy(r)
    BY <2>1 DEF Busy
  <2> QED
    BY <2>1, <2>2, QuietHistory DEF HistorySafe
<1> QED
  BY <1>1, <1>2 DEF ReadersNext

\* Attempts tell the truth about their job for every number of workers and
\* jobs: one open attempt while it runs, a success last when it is done, a
\* reason with every other one, and output for every one that was run to
\* its end (claim_next, record_success, record_failure, reap, unlink).
THEOREM AttemptsAreTold == ReadersSpec => []HistorySafe
<1>1. ReadersInit => HistorySafe
  <2> SUFFICES ASSUME ReadersInit PROVE HistorySafe
    OBVIOUS
  <2>1. JobIds = {} /\ struck = {}
    BY DEF ReadersInit, OutputInit, StoreInit, JobIds
  <2>2. OwnersAreLast
    BY <2>1 DEF OwnersAreLast, Owns
  <2> QED
    BY <2>1, <2>2 DEF HistorySafe, AttemptsTell
<1> QED
  BY <1>1, OutputIsSafe, HistoryStep, PTL DEF ReadersSpec

-----------------------------------------------------------------------------
(* What a report knows                                                     *)

HasFailed(tries) == \E n \in DOMAIN tries : Closed(tries[n])

\* Rows whose report has to give a reason.
OwesReason(row) == row.state = "dead" \/ (row.state = "queued" /\ row.attempts > 0)

Claimed(events) == {i \in DOMAIN events : events[i] = "claimed"}

\* A manual retry after the first n events.
RetriedAfter(events, n) == \E i \in DOMAIN events : i > n /\ events[i] = "retried"

\* The SELECT of the job is behind the report, and the SELECT of its attempts.
RowRead ==
    \/ reader.op \in {"feedback", "show"} /\ reader.pc \in {"attempts", "events", "streams"}
    \/ Told("feedback") \/ Told("show")

RowsRead ==
    reader.pc \in {"events", "streams"} \/ Told("feedback") \/ Told("show") \/ Told("output")

\* The row it has read, against the job as it is now.
RowFits(row, tries, events) ==
    /\ reader.seen \in DOMAIN events
    /\ reader.row.state = StateAfter(events[reader.seen])
    /\ reader.row.state = "done" => row.state = "done"
    /\ reader.row.state \in {"dead", "canceled"} =>
         row.state = reader.row.state \/ RetriedAfter(events, reader.seen)
    /\ OwesReason(reader.row) => HasFailed(tries)

\* The attempts it has read, against its row and the log as it is now.
RowsFit(events) ==
    LET retried == RetriedAfter(events, reader.seen)
    IN  /\ reader.row.state = "done" => reader.rows # <<>> /\ LatestRow.state = "succeeded"
        /\ reader.row.state \in {"dead", "canceled"} =>
             reader.rows = <<>> \/ LatestRow.state # "running" \/ retried
        /\ reader.row.state = "dead" => (reader.rows # <<>> /\ Closed(LatestRow)) \/ retried
        /\ OwesReason(reader.row) => HasFailed(reader.rows)
        /\ Len(reader.rows) <= Cardinality(Claimed(events))

\* The attempts it has read, against the disk.
RowsKept ==
    /\ reader.rows \in Seq(AttemptRow)
    /\ \A n \in DOMAIN reader.rows :
         Closed(reader.rows[n]) => reader.rows[n].failure_reason # NULL
    /\ Captured(reader.job, reader.rows)
    /\ reader.op # "show" => reader.rows # <<>>

\* The counts status has read, against the log of a job.
CountsFit(events) ==
    /\ reader.seen <= Len(events)
    /\ reader.row["dead"] > 0 \/ reader.seen = 0 \/ events[reader.seen] # "dead"

\* Who gets where.
OpsAt ==
    [idle |-> {NULL}, job |-> {"wait", "feedback", "show", "output"},
     attempts |-> {"feedback", "show", "output"}, events |-> {"show"},
     streams |-> {"feedback", "output"}, poll |-> {"wait"},
     counts |-> {"status"}, dead |-> {"status"},
     ended |-> {NULL, "wait", "feedback", "show", "output", "status"}]

\* The inductive invariant of a report.
ReportInv ==
    /\ DOMAIN reader = DOMAIN NoReport
    /\ ReadersTypeOK
    /\ reader.op \in OpsAt[reader.pc]
    /\ reader.job \in Nat /\ reader.seen \in Nat
    /\ RowRead => /\ reader.job <= lastId
                  /\ Here => RowFits(jobs[reader.job], attempts[reader.job], log[reader.job])
    /\ RowsRead => RowsKept
    /\ RowRead /\ RowsRead /\ Here => RowsFit(log[reader.job])
    /\ Told("wait") => /\ reader.job <= lastId
                       /\ Here /\ reader.row.state = "done" => jobs[reader.job].state = "done"
    /\ reader.pc = "dead" => /\ reader.seen = 0 \/ reader.job <= lastId
                             /\ Here => CountsFit(log[reader.job])
    /\ Told("status") /\ reader.job \in reader.events => reader.job <= lastId
    /\ ShowCovers /\ MissingMeansPruned /\ StatusFits

-----------------------------------------------------------------------------
(* What the others do to what a report knows                               *)

\* Whatever is committed, the queue is kept.
LEMMA QueueStep ==
    ASSUME OutputSafe, [ReadersNext]_readerVars
    PROVE  \E w : QueueKept(w)
<1>1. StoreInv
  BY DEF OutputSafe
<1>2. CASE UNCHANGED storeVars
  BY <1>1, <1>2, NothingCommitted
<1>3. ASSUME NEW r \in Runners, Claim(r) PROVE QueueKept(r)
  BY <1>1, <1>3, ClaimKept, RunnersAssumption DEF Claim
<1>4. ASSUME NEW r \in Runners, Record(r), ~UNCHANGED storeVars PROVE QueueKept(r)
  <2>1. PICK j, no, kind : \/ record_success(j, no, r, r, clock)
                           \/ record_failure(j, no, r, r, kind, clock)
    BY <1>4 DEF Record
  <2>2. j \in JobIds
    BY <2>1 DEF record_success, record_failure, Owns
  <2> QED
    BY <1>1, <2>1, <2>2, RecordKept
<1>5. ASSUME NEW r \in Runners, Reap(r) PROVE QueueKept(r)
  <2>1. PICK j \in JobIds : reap(j, r, clock - REAP_THRESHOLD, clock)
    BY <1>5 DEF Reap
  <2> QED
    BY <1>1, <2>1, ReapKept
<1>6. ASSUME DeleteRows, ~UNCHANGED storeVars PROVE QueueKept(NULL)
  <2>1. PICK ids, cutoff : prune_delete(ids, PrunableStates, cutoff)
    BY <1>6 DEF DeleteRows
  <2> QED
    BY <1>1, <2>1, PruneKept
<1>7. ASSUME Others PROVE QueueKept(NULL)
  <2>1. CASE Tick
    <3>1. /\ JobIds' = JobIds /\ UNCHANGED <<lastId, jobs, attempts, log>>
          /\ lastId \in Nat /\ clock \in Nat /\ clock' = clock + 1
      BY <1>1, <2>1 DEF Tick, JobIds, StoreInv, TypeOK
    <3>2. \A j, r : Owns(j, r, r)' <=> Owns(j, r, r)
      BY <3>1 DEF Owns
    <3> QED
      BY <3>1, <3>2 DEF QueueKept
  <2> QED
    BY <1>1, <1>7, <2>1, AddKept, CancelKept, RetryKept, RunnersAssumption DEF Others
<1>8. ASSUME NEW r \in Runners,
             \/ RunnerStep(r) /\ ~Claim(r) /\ ~Record(r)
             \/ Die(r)
      PROVE  UNCHANGED storeVars
  BY <1>8 DEF RunnerStep, Reread, MakeJobDir, MakeAttemptDir, OpenFiles, Spawn, Exits,
     TimesOut, LosesJob, Grace, Die
<1>9. PruneStep /\ ~DeleteRows => UNCHANGED storeVars
  BY DEF PruneStep, MatchJobs, SelectPaths, Unlink, Rmdir, RmJobDir, PruneStops
<1>10. Starts \/ ReaderStep \/ WaitTimesOut \/ UNCHANGED readerVars => UNCHANGED storeVars
  BY DEF Starts, ReaderStep, WaitTimesOut, ReadJob, ReadAttempts, ReadEvents, ReadStreams,
     Poll, ReadCounts, ReadDead, Quiet, readerVars
<1> QED
  BY <1>2, <1>3, <1>4, <1>5, <1>6, <1>7, <1>8, <1>9, <1>10 DEF ReadersNext, OutputNext

\* What a prune removes it notes.
LEMMA DiskGrows ==
    ASSUME OutputNext
    PROVE  files \cup taken \subseteq files' \cup taken' /\ taken \subseteq taken'
<1>1. ASSUME NEW r \in Runners, RunnerStep(r) \/ Die(r) \/ Reap(r)
      PROVE  files \subseteq files' /\ UNCHANGED taken
  BY <1>1 DEF RunnerStep, Claim, Reread, MakeJobDir, MakeAttemptDir, OpenFiles, Spawn, Exits,
     TimesOut, LosesJob, Grace, Record, Die, Reap, outputVars, fileVars, historyVars
<1>2. Others => UNCHANGED <<files, taken>>
  BY DEF Others, outputVars, fileVars, historyVars
<1>3. CASE Unlink
  BY <1>3 DEF Unlink
<1>4. PruneStep /\ ~Unlink => UNCHANGED <<files, taken>>
  BY DEF PruneStep, MatchJobs, SelectPaths, Rmdir, RmJobDir, DeleteRows, PruneStops,
     fileVars, historyVars
<1> QED
  BY <1>1, <1>2, <1>3, <1>4 DEF OutputNext

\* A longer log has at least as many claims.
LEMMA ClaimsGrow ==
    ASSUME NEW old \in Seq(JobEventTypes), NEW new \in Seq(JobEventTypes),
           DOMAIN old \subseteq DOMAIN new, \A i \in DOMAIN old : new[i] = old[i]
    PROVE  /\ Len(old) \in Nat /\ Len(new) \in Nat /\ Len(old) <= Len(new)
           /\ Cardinality(Claimed(old)) \in Nat /\ Cardinality(Claimed(new)) \in Nat
           /\ Cardinality(Claimed(old)) <= Cardinality(Claimed(new))
<1>1. PICK m \in Nat, n \in Nat : /\ m = Len(old) /\ n = Len(new)
                                  /\ DOMAIN old = 1..m /\ DOMAIN new = 1..n
  OBVIOUS
<1>2. m <= n
  <2>1. m # 0 => m \in 1..m
    BY <1>1
  <2>2. m # 0 => m \in 1..n
    BY <1>1, <2>1
  <2> QED
    BY <1>1, <2>2
<1>3. IsFiniteSet(1..n) /\ Claimed(new) \subseteq 1..n
  BY <1>1, FS_Interval DEF Claimed
<1>4. IsFiniteSet(Claimed(new))
  BY <1>3, FS_Subset
<1>5. Claimed(old) \subseteq Claimed(new)
  BY DEF Claimed
<1>6. IsFiniteSet(Claimed(old)) /\ Cardinality(Claimed(old)) <= Cardinality(Claimed(new))
  BY <1>4, <1>5, FS_Subset
<1> QED
  BY <1>1, <1>2, <1>4, <1>6, FS_CardinalityType

\* What a step leaves of a job that a report has read.
GoesOn(j) ==
    /\ j \in JobIds
    /\ log[j] \in Seq(JobEventTypes) /\ log'[j] \in Seq(JobEventTypes)
    /\ DOMAIN log[j] \subseteq DOMAIN log'[j]
    /\ \A i \in DOMAIN log[j] : log'[j][i] = log[j][i]
    /\ jobs[j].state = "done" => jobs'[j].state = "done"
    /\ jobs[j].state \in {"dead", "canceled"} =>
         jobs'[j].state = jobs[j].state \/ RetriedAfter(log'[j], Len(log[j]))
    /\ HasFailed(attempts[j]) => HasFailed(attempts'[j])

\* Until it is pruned: its log only grows, done stays done, dead and canceled
\* end by a retry only, and a failed attempt is never forgotten.
LEMMA JobGoesOn ==
    ASSUME StoreInv, StoreInv', NEW w, QueueKept(w),
           [KeepsDone]_storeVars, [KeepsClosedAttempts]_storeVars,
           NEW j \in Nat, j <= lastId, j \in JobIds'
    PROVE  GoesOn(j)
<1>1. j \in JobIds
  BY DEF QueueKept, StoreInv, TypeOK
<1>2. /\ log[j] \in Seq(JobEventTypes) /\ log'[j] \in Seq(JobEventTypes)
      /\ DOMAIN log[j] \subseteq DOMAIN log'[j]
      /\ \A i \in DOMAIN log[j] : log'[j][i] = log[j][i]
  BY <1>1 DEF QueueKept, StoreInv, TypeOK
<1>3. jobs[j].state = "done" => jobs'[j].state = "done"
  <2>1. CASE KeepsDone
    BY <1>1, <2>1 DEF KeepsDone, JobIds
  <2>2. CASE UNCHANGED storeVars
    BY <2>2 DEF storeVars
  <2> QED
    BY <2>1, <2>2
<1>4. ASSUME jobs[j].state \in {"dead", "canceled"}
      PROVE  jobs'[j].state = jobs[j].state \/ RetriedAfter(log'[j], Len(log[j]))
  <2>1. jobs'[j] = jobs[j] \/ Adds(j, {"retried"})
    BY <1>1, <1>4 DEF QueueKept, ActiveStates
  <2> QED
    BY <2>1 DEF Adds, RetriedAfter
<1>5. ASSUME HasFailed(attempts[j]) PROVE HasFailed(attempts'[j])
  <2>1. PICK n \in DOMAIN attempts[j] : Closed(attempts[j][n])
    BY <1>5 DEF HasFailed
  <2>2. CASE KeepsClosedAttempts
    <3>1. n \in DOMAIN attempts'[j] /\ attempts'[j][n] = attempts[j][n]
      BY <1>1, <2>1, <2>2 DEF KeepsClosedAttempts, Closed, JobIds
    <3> QED
      BY <2>1, <3>1 DEF HasFailed
  <2>3. CASE UNCHANGED storeVars
    BY <1>5, <2>3 DEF storeVars
  <2> QED
    BY <2>2, <2>3
<1> QED
  BY <1>1, <1>2, <1>3, <1>4, <1>5 DEF GoesOn

\* A retry after the report's row stays in the log, and a later one counts.
LEMMA RetryStays ==
    ASSUME NEW j, GoesOn(j), NEW n \in Nat, n <= Len(log[j])
    PROVE  /\ RetriedAfter(log[j], n) => RetriedAfter(log'[j], n)
           /\ RetriedAfter(log'[j], Len(log[j])) => RetriedAfter(log'[j], n)
<1>1. log[j] \in Seq(JobEventTypes) /\ log'[j] \in Seq(JobEventTypes) /\ Len(log[j]) \in Nat
      /\ DOMAIN log'[j] \subseteq Nat
  BY DEF GoesOn
<1>2. RetriedAfter(log[j], n) => RetriedAfter(log'[j], n)
  BY DEF GoesOn, RetriedAfter
<1>3. RetriedAfter(log'[j], Len(log[j])) => RetriedAfter(log'[j], n)
  BY <1>1 DEF RetriedAfter
<1> QED
  BY <1>2, <1>3

\* What a report knows survives what the others do.
LEMMA ReportStays ==
    ASSUME OutputSafe, OutputSafe', ReportInv, UNCHANGED reader, NEW w, QueueKept(w),
           [KeepsDone]_storeVars, [KeepsClosedAttempts]_storeVars,
           files \cup taken \subseteq files' \cup taken', taken \subseteq taken'
    PROVE  ReportInv'
<1>1. StoreInv /\ StoreInv'
  BY DEF OutputSafe
<1>2. lastId \in Nat /\ lastId' \in Nat /\ lastId <= lastId'
  BY <1>1 DEF StoreInv, TypeOK, QueueKept
<1>3. PICK j \in Nat, n \in Nat : j = reader.job /\ n = reader.seen
  BY DEF ReportInv
<1>4. ASSUME j <= lastId, j \in JobIds' PROVE GoesOn(j)
  BY <1>1, <1>4, JobGoesOn
<1>5. Here = (j \in JobIds) /\ Here' = (j \in JobIds')
  BY <1>3 DEF Here
<1>6. ASSUME GoesOn(j), RowFits(jobs[j], attempts[j], log[j])
      PROVE  RowFits(jobs[j], attempts[j], log[j])'
  <2>1. n \in DOMAIN log[j] /\ n <= Len(log[j]) /\ n \in DOMAIN log'[j] /\ log'[j][n] = log[j][n]
    BY <1>3, <1>6 DEF RowFits, GoesOn
  <2>2. /\ RetriedAfter(log[j], n) => RetriedAfter(log'[j], n)
        /\ RetriedAfter(log'[j], Len(log[j])) => RetriedAfter(log'[j], n)
    BY <1>6, <2>1, RetryStays
  <2>3. reader.row.state \in {"dead", "canceled"} =>
          jobs'[j].state = reader.row.state \/ RetriedAfter(log'[j], n)
    BY <1>3, <1>6, <2>2 DEF RowFits, GoesOn
  <2>4. reader.row.state = "done" => jobs'[j].state = "done"
    BY <1>6 DEF RowFits, GoesOn
  <2>5. OwesReason(reader.row) => HasFailed(attempts'[j])
    BY <1>6 DEF RowFits, GoesOn
  <2>6. reader.row.state = StateAfter(log'[j][n])
    BY <1>3, <1>6, <2>1 DEF RowFits
  <2> QED
    BY <1>3, <2>1, <2>3, <2>4, <2>5, <2>6 DEF RowFits
<1>7. ASSUME GoesOn(j), n <= Len(log[j]), RowsFit(log[j]), reader.rows \in Seq(AttemptRow)
      PROVE  RowsFit(log[j])'
  <2>1. RetriedAfter(log[j], n) => RetriedAfter(log'[j], n)
    BY <1>7, RetryStays
  <2>2. /\ Cardinality(Claimed(log[j])) \in Nat /\ Cardinality(Claimed(log'[j])) \in Nat
        /\ Cardinality(Claimed(log[j])) <= Cardinality(Claimed(log'[j]))
    BY <1>7, ClaimsGrow DEF GoesOn
  <2>3. Len(reader.rows) \in Nat /\ Len(reader.rows) <= Cardinality(Claimed(log[j]))
    BY <1>7 DEF RowsFit
  <2>4. Len(reader.rows) <= Cardinality(Claimed(log'[j]))
    BY <2>2, <2>3
  <2>5. LatestRow' = LatestRow
    BY DEF LatestRow
  <2> QED
    BY <1>3, <1>7, <2>1, <2>4, <2>5 DEF RowsFit
<1>8. ASSUME GoesOn(j), CountsFit(log[j])
      PROVE  CountsFit(log[j])'
  <2>1. Len(log[j]) \in Nat /\ Len(log'[j]) \in Nat /\ Len(log[j]) <= Len(log'[j])
    BY <1>8, ClaimsGrow DEF GoesOn
  <2>2. n <= Len(log'[j])
    BY <1>3, <1>8, <2>1 DEF CountsFit
  <2>3. n # 0 => n \in DOMAIN log[j]
    BY <1>3, <1>8, <2>1 DEF CountsFit, GoesOn
  <2>4. n # 0 => log'[j][n] = log[j][n]
    BY <1>8, <2>3 DEF GoesOn
  <2> QED
    BY <1>3, <1>8, <2>2, <2>4 DEF CountsFit
<1>9. \A op : Told(op)' <=> Told(op)
  BY DEF Told
<1>10. /\ RowRead' <=> RowRead
       /\ RowsRead' <=> RowsRead
  BY <1>9 DEF RowRead, RowsRead
<1>11. ASSUME RowRead
       PROVE  /\ j <= lastId /\ j <= lastId'
              /\ Here' => /\ GoesOn(j)
                          /\ RowFits(jobs[j], attempts[j], log[j])
                          /\ RowFits(jobs[j], attempts[j], log[j])'
  <2>1. j <= lastId /\ (Here => RowFits(jobs[j], attempts[j], log[j]))
    BY <1>3, <1>11 DEF ReportInv
  <2>2. j <= lastId'
    BY <1>2, <2>1
  <2>3. Here' => GoesOn(j) /\ Here
    BY <1>4, <1>5, <2>1 DEF GoesOn
  <2> QED
    BY <1>6, <2>1, <2>2, <2>3
<1>12. RowsRead => RowsKept /\ RowsKept'
  BY <1>3 DEF ReportInv, RowsKept, Captured
<1>13. ASSUME RowRead, RowsRead, Here' PROVE RowsFit(log[j])'
  <2>1. GoesOn(j) /\ RowFits(jobs[j], attempts[j], log[j]) /\ Here
    BY <1>5, <1>11, <1>13 DEF GoesOn
  <2>2. RowsFit(log[j]) /\ reader.rows \in Seq(AttemptRow)
    BY <1>3, <1>12, <1>13, <2>1 DEF ReportInv, RowsKept
  <2>3. n <= Len(log[j])
    BY <1>3, <2>1 DEF RowFits, GoesOn
  <2> QED
    BY <1>7, <2>1, <2>2, <2>3
<1>14. ASSUME Told("wait")
       PROVE  /\ j <= lastId'
              /\ Here' /\ reader.row.state = "done" => jobs'[j].state = "done"
  <2>1. j <= lastId /\ (Here /\ reader.row.state = "done" => jobs[j].state = "done")
    BY <1>3, <1>14 DEF ReportInv
  <2>2. Here' => GoesOn(j) /\ Here
    BY <1>4, <1>5, <2>1 DEF GoesOn
  <2> QED
    BY <1>2, <2>1, <2>2 DEF GoesOn
<1>15. ASSUME reader.pc = "dead"
       PROVE  /\ n = 0 \/ j <= lastId'
              /\ Here' => CountsFit(log[j])'
  <2>1. n = 0 \/ j <= lastId
    BY <1>3, <1>15 DEF ReportInv
  <2>2. CASE j <= lastId
    <3>1. Here' => GoesOn(j) /\ Here
      BY <1>4, <1>5, <2>2 DEF GoesOn
    <3>2. Here => CountsFit(log[j])
      BY <1>3, <1>15 DEF ReportInv
    <3> QED
      BY <1>2, <1>8, <2>2, <3>1, <3>2
  <2>3. CASE n = 0
    <3>1. Here' => Len(log'[j]) \in Nat
      BY <1>1, <1>5 DEF StoreInv, TypeOK
    <3> QED
      BY <1>3, <2>3, <3>1 DEF CountsFit
  <2> QED
    BY <2>1, <2>2, <2>3
<1>16. ASSUME Told("status"), j \in reader.events
       PROVE  j <= lastId' /\ (Here' => reader.row["dead"] > 0 \/ Since("dead")')
  <2>1. j <= lastId
    BY <1>3, <1>16 DEF ReportInv
  <2>2. Here' => GoesOn(j) /\ Here
    BY <1>4, <1>5, <2>1 DEF GoesOn
  <2>3. Here => reader.row["dead"] > 0 \/ Since("dead")
    BY <1>3, <1>16 DEF ReportInv, StatusFits
  <2>4. GoesOn(j) /\ Since("dead") => Since("dead")'
    BY <1>3 DEF GoesOn, Since
  <2> QED
    BY <1>2, <2>1, <2>2, <2>3, <2>4
<1>17. StatusFits'
  BY <1>3, <1>9, <1>16 DEF StatusFits
<1>18. ShowCovers'
  BY <1>9 DEF ReportInv, ShowCovers
<1>19. MissingMeansPruned'
  BY <1>9 DEF ReportInv, MissingMeansPruned
<1>20. /\ DOMAIN reader' = DOMAIN NoReport' /\ ReadersTypeOK'
       /\ reader'.op \in OpsAt'[reader'.pc]
       /\ reader'.job \in Nat /\ reader'.seen \in Nat
  BY DEF ReportInv, NoReport, ReadersTypeOK, OpsAt
<1>21. (RowRead => /\ reader.job <= lastId
                   /\ Here => RowFits(jobs[reader.job], attempts[reader.job],
                                      log[reader.job]))'
  BY <1>3, <1>10, <1>11
<1>22. (RowRead /\ RowsRead /\ Here => RowsFit(log[reader.job]))'
  BY <1>3, <1>10, <1>13
<1>23. (Told("wait") => /\ reader.job <= lastId
                        /\ Here /\ reader.row.state = "done" =>
                             jobs[reader.job].state = "done")'
  BY <1>3, <1>9, <1>14
<1>24. (reader.pc = "dead" => /\ reader.seen = 0 \/ reader.job <= lastId
                              /\ Here => CountsFit(log[reader.job]))'
  BY <1>3, <1>15
<1>25. (Told("status") /\ reader.job \in reader.events => reader.job <= lastId)'
  BY <1>3, <1>9, <1>16
<1>26. (RowsRead => RowsKept)'
  BY <1>10, <1>12
<1> QED
  BY <1>17, <1>18, <1>19, <1>20, <1>21, <1>22, <1>23, <1>24, <1>25, <1>26 DEF ReportInv

-----------------------------------------------------------------------------
(* The steps of a report                                                   *)

\* A set of attempt numbers has a highest one.
LEMMA HighestIsIn ==
    ASSUME NEW n \in Nat, NEW T, T \subseteq 1..n, T # {}
    PROVE  Max(T) \in T /\ \A y \in T : y <= Max(T)
<1> DEFINE D == {n - x : x \in T}
<1>1. D \subseteq Nat /\ D # {}
  <2>1. \A x \in T : n - x \in Nat
    OBVIOUS
  <2>2. D # {}
    OBVIOUS
  <2> QED
    BY <2>1, <2>2
<1>2. PICK d \in D : \A e \in D : d <= e
  BY <1>1, LeastExists
<1>3. PICK x \in T : d = n - x
  BY <1>2
<1>4. \A y \in T : y <= x
  <2> SUFFICES ASSUME NEW y \in T PROVE y <= x
    OBVIOUS
  <2>1. n - y \in D
    OBVIOUS
  <2>2. n - x <= n - y
    BY <1>2, <1>3, <2>1
  <2> QED
    BY <2>2
<1> QED
  BY <1>3, <1>4 DEF Max

\* latest_failure_reason finds a reason wherever an attempt has failed, and
\* it is the last attempt's if that one did.
LEMMA LatestReason ==
    ASSUME NEW rows \in Seq(AttemptRow), HasFailed(rows),
           \A n \in DOMAIN rows : Closed(rows[n]) => rows[n].failure_reason # NULL
    PROVE  /\ latest_failure_reason(rows) # NULL
           /\ Closed(rows[Len(rows)]) =>
                latest_failure_reason(rows) = rows[Len(rows)].failure_reason
<1> DEFINE failed == {n \in DOMAIN rows : /\ rows[n].state # "succeeded"
                                          /\ rows[n].failure_reason # NULL}
<1>1. PICK m \in Nat : m = Len(rows) /\ DOMAIN rows = 1..m
  OBVIOUS
<1>2. PICK n \in DOMAIN rows : Closed(rows[n])
  BY DEF HasFailed
<1>3. \A i \in DOMAIN rows : Closed(rows[i]) => i \in failed
  BY DEF Closed
<1>4. failed \subseteq 1..m /\ failed # {}
  BY <1>1, <1>2, <1>3
<1>5. Max(failed) \in failed /\ \A y \in failed : y <= Max(failed)
  BY <1>4, HighestIsIn
<1>6. latest_failure_reason(rows) = rows[Max(failed)].failure_reason
  BY <1>4 DEF latest_failure_reason
<1>7. latest_failure_reason(rows) # NULL
  BY <1>5, <1>6
<1>8. m \in DOMAIN rows
  BY <1>1, <1>2
<1>9. ASSUME Closed(rows[m]) PROVE Max(failed) = m
  <2>1. m \in failed
    BY <1>3, <1>8, <1>9
  <2>2. m <= Max(failed) /\ Max(failed) \in 1..m
    BY <1>4, <1>5, <2>1
  <2> QED
    BY <2>2
<1> QED
  BY <1>1, <1>6, <1>7, <1>9

\* An answer that is an error, and a report that has not read anything yet.
LEMMA NothingSaid ==
    ASSUME reader'.pc \in {"idle", "job", "poll", "counts", "ended"},
           reader'.pc = "ended" => reader'.answer # "ok",
           DOMAIN reader' = DOMAIN NoReport, ReadersTypeOK',
           reader'.op \in OpsAt[reader'.pc],
           reader'.job \in Nat, reader'.seen \in Nat
    PROVE  ReportInv'
<1>1. \A op : ~Told(op)'
  BY DEF Told
<1>2. ~RowRead' /\ ~RowsRead'
  BY <1>1 DEF RowRead, RowsRead
<1>3. (ShowCovers /\ MissingMeansPruned /\ StatusFits)'
  BY <1>1 DEF ShowCovers, MissingMeansPruned, StatusFits
<1>4. NoReport' = NoReport /\ OpsAt' = OpsAt
  BY DEF NoReport, OpsAt
<1> QED
  BY <1>1, <1>2, <1>3, <1>4 DEF ReportInv

\* The answers that report nothing of a job.
Errors == {"NOT_FOUND", "NO_ATTEMPTS_YET", "INTERNAL", "TIMEOUT"}

\* A report that ends with one of them has nothing left to keep.
LEMMA AnswerFits ==
    ASSUME NEW answer \in Errors, Answer(answer)
    PROVE  ReportInv'
<1>1. /\ reader'.pc = "ended" /\ reader'.answer = answer /\ reader'.op = NULL
      /\ reader'.job = 0 /\ reader'.seen = 0
      /\ DOMAIN reader' = DOMAIN NoReport
  BY DEF Answer, NoReport
<1>2. ReadersTypeOK' /\ answer # "ok"
  BY <1>1 DEF ReadersTypeOK, Errors
<1>3. reader'.op \in OpsAt[reader'.pc]
  BY <1>1 DEF OpsAt
<1> QED
  BY <1>1, <1>2, <1>3, NothingSaid

\* A report begins.
LEMMA StartsFits ==
    ASSUME Starts PROVE ReportInv'
<1>1. PICK op \in {"wait", "feedback", "show", "output", "status"}, j \in 1..MaxJobs :
        reader' = [NoReport EXCEPT !.op = op, !.pc = IF op = "status" THEN "counts" ELSE "job",
                                   !.job = j]
  BY DEF Starts
<1>2. /\ reader'.pc = IF op = "status" THEN "counts" ELSE "job"
      /\ reader'.op = op /\ reader'.job = j /\ reader'.seen = 0 /\ reader'.answer = NULL
      /\ DOMAIN reader' = DOMAIN NoReport
  BY <1>1 DEF NoReport
<1>3. ReadersTypeOK'
  BY <1>2 DEF ReadersTypeOK
<1>4. reader'.op \in OpsAt[reader'.pc]
  <2>1. CASE op = "status"
    BY <1>2, <2>1 DEF OpsAt
  <2>2. CASE op # "status"
    BY <1>2, <2>2 DEF OpsAt
  <2> QED
    BY <2>1, <2>2
<1>5. reader'.pc \in {"job", "counts"} /\ j \in Nat
  BY <1>2, BoundsAssumption
<1> QED
  BY <1>2, <1>3, <1>4, <1>5, NothingSaid

\* A report only reads.
LEMMA ReadsOnly ==
    ASSUME Quiet
    PROVE  UNCHANGED <<clock, lastId, jobs, attempts, log, files, taken>> /\ JobIds' = JobIds
  BY DEF Quiet, storeVars, fileVars, historyVars, JobIds

\* A settled or tried job has an attempt that failed.
LEMMA ReasonIsThere ==
    ASSUME StoreInv, HistorySafe, NEW j \in JobIds, OwesReason(jobs[j])
    PROVE  HasFailed(attempts[j])
<1>1. PICK m \in Nat : m = Len(attempts[j]) /\ DOMAIN attempts[j] = 1..m
  BY TriesFacts
<1>2. Tells(jobs[j], attempts[j]) /\ jobs[j].state \notin {"running", "done"}
  BY TriesFacts DEF OwesReason
<1>3. m > 0
  BY <1>1, <1>2 DEF Tells, OwesReason
<1>4. m \in DOMAIN attempts[j] /\ Closed(attempts[j][m])
  BY <1>1, <1>2, <1>3 DEF Tells, Closed
<1> QED
  BY <1>4 DEF HasFailed

\* store.get_job
LEMMA ReadJobFits ==
    ASSUME OutputSafe, HistorySafe, ReportInv, ReadJob
    PROVE  ReportInv'
<1>1. StoreInv /\ lastId \in Nat
  BY DEF OutputSafe, StoreInv, TypeOK
<1>2. UNCHANGED <<lastId, jobs, attempts, log>> /\ JobIds' = JobIds
  BY ReadsOnly DEF ReadJob
<1>3. CASE Answer("NOT_FOUND")
  BY <1>3, AnswerFits DEF Errors
<1>4. PICK j, op : j = reader.job /\ op = reader.op
  OBVIOUS
<1>5. ASSUME ~Answer("NOT_FOUND") PROVE ReportInv'
  <2>1. j \in JobIds /\ j \in Nat /\ j <= lastId
    BY <1>1, <1>4, <1>5 DEF ReadJob, Here, StoreInv, TypeOK
  <2>2. op \in {"wait", "feedback", "show", "output"}
    BY <1>4 DEF ReadJob, ReportInv, OpsAt
  <2>3. /\ reader'.pc = IF op = "wait" THEN "poll" ELSE "attempts"
        /\ reader'.row = IF op \in {"wait", "output"} THEN NULL
                         ELSE [state |-> jobs[j].state, attempts |-> jobs[j].attempts]
        /\ reader'.seen = IF op \in {"wait", "output"} THEN 0 ELSE Len(log[j])
        /\ reader'.op = op /\ reader'.job = j /\ reader'.answer = reader.answer
        /\ DOMAIN reader' = DOMAIN NoReport
    BY <1>4, <1>5 DEF ReadJob, ReportInv, NoReport
  <2>4. ReadersTypeOK'
    BY <2>3 DEF ReportInv, ReadersTypeOK
  <2>5. log[j] \in Seq(JobEventTypes) /\ LogAgrees(jobs[j], log[j])
    BY <1>1, <2>1 DEF StoreInv, TypeOK, LogInv
  <2>6. Len(log[j]) \in Nat /\ Len(log[j]) \in DOMAIN log[j]
    BY <2>5 DEF LogAgrees
  <2>7. reader'.seen \in Nat
    BY <2>3, <2>6
  <2>8. CASE op = "wait"
    <3>1. reader'.pc = "poll" /\ reader'.op \in OpsAt[reader'.pc]
      BY <2>3, <2>8 DEF OpsAt
    <3> QED
      BY <2>1, <2>3, <2>4, <2>7, <3>1, NothingSaid
  <2>9. CASE op # "wait"
    <3>1. reader'.pc = "attempts" /\ reader'.op \in OpsAt[reader'.pc]
      BY <2>2, <2>3, <2>9 DEF OpsAt
    <3>2. \A o : ~Told(o)'
      BY <3>1 DEF Told
    <3>3. ~RowsRead' /\ (RowRead' <=> op \in {"feedback", "show"})
      BY <2>3, <3>1, <3>2 DEF RowRead, RowsRead
    <3>4. ASSUME op \in {"feedback", "show"}
          PROVE  RowFits(jobs[reader.job], attempts[reader.job], log[reader.job])'
      <4>1. /\ reader'.row.state = jobs[j].state /\ reader'.row.attempts = jobs[j].attempts
            /\ reader'.seen = Len(log[j])
        BY <2>3, <3>4
      <4>2. OwesReason(reader'.row) => HasFailed(attempts[j])
        BY <1>1, <2>1, <4>1, ReasonIsThere DEF OwesReason
      <4>3. reader'.row.state = StateAfter(log[j][Len(log[j])])
        BY <2>5, <4>1 DEF LogAgrees
      <4> QED
        BY <1>2, <2>3, <2>6, <4>1, <4>2, <4>3 DEF RowFits
    <3>5. (ShowCovers /\ MissingMeansPruned /\ StatusFits)'
      BY <3>2 DEF ShowCovers, MissingMeansPruned, StatusFits
    <3>6. NoReport' = NoReport /\ OpsAt' = OpsAt
      BY DEF NoReport, OpsAt
    <3>7. (RowRead => /\ reader.job <= lastId
                      /\ Here => RowFits(jobs[reader.job], attempts[reader.job],
                                         log[reader.job]))'
      BY <1>2, <2>1, <2>3, <3>3, <3>4
    <3> QED
      BY <2>1, <2>3, <2>4, <2>7, <3>1, <3>2, <3>3, <3>5, <3>6, <3>7 DEF ReportInv
  <2> QED
    BY <2>8, <2>9
<1> QED
  BY <1>3, <1>5

\* store.get_attempts
LEMMA ReadAttemptsFits ==
    ASSUME OutputSafe, HistorySafe, CountersMatchLog, ReportInv, ReadAttempts
    PROVE  ReportInv'
<1>1. StoreInv /\ lastId \in Nat
  BY DEF OutputSafe, StoreInv, TypeOK
<1>2. UNCHANGED <<lastId, jobs, attempts, log, files, taken>> /\ JobIds' = JobIds
  BY ReadsOnly DEF ReadAttempts
<1>3. CASE Answer("NO_ATTEMPTS_YET") \/ Answer("NOT_FOUND")
  BY <1>3, AnswerFits DEF Errors
<1>4. PICK j, op : j = reader.job /\ op = reader.op /\ j \in Nat
  BY DEF ReportInv
<1> DEFINE rows == IF j \in JobIds THEN attempts[j] ELSE <<>>
           pc == IF op = "show" THEN "events" ELSE "streams"
<1>5. CASE /\ rows # <<>> \/ op = "show"
           /\ reader' = [reader EXCEPT !.pc = pc, !.rows = rows]
  <2>1. op \in {"feedback", "show", "output"}
    BY <1>4 DEF ReadAttempts, ReportInv, OpsAt
  <2>2. /\ reader'.pc = pc /\ reader'.rows = rows
        /\ reader'.row = reader.row /\ reader'.seen = reader.seen
        /\ reader'.op = op /\ reader'.job = j /\ reader'.answer = reader.answer
        /\ DOMAIN reader' = DOMAIN NoReport
    BY <1>4, <1>5 DEF ReportInv, NoReport
  <2>3. pc \in {"events", "streams"} /\ op \in OpsAt[pc]
    BY <2>1 DEF OpsAt
  <2>4. ReadersTypeOK'
    BY <2>2, <2>3 DEF ReportInv, ReadersTypeOK
  <2>5. \A o : ~Told(o)'
    BY <2>2, <2>3 DEF Told
  <2>6. RowsRead' /\ (RowRead' <=> op \in {"feedback", "show"})
    BY <2>2, <2>3, <2>5 DEF RowRead, RowsRead
  <2>7. RowRead <=> op \in {"feedback", "show"}
    BY <1>4 DEF ReadAttempts, RowRead, Told
  <2>8. RowsKept'
    <3>1. CASE j \in JobIds
      <4>1. /\ attempts[j] \in Seq(AttemptRow)
            /\ Tells(jobs[j], attempts[j]) /\ Captured(j, attempts[j])
        BY <1>1, <3>1, TriesFacts DEF StoreInv, TypeOK
      <4>3. reader'.rows = attempts[j] /\ (op # "show" => attempts[j] # <<>>)
        BY <1>5, <2>2, <3>1
      <4>4. Captured(reader.job, reader.rows)'
        BY <1>2, <2>2, <4>1, <4>3 DEF Captured
      <4> QED
        BY <2>2, <4>1, <4>3, <4>4 DEF RowsKept, Tells
    <3>2. CASE j \notin JobIds
      <4>1. reader'.rows = <<>> /\ op = "show"
        BY <1>5, <2>2, <3>2
      <4>2. <<>> \in Seq(AttemptRow) /\ DOMAIN <<>> = {}
        OBVIOUS
      <4>3. Captured(reader.job, reader.rows)'
        BY <4>1, <4>2 DEF Captured
      <4> QED
        BY <2>2, <4>1, <4>2, <4>3 DEF RowsKept
    <3> QED
      BY <3>1, <3>2
  <2>9. ASSUME RowRead
        PROVE  /\ j <= lastId
               /\ j \in JobIds => RowFits(jobs[j], attempts[j], log[j])
    BY <1>4, <2>9 DEF ReportInv, Here
  <2>10. (RowRead => /\ reader.job <= lastId
                     /\ Here => RowFits(jobs[reader.job], attempts[reader.job],
                                        log[reader.job]))'
    <3>1. RowFits(jobs[j], attempts[j], log[j]) =>
            RowFits(jobs[j], attempts[j], log[j])'
      BY <1>2, <2>2 DEF RowFits
    <3> QED
      BY <1>2, <2>2, <2>6, <2>7, <2>9, <3>1 DEF Here
  <2>11. ASSUME RowRead, j \in JobIds PROVE RowsFit(log[j])'
    <3>1. PICK m \in Nat : m = Len(attempts[j]) /\ DOMAIN attempts[j] = 1..m
      BY <1>1, <2>11, TriesFacts
    <3>2. Tells(jobs[j], attempts[j]) /\ attempts[j] \in Seq(AttemptRow)
      BY <1>1, <2>11, TriesFacts DEF StoreInv, TypeOK
    <3>3. reader'.rows = attempts[j] /\ LatestRow' = attempts[j][m]
      BY <2>2, <2>11, <3>1 DEF LatestRow
    <3>4. RowFits(jobs[j], attempts[j], log[j])
      BY <2>9, <2>11
    <3>5. reader.row.state = "done" => attempts[j] # <<>> /\ attempts[j][m].state = "succeeded"
      <4> SUFFICES ASSUME reader.row.state = "done"
                   PROVE  attempts[j] # <<>> /\ attempts[j][m].state = "succeeded"
        OBVIOUS
      <4>1. jobs[j].state = "done"
        BY <3>4 DEF RowFits
      <4>2. m > 0 /\ m \in DOMAIN attempts[j]
        BY <3>1, <3>2, <4>1 DEF Tells
      <4> QED
        BY <3>1, <3>2, <4>1, <4>2 DEF Tells
    <3>6. ASSUME reader.row.state \in {"dead", "canceled"}
          PROVE  \/ RetriedAfter(log[j], reader.seen)
                 \/ attempts[j] = <<>>
                 \/ attempts[j][m].state \notin {"running", "succeeded"}
      <4>1. jobs[j].state = reader.row.state \/ RetriedAfter(log[j], reader.seen)
        BY <3>4, <3>6 DEF RowFits
      <4>2. attempts[j] # <<>> => m \in DOMAIN attempts[j]
        BY <3>1, <3>2
      <4> QED
        BY <3>2, <3>6, <4>1, <4>2 DEF Tells
    <3>7. reader.row.state = "dead" =>
            attempts[j] # <<>> \/ RetriedAfter(log[j], reader.seen)
      <4>1. reader.row.state = "dead" =>
              jobs[j].state = "dead" \/ RetriedAfter(log[j], reader.seen)
        BY <3>4 DEF RowFits
      <4>2. jobs[j].state = "dead" => m > 0
        BY <3>1, <3>2 DEF Tells
      <4> QED
        BY <3>1, <4>1, <4>2
    <3>8. OwesReason(reader.row) => HasFailed(attempts[j])
      BY <3>4 DEF RowFits
    <3>9. m = Cardinality(Claimed(log[j]))
      BY <2>11, <3>1 DEF CountersMatchLog, Claimed
    <3>10. log'[j] = log[j] /\ reader'.row = reader.row /\ reader'.seen = reader.seen
      BY <1>2, <2>2
    <3>11. reader.row.state = "dead" =>
             (attempts[j] # <<>> /\ Closed(attempts[j][m])) \/ RetriedAfter(log[j], reader.seen)
      BY <3>6, <3>7 DEF Closed
    <3>12. Len(reader'.rows) <= Cardinality(Claimed(log'[j]))
      BY <3>1, <3>3, <3>9, <3>10
    <3> QED
      BY <3>3, <3>5, <3>6, <3>8, <3>10, <3>11, <3>12 DEF RowsFit
  <2>12. (RowRead /\ RowsRead /\ Here => RowsFit(log[reader.job]))'
    BY <1>2, <2>2, <2>6, <2>7, <2>11 DEF Here
  <2>13. (ShowCovers /\ MissingMeansPruned /\ StatusFits)'
    BY <2>5 DEF ShowCovers, MissingMeansPruned, StatusFits
  <2>14. NoReport' = NoReport /\ OpsAt' = OpsAt
    BY DEF NoReport, OpsAt
  <2>15. reader'.seen \in Nat /\ reader'.pc # "dead" /\ reader'.op \in OpsAt[reader'.pc]
    BY <2>2, <2>3 DEF ReportInv
  <2> HIDE DEF pc, rows
  <2> QED
    BY <1>4, <2>2, <2>4, <2>5, <2>8, <2>10, <2>12, <2>13, <2>14, <2>15 DEF ReportInv
<1> QED
  BY <1>3, <1>4, <1>5 DEF ReadAttempts, Here

\* The report goes on with what it has read.
LEMMA StillFits ==
    ASSUME ReportInv, UNCHANGED <<lastId, jobs, attempts, log, files, taken>>,
           reader'.row = reader.row, reader'.seen = reader.seen, reader'.rows = reader.rows,
           reader'.op = reader.op, reader'.job = reader.job
    PROVE  /\ RowRead => (/\ reader.job <= lastId
                          /\ Here => RowFits(jobs[reader.job], attempts[reader.job],
                                             log[reader.job]))'
           /\ RowsRead => RowsKept'
           /\ RowRead /\ RowsRead => (Here => RowsFit(log[reader.job]))'
<1>1. JobIds' = JobIds /\ (Here' <=> Here) /\ LatestRow' = LatestRow
  BY DEF JobIds, Here, LatestRow
<1>2. PICK j : j = reader.job
  OBVIOUS
<1>3. RowFits(jobs[j], attempts[j], log[j]) => RowFits(jobs[j], attempts[j], log[j])'
  BY DEF RowFits
<1>4. RowsKept => RowsKept'
  BY DEF RowsKept, Captured
<1>5. RowsFit(log[j]) => RowsFit(log[j])'
  BY <1>1 DEF RowsFit
<1>6. RowRead => /\ j <= lastId /\ (Here => RowFits(jobs[j], attempts[j], log[j]))
  BY <1>2 DEF ReportInv
<1>7. RowRead /\ RowsRead /\ Here => RowsFit(log[j])
  BY <1>2 DEF ReportInv
<1>8. RowsRead => RowsKept
  BY DEF ReportInv
<1> QED
  BY <1>1, <1>2, <1>3, <1>4, <1>5, <1>6, <1>7, <1>8

\* store.get_events
LEMMA ReadEventsFits ==
    ASSUME OutputSafe, ReportInv, ReadEvents
    PROVE  ReportInv'
<1>1. UNCHANGED <<lastId, jobs, attempts, log, files, taken>> /\ JobIds' = JobIds
  BY ReadsOnly DEF ReadEvents
<1>2. reader.pc = "events" /\ reader.op = "show" /\ RowRead /\ RowsRead
  BY DEF ReadEvents, ReportInv, OpsAt, RowRead, RowsRead
<1>3. /\ reader'.pc = "ended" /\ reader'.answer = "ok"
      /\ reader'.events = IF Here THEN log[reader.job] ELSE <<>>
      /\ reader'.row = reader.row /\ reader'.seen = reader.seen /\ reader'.rows = reader.rows
      /\ reader'.op = reader.op /\ reader'.job = reader.job
      /\ DOMAIN reader' = DOMAIN NoReport
  BY DEF ReadEvents, ReportInv, NoReport
<1>4. /\ (/\ reader.job <= lastId
          /\ Here => RowFits(jobs[reader.job], attempts[reader.job], log[reader.job]))'
      /\ RowsKept'
      /\ (Here => RowsFit(log[reader.job]))'
  BY <1>1, <1>2, <1>3, StillFits
<1>5. \A op : Told(op)' <=> op = "show"
  BY <1>2, <1>3 DEF Told
<1>6. ShowCovers'
  <2> SUFFICES ASSUME reader'.events # <<>>
               PROVE  /\ reader'.seen \in DOMAIN reader'.events
                      /\ reader'.row.state = StateAfter(reader'.events[reader'.seen])
                      /\ Len(reader'.rows) <= Cardinality(Claimed(reader'.events))
                      /\ reader'.row.state = "dead" =>
                           current_job_failure_reason(reader'.row, reader'.rows) # NULL
    BY DEF ShowCovers, Claimed
  <2>1. PICK j : j = reader.job
    OBVIOUS
  <2>2. Here /\ reader'.events = log[j]
    BY <1>3, <2>1
  <2>3. RowFits(jobs[j], attempts[j], log[j]) /\ RowsFit(log[j]) /\ RowsKept
    BY <1>2, <2>1, <2>2 DEF ReportInv
  <2>4. reader.row.state = "dead" => current_job_failure_reason(reader.row, reader.rows) # NULL
    <3> SUFFICES ASSUME reader.row.state = "dead"
                 PROVE  current_job_failure_reason(reader.row, reader.rows) # NULL
      OBVIOUS
    <3>1. HasFailed(reader.rows)
      BY <2>3 DEF RowsFit, OwesReason
    <3>2. latest_failure_reason(reader.rows) # NULL
      BY <2>3, <3>1, LatestReason DEF RowsKept
    <3> QED
      BY <3>2 DEF current_job_failure_reason
  <2> QED
    BY <1>3, <2>2, <2>3, <2>4 DEF RowFits, RowsFit
<1>7. (MissingMeansPruned /\ StatusFits)'
  BY <1>5 DEF MissingMeansPruned, StatusFits
<1>8. NoReport' = NoReport /\ OpsAt' = OpsAt
  BY DEF NoReport, OpsAt
<1>9. ReadersTypeOK' /\ reader'.op \in OpsAt[reader'.pc]
  BY <1>2, <1>3 DEF ReadersTypeOK, OpsAt
<1>10. reader'.job \in Nat /\ reader'.seen \in Nat
  BY <1>3 DEF ReportInv
<1> QED
  BY <1>3, <1>4, <1>5, <1>6, <1>7, <1>8, <1>9, <1>10 DEF ReportInv

\* The files.
LEMMA ReadStreamsFits ==
    ASSUME OutputSafe, ReportInv, ReadStreams
    PROVE  ReportInv'
<1>1. UNCHANGED <<lastId, jobs, attempts, log, files, taken>> /\ JobIds' = JobIds
  BY ReadsOnly DEF ReadStreams
<1>2. /\ reader.pc = "streams" /\ reader.op \in {"feedback", "output"} /\ RowsRead
      /\ RowRead <=> reader.op = "feedback"
  BY DEF ReadStreams, ReportInv, OpsAt, RowRead, RowsRead, Told
<1>3. PICK no \in DOMAIN reader.rows :
        reader' = [reader EXCEPT !.pc = "ended", !.answer = "ok", !.no = no,
                                 !.missing = Missing(no)]
  BY DEF ReadStreams
<1>4. /\ reader'.pc = "ended" /\ reader'.answer = "ok"
      /\ reader'.no = no /\ reader'.missing = (<<reader.job, no>> \notin files)
      /\ reader'.row = reader.row /\ reader'.seen = reader.seen /\ reader'.rows = reader.rows
      /\ reader'.op = reader.op /\ reader'.job = reader.job
      /\ DOMAIN reader' = DOMAIN NoReport
  BY <1>3 DEF ReportInv, NoReport, Missing
<1>5. /\ RowRead => (/\ reader.job <= lastId
                     /\ Here => RowFits(jobs[reader.job], attempts[reader.job],
                                        log[reader.job]))'
      /\ RowsKept'
      /\ RowRead => (Here => RowsFit(log[reader.job]))'
  BY <1>1, <1>2, <1>4, StillFits
<1>6. \A op : Told(op)' <=> op = reader.op
  BY <1>4 DEF Told
<1>7. RowRead' <=> RowRead
  BY <1>2, <1>4, <1>6 DEF RowRead
<1>8. MissingMeansPruned'
  <2>1. Captured(reader.job, reader.rows)
    BY <1>2 DEF ReportInv, RowsKept
  <2> QED
    BY <1>1, <1>4, <2>1 DEF MissingMeansPruned, Captured, Ended
<1>9. (ShowCovers /\ StatusFits)'
  BY <1>2, <1>6 DEF ShowCovers, StatusFits
<1>10. NoReport' = NoReport /\ OpsAt' = OpsAt
  BY DEF NoReport, OpsAt
<1>11. ReadersTypeOK' /\ reader'.op \in OpsAt[reader'.pc]
  BY <1>2, <1>4 DEF ReadersTypeOK, OpsAt
<1>12. reader'.job \in Nat /\ reader'.seen \in Nat
  BY <1>4 DEF ReportInv
<1> QED
  BY <1>2, <1>4, <1>5, <1>6, <1>7, <1>8, <1>9, <1>10, <1>11, <1>12 DEF ReportInv

\* wait looks again.
LEMMA PollFits ==
    ASSUME OutputSafe, ReportInv, Poll
    PROVE  ReportInv'
<1>1. UNCHANGED <<lastId, jobs, attempts, log, files, taken>> /\ JobIds' = JobIds
  BY ReadsOnly DEF Poll
<1>2. CASE Answer("INTERNAL")
  BY <1>2, AnswerFits DEF Errors
<1>3. PICK j : j = reader.job
  OBVIOUS
<1>4. CASE /\ Here
           /\ reader' = [reader EXCEPT
                           !.pc = "ended", !.answer = "ok",
                           !.row = [state |-> jobs[j].state, attempts |-> jobs[j].attempts]]
  <2>1. reader.op = "wait"
    BY DEF Poll, ReportInv, OpsAt
  <2>2. /\ reader'.pc = "ended" /\ reader'.answer = "ok"
        /\ reader'.row.state = jobs[j].state
        /\ reader'.op = "wait" /\ reader'.job = j /\ reader'.seen = reader.seen
        /\ DOMAIN reader' = DOMAIN NoReport
    BY <1>3, <1>4, <2>1 DEF ReportInv, NoReport
  <2>3. \A op : Told(op)' <=> op = "wait"
    BY <2>2 DEF Told
  <2>4. ~RowRead' /\ ~RowsRead'
    BY <2>2, <2>3 DEF RowRead, RowsRead
  <2>5. j \in Nat /\ j <= lastId
    BY <1>3, <1>4 DEF Here, OutputSafe, StoreInv, TypeOK
  <2>6. (ShowCovers /\ MissingMeansPruned /\ StatusFits)'
    BY <2>3 DEF ShowCovers, MissingMeansPruned, StatusFits
  <2>7. NoReport' = NoReport /\ OpsAt' = OpsAt
    BY DEF NoReport, OpsAt
  <2>8. ReadersTypeOK' /\ reader'.op \in OpsAt[reader'.pc]
    BY <2>2 DEF ReadersTypeOK, OpsAt
  <2>9. reader'.seen \in Nat
    BY <2>2 DEF ReportInv
  <2> QED
    BY <1>1, <2>2, <2>3, <2>4, <2>5, <2>6, <2>7, <2>8, <2>9 DEF ReportInv
<1> QED
  BY <1>2, <1>3, <1>4 DEF Poll

\* The event that a dead job ends with.
LEMMA DeadIsLast ==
    ASSUME StoreInv, NEW j \in JobIds
    PROVE  LET n == Len(log[j])
           IN  n \in Nat /\ n > 0 /\ n \in DOMAIN log[j]
               /\ (jobs[j].state = "dead" <=> log[j][n] = "dead")
<1>1. log[j] \in Seq(JobEventTypes) /\ LogAgrees(jobs[j], log[j])
  BY DEF StoreInv, TypeOK, LogInv
<1>2. PICK n \in Nat : n = Len(log[j]) /\ n > 0 /\ DOMAIN log[j] = 1..n
  BY <1>1 DEF LogAgrees
<1>3. PICK e \in JobEventTypes : e = log[j][n]
  BY <1>1, <1>2
<1>4. jobs[j].state = StateAfter(e)
  BY <1>1, <1>2, <1>3 DEF LogAgrees
<1>5. StateAfter(e) = "dead" <=> e = "dead"
  BY DEF StateAfter, JobEventTypes
<1> QED
  BY <1>2, <1>3, <1>4, <1>5

\* status counts.
LEMMA ReadCountsFits ==
    ASSUME OutputSafe, ReportInv, ReadCounts
    PROVE  ReportInv'
<1>1. UNCHANGED <<lastId, jobs, attempts, log, files, taken>> /\ JobIds' = JobIds
  BY ReadsOnly DEF ReadCounts
<1>2. StoreInv /\ lastId \in Nat /\ JobIds \subseteq 1..lastId
  BY DEF OutputSafe, StoreInv, TypeOK
<1>3. PICK j, n : /\ j = reader.job /\ j \in Nat
                  /\ n = IF j \in JobIds THEN Len(log[j]) ELSE 0
  BY DEF ReportInv
<1> DEFINE dead == {i \in JobIds : jobs[i].state = "dead"}
<1>4. /\ reader'.pc = "dead" /\ reader'.row["dead"] = Cardinality(dead)
      /\ reader'.seen = n /\ reader'.op = reader.op /\ reader'.job = j
      /\ reader'.answer = reader.answer
      /\ DOMAIN reader' = DOMAIN NoReport
  BY <1>3 DEF ReadCounts, ReportInv, NoReport, Here, status_counts, JobStates
<1>5. \A op : ~Told(op)'
  BY <1>4 DEF Told
<1>6. ~RowRead' /\ ~RowsRead'
  BY <1>4, <1>5 DEF RowRead, RowsRead
<1>7. dead # {} => Cardinality(dead) > 0
  <2>1. dead \subseteq 1..lastId
    BY <1>2
  <2> HIDE DEF dead
  <2>2. IsFiniteSet(dead)
    <3>1. IsFiniteSet(1..lastId)
      BY <1>2, FS_Interval
    <3> QED
      BY <2>1, <3>1, FS_Subset
  <2>3. Cardinality(dead) \in Nat /\ (Cardinality(dead) = 0 <=> dead = {})
    BY <2>2, FS_CardinalityType, FS_EmptySet
  <2> QED
    BY <2>3
<1>8. n \in Nat /\ (n # 0 => j <= lastId)
  <2>1. j \in JobIds => Len(log[j]) \in Nat /\ j <= lastId
    BY <1>2, DeadIsLast
  <2> QED
    BY <1>3, <2>1
<1>9. j \in JobIds => CountsFit(log[j])'
  <2> SUFFICES ASSUME j \in JobIds PROVE CountsFit(log[j])'
    OBVIOUS
  <2>1. n = Len(log[j]) /\ n > 0 /\ (log[j][n] = "dead" => jobs[j].state = "dead")
    BY <1>2, <1>3, DeadIsLast
  <2>2. log[j][n] = "dead" => Cardinality(dead) > 0
    BY <1>7, <2>1
  <2> QED
    BY <1>1, <1>4, <1>8, <2>1, <2>2 DEF CountsFit
<1>10. (ShowCovers /\ MissingMeansPruned /\ StatusFits)'
  BY <1>5 DEF ShowCovers, MissingMeansPruned, StatusFits
<1>11. NoReport' = NoReport /\ OpsAt' = OpsAt
  BY DEF NoReport, OpsAt
<1>12. ReadersTypeOK' /\ reader'.op \in OpsAt[reader'.pc]
  BY <1>4 DEF ReadCounts, ReportInv, ReadersTypeOK, OpsAt
<1>13. (Here => CountsFit(log[reader.job]))'
  BY <1>1, <1>4, <1>9 DEF Here
<1> HIDE DEF dead
<1> QED
  BY <1>1, <1>3, <1>4, <1>5, <1>6, <1>8, <1>10, <1>11, <1>12, <1>13 DEF ReportInv

\* status lists the dead.
LEMMA ReadDeadFits ==
    ASSUME OutputSafe, ReportInv, ReadDead
    PROVE  ReportInv'
<1>1. UNCHANGED <<lastId, jobs, attempts, log, files, taken>> /\ JobIds' = JobIds
  BY ReadsOnly DEF ReadDead
<1>2. StoreInv /\ lastId \in Nat /\ JobIds \subseteq 1..lastId
  BY DEF OutputSafe, StoreInv, TypeOK
<1>3. PICK j, n : j = reader.job /\ j \in Nat /\ n = reader.seen /\ n \in Nat
  BY DEF ReportInv
<1>4. /\ reader'.pc = "ended" /\ reader'.answer = "ok"
      /\ reader'.events = recent_dead(LIST_LIMIT_MAX)
      /\ reader'.row = reader.row /\ reader'.seen = n
      /\ reader'.op = "status" /\ reader'.job = j
      /\ DOMAIN reader' = DOMAIN NoReport
  BY <1>3 DEF ReadDead, ReportInv, NoReport, OpsAt
<1>5. \A op : Told(op)' <=> op = "status"
  BY <1>4 DEF Told
<1>6. ~RowRead' /\ ~RowsRead'
  BY <1>4, <1>5 DEF RowRead, RowsRead
<1>7. j \in reader'.events => j \in JobIds /\ jobs[j].state = "dead"
  BY <1>4 DEF recent_dead
<1>8. ASSUME j \in reader'.events PROVE reader.row["dead"] > 0 \/ Since("dead")'
  <2>1. PICK m \in Nat : m = Len(log[j]) /\ m \in DOMAIN log[j] /\ m > 0 /\ log[j][m] = "dead"
    BY <1>2, <1>7, <1>8, DeadIsLast
  <2>2. CountsFit(log[j])
    BY <1>3, <1>7, <1>8 DEF ReadDead, ReportInv, Here
  <2>3. n <= m /\ (reader.row["dead"] > 0 \/ n = 0 \/ log[j][n] # "dead")
    BY <1>3, <2>1, <2>2 DEF CountsFit
  <2>4. n < m => Since("dead")'
    BY <1>1, <1>4, <2>1 DEF Since
  <2>5. n = m => reader.row["dead"] > 0
    BY <2>1, <2>3
  <2> QED
    BY <1>3, <2>3, <2>4, <2>5
<1>9. StatusFits'
  BY <1>4, <1>8 DEF StatusFits
<1>10. (ShowCovers /\ MissingMeansPruned)'
  BY <1>5 DEF ShowCovers, MissingMeansPruned
<1>11. NoReport' = NoReport /\ OpsAt' = OpsAt
  BY DEF NoReport, OpsAt
<1>12. ReadersTypeOK' /\ reader'.op \in OpsAt[reader'.pc]
  BY <1>4 DEF ReadersTypeOK, OpsAt
<1>13. j \in reader'.events => j <= lastId
  <2>1. \A i \in JobIds : i <= lastId
    BY <1>2
  <2> QED
    BY <1>7, <2>1
<1> QED
  BY <1>1, <1>3, <1>4, <1>5, <1>6, <1>9, <1>10, <1>11, <1>12, <1>13 DEF ReportInv

-----------------------------------------------------------------------------
(* AnswersFit                                                              *)

\* One step of anybody, with what Store says of it.
LEMMA ReportStep ==
    ASSUME OutputSafe, OutputSafe', HistorySafe, CountersMatchLog, ReportInv,
           [ReadersNext]_readerVars, [KeepsDone]_storeVars, [KeepsClosedAttempts]_storeVars
    PROVE  ReportInv'
<1>1. PICK w : QueueKept(w)
  BY QueueStep
<1>2. CASE OutputNext /\ UNCHANGED reader
  BY <1>1, <1>2, DiskGrows, ReportStays
<1>3. CASE UNCHANGED readerVars
  <2>1. UNCHANGED <<reader, files, taken>>
    BY <1>3 DEF readerVars, outputVars, fileVars, historyVars
  <2> QED
    BY <1>1, <2>1, ReportStays
<1>4. CASE WaitTimesOut
  BY <1>4, AnswerFits DEF WaitTimesOut, Errors
<1>5. CASE ReaderStep
  BY <1>5, ReadJobFits, ReadAttemptsFits, ReadEventsFits, ReadStreamsFits, PollFits,
     ReadCountsFits, ReadDeadFits DEF ReaderStep
<1> QED
  BY <1>2, <1>3, <1>4, <1>5, StartsFits DEF ReadersNext

\* The inductive invariant of a report holds, whatever is committed and
\* removed between two of its SELECTs.
THEOREM ReportsAreSafe == ReadersSpec => []ReportInv
<1>1. ReadersInit => ReportInv
  <2> SUFFICES ASSUME ReadersInit PROVE ReportInv
    OBVIOUS
  <2>1. reader = NoReport /\ reader.pc = "idle"
    BY DEF ReadersInit, NoReport
  <2>2. \A op : ~Told(op)
    BY <2>1 DEF Told
  <2>3. ~RowRead /\ ~RowsRead
    BY <2>1, <2>2 DEF RowRead, RowsRead
  <2>4. ShowCovers /\ MissingMeansPruned /\ StatusFits
    BY <2>2 DEF ShowCovers, MissingMeansPruned, StatusFits
  <2>5. /\ ReadersTypeOK /\ reader.op \in OpsAt[reader.pc]
        /\ reader.job \in Nat /\ reader.seen \in Nat
    BY <2>1 DEF NoReport, ReadersTypeOK, OpsAt
  <2> QED
    BY <2>1, <2>2, <2>3, <2>4, <2>5 DEF ReportInv
<1>2. ReadersSpec => [][KeepsDone]_storeVars /\ [][KeepsClosedAttempts]_storeVars
  BY ReadersUseTheStore, FinishedIsFinal, HistoryIsImmutable
     DEF DoneIsFinal, ClosedAttemptsFrozen
<1>3. ReadersSpec => []CountersMatchLog
  BY ReadersUseTheStore, CountersAreTheLog
<1> QED
  BY <1>1, <1>2, <1>3, OutputIsSafe, AttemptsAreTold, ReportStep, PTL DEF ReadersSpec

\* The verdict of feedback is explained by the attempts it shows.
LEMMA VerdictFits ==
    ASSUME ReportInv
    PROVE  FeedbackFits
<1> SUFFICES ASSUME Told("feedback"), Here PROVE FeedbackFits
  BY DEF FeedbackFits
<1>1. RowRead /\ RowsRead /\ reader.op = "feedback"
  BY DEF RowRead, RowsRead, Told
<1>2. PICK row, rows, events :
        row = reader.row /\ rows = reader.rows /\ events = log[reader.job]
  OBVIOUS
<1>3. /\ RowsFit(events) /\ RowsKept /\ rows # <<>> /\ rows \in Seq(AttemptRow)
      /\ \A n \in DOMAIN rows : Closed(rows[n]) => rows[n].failure_reason # NULL
  BY <1>1, <1>2 DEF ReportInv, RowsKept
<1>4. LatestRow = rows[Len(rows)] /\ Verdict = feedback(row, rows)
  BY <1>2 DEF LatestRow, Verdict
<1>5. RetriedAfter(events, reader.seen) <=> Since("retried")
  BY <1>2 DEF RetriedAfter, Since
<1>6. row.state = "done" => LatestRow.state = "succeeded"
  BY <1>2, <1>3 DEF RowsFit
<1>7. row.state \in {"dead", "canceled"} => LatestRow.state # "running" \/ Since("retried")
  BY <1>2, <1>3, <1>5 DEF RowsFit
<1>8. OwesReason(row) => HasFailed(rows)
  BY <1>2, <1>3 DEF RowsFit
<1>9. ASSUME OwesReason(row)
      PROVE  Verdict.reason = latest_failure_reason(rows)
  BY <1>4, <1>9 DEF feedback, OwesReason
<1>10. OwesReason(row) =>
         /\ Verdict.reason # NULL
         /\ Closed(LatestRow) => Verdict.reason = LatestRow.failure_reason
  BY <1>3, <1>4, <1>8, <1>9, LatestReason
<1>11. row.state = "dead" => Closed(LatestRow) \/ Since("retried")
  BY <1>2, <1>3, <1>5 DEF RowsFit
<1>12. row.state = "running" => ~Verdict.terminal /\ Verdict.succeeded = NULL
  BY <1>4 DEF feedback, WaitTerminal
<1> QED
  BY <1>2, <1>6, <1>7, <1>10, <1>11, <1>12 DEF FeedbackFits, OwesReason

\* What wait, feedback, show, output and status say fits together and fits
\* the queue for every number of jobs, workers and prunes, whatever commits
\* between two of their SELECTs (spoolctl/operations.py).
THEOREM AnswersAreConsistent == ReadersSpec => []AnswersFit
<1>1. ReportInv => SuccessStaysTrue
  <2> SUFFICES ASSUME ReportInv PROVE SuccessStaysTrue
    OBVIOUS
  <2>1. Told("feedback") => RowRead
    BY DEF RowRead
  <2> QED
    BY <2>1 DEF SuccessStaysTrue, ReportInv, RowFits
<1>2. ReportInv => AnswersFit
  BY <1>1, VerdictFits DEF ReportInv, AnswersFit
<1> QED
  BY <1>2, ReportsAreSafe, PTL
=============================================================================
