-------------------------- MODULE OwnershipProofs ---------------------------
(***************************************************************************)
(* Who owns a job, for any number of workers, pids and jobs.  The tables,  *)
(* the lock columns and what the workers believe they execute fit together *)
(* (OwnershipInv), so results are recorded once and by the right worker.   *)
(*                                                                         *)
(* The argument looks at a step through what it does to one job: it is a   *)
(* claim, it ends a claim, it moves a job nobody owns, it adds or removes  *)
(* jobs, or it leaves the owners alone.                                    *)
(***************************************************************************)
EXTENDS WorkerProofs

-----------------------------------------------------------------------------
(* What a transaction does to owners                                       *)

\* The row of j ends up in state to, with these attempts.
Rewrites(j, to, rows) ==
    /\ j \in JobIds
    /\ DOMAIN jobs' = JobIds
    /\ jobs'[j].state = to
    /\ attempts'[j] = rows
    /\ \A i \in JobIds \ {j} : jobs'[i] = jobs[i] /\ attempts'[i] = attempts[i]
    /\ lastId' = lastId

\* The last attempt of j closed.
CloseLast(j, s, r) ==
    [attempts[j] EXCEPT ![LastNo(j)] = [@ EXCEPT !.state = s, !.failure_reason = r]]

\* The claim on j ends: its open attempt is closed, with state s and reason r.
Ends(j, to, s, r) ==
    /\ jobs[j].state = "running"
    /\ to # "running"
    /\ s # "running"
    /\ Rewrites(j, to, CloseLast(j, s, r))

\* A job that nobody owns changes its state.
Moves(j, from, to) ==
    /\ jobs[j].state \in from
    /\ "running" \notin from
    /\ to # "running"
    /\ Rewrites(j, to, attempts[j])

Adds ==
    /\ DOMAIN jobs' = JobIds \cup {lastId + 1}
    /\ lastId' = lastId + 1
    /\ lastId + 1 <= MaxJobs
    /\ jobs'[lastId + 1].state = "queued"
    /\ attempts'[lastId + 1] = <<>>
    /\ \A i \in JobIds : jobs'[i] = jobs[i] /\ attempts'[i] = attempts[i]

Removes ==
    /\ DOMAIN jobs' \subseteq JobIds
    /\ lastId' = lastId
    /\ \A i \in JobIds \ DOMAIN jobs' : jobs[i].state \in PrunableStates
    /\ \A i \in DOMAIN jobs' : jobs'[i] = jobs[i] /\ attempts'[i] = attempts[i]

\* At most a heartbeat.
LeavesAlone ==
    /\ DOMAIN jobs' = JobIds
    /\ attempts' = attempts
    /\ lastId' = lastId
    /\ \A i \in JobIds :
         /\ jobs'[i].state = jobs[i].state
         /\ jobs'[i].locked_by = jobs[i].locked_by
         /\ jobs'[i].locked_pid = jobs[i].locked_pid

\* A running job has a last attempt, and it is the only open one: closing
\* what is open is closing the last.
LEMMA ClosingIsLast ==
    ASSUME PassInv, OwnershipInv, NEW j \in JobIds, jobs[j].state = "running",
           NEW s, NEW r
    PROVE  /\ LastNo(j) \in DOMAIN attempts[j]
           /\ CloseRunning(j, s, r) = CloseLast(j, s, r)
           /\ CloseOne(j, LastNo(j), s, r) = CloseLast(j, s, r)
<1>1. PICK p \in Procs : Holds(p, j, LastNo(j))
  BY DEF OwnershipInv, AttemptsMatchJob
<1>2. /\ Len(attempts[j]) \in Nat /\ DOMAIN attempts[j] = 1..Len(attempts[j])
      /\ attempts[j] \in Seq(AttemptRow)
  BY NextAttemptNoIsLen DEF PassInv, StoreInv, TypeOK
<1>3. j # 0
  BY DEF PassInv, StoreInv, TypeOK
<1>4. held[p] # NoClaim
  BY <1>1, <1>3 DEF Holds, NoClaim
<1>5. LastNo(j) > 0
  BY <1>1, <1>4 DEF OwnershipInv, ClaimInv, Holds
<1>6. LastNo(j) \in DOMAIN attempts[j]
  BY <1>2, <1>5 DEF LastNo
<1>7. \A n \in DOMAIN attempts[j] : attempts[j][n].state = "running" <=> n = LastNo(j)
  BY DEF OwnershipInv, AttemptsMatchJob
<1> QED
  BY <1>6, <1>7 DEF CloseRunning, CloseOne, CloseLast

\* A step that rewrites one row, by its record update.
LEMMA RewritesRow ==
    ASSUME StoreInv, NEW j \in JobIds, NEW row, NEW tries,
           jobs' = [jobs EXCEPT ![j] = row],
           attempts' = [attempts EXCEPT ![j] = tries],
           lastId' = lastId
    PROVE  Rewrites(j, row.state, tries)
  BY DEF Rewrites, StoreInv, TypeOK, JobIds

\* What the clients do to owners.
LEMMA ClientKinds ==
    ASSUME PassInv, OwnershipInv, ClientNext
    PROVE  \/ Adds
           \/ Removes
           \/ \E j \in JobIds :
                \/ Moves(j, {"queued"}, "canceled")
                \/ Moves(j, {"canceled", "dead"}, "queued")
                \/ Ends(j, "canceled", "canceled", "canceled")
                \/ Ends(j, "queued", "abandoned", "canceled")
<1>0. /\ StoreInv /\ jobs \in [JobIds -> JobRow] /\ lastId \in Nat
      /\ JobIds \subseteq 1..lastId
      /\ attempts \in [JobIds -> Seq(AttemptRow)]
  BY DEF PassInv, StoreInv, TypeOK
<1>1. ASSUME NEW s \in Specs, NEW delay \in Delays, add_job_checked(s, delay, clock)
      PROVE  Adds
  <2>1. lastId + 1 \notin JobIds
    BY <1>0
  <2>2. lastId < MaxJobs /\ MaxJobs \in Nat
    BY <1>1, BoundsAssumption DEF add_job_checked
  <2>3. lastId + 1 <= MaxJobs
    BY <1>0, <2>2
  <2> QED
    BY <1>1, <2>1, <2>3 DEF add_job_checked, Adds
<1>2. ASSUME NEW j \in JobIds, NEW allow_running \in BOOLEAN,
             cancel_job(j, allow_running, clock)
      PROVE  \/ Moves(j, {"queued"}, "canceled")
             \/ Ends(j, "canceled", "canceled", "canceled")
  <2>1. CASE jobs[j].state = "queued"
    <3> DEFINE row == [jobs[j] EXCEPT !.state = "canceled", !.finished_at = clock]
    <3>1. /\ jobs' = [jobs EXCEPT ![j] = row]
          /\ attempts' = [attempts EXCEPT ![j] = attempts[j]]
          /\ lastId' = lastId
      BY <1>0, <1>2, <2>1 DEF cancel_job
    <3>2. row.state = "canceled"
      BY <1>0 DEF JobRow
    <3> HIDE DEF row
    <3>3. Rewrites(j, "canceled", attempts[j])
      BY <1>0, <3>1, <3>2, RewritesRow
    <3> QED
      BY <2>1, <3>3 DEF Moves
  <2>2. CASE jobs[j].state # "queued"
    <3> DEFINE row == [Unlocked(jobs[j]) EXCEPT !.state = "canceled",
                                               !.finished_at = clock]
    <3>1. /\ jobs[j].state = "running"
          /\ jobs' = [jobs EXCEPT ![j] = row]
          /\ attempts' = [attempts EXCEPT ![j] = CloseRunning(j, "canceled", "canceled")]
          /\ lastId' = lastId
      BY <1>2, <2>2 DEF cancel_job
    <3>2. row.state = "canceled"
      BY <1>0 DEF JobRow, Unlocked
    <3> HIDE DEF row
    <3>3. CloseRunning(j, "canceled", "canceled") = CloseLast(j, "canceled", "canceled")
      BY <3>1, ClosingIsLast
    <3>4. Rewrites(j, "canceled", CloseLast(j, "canceled", "canceled"))
      BY <1>0, <3>1, <3>2, <3>3, RewritesRow
    <3> QED
      BY <3>1, <3>4 DEF Ends
  <2> QED
    BY <2>1, <2>2
<1>3. ASSUME NEW j \in JobIds, NEW force \in BOOLEAN, retry_job(j, force, clock)
      PROVE  \/ Moves(j, {"canceled", "dead"}, "queued")
             \/ Ends(j, "queued", "abandoned", "canceled")
  <2> DEFINE row == FreshBudget(jobs[j], clock)
  <2>1. /\ jobs' = [jobs EXCEPT ![j] = row] /\ lastId' = lastId
        /\ Retryable(j, force)
    BY <1>3 DEF retry_job
  <2>2. row.state = "queued"
    BY <1>0 DEF JobRow, FreshBudget, Unlocked
  <2> HIDE DEF row
  <2>3. CASE force
    <3>1. /\ attempts' = [attempts EXCEPT ![j] = CloseRunning(j, "abandoned", "canceled")]
          /\ jobs[j].state = "running"
      BY <1>3, <2>1, <2>3 DEF retry_job, Retryable
    <3>2. CloseRunning(j, "abandoned", "canceled") = CloseLast(j, "abandoned", "canceled")
      BY <3>1, ClosingIsLast
    <3>3. Rewrites(j, "queued", CloseLast(j, "abandoned", "canceled"))
      BY <1>0, <2>1, <2>2, <3>1, <3>2, RewritesRow
    <3> QED
      BY <3>1, <3>3 DEF Ends
  <2>4. CASE ~force
    <3>1. attempts' = [attempts EXCEPT ![j] = attempts[j]]
      BY <1>0, <1>3, <2>4 DEF retry_job
    <3>2. jobs[j].state \in {"canceled", "dead"}
      BY <1>0, <2>1, <2>4 DEF Retryable, ActiveStates, JobRow, JobStates
    <3>3. Rewrites(j, "queued", attempts[j])
      BY <1>0, <2>1, <2>2, <3>1, RewritesRow
    <3> QED
      BY <3>2, <3>3 DEF Moves
  <2> QED
    BY <2>3, <2>4
<1>4. ASSUME NEW ids, NEW cutoff, prune_delete(ids, PrunableStates, cutoff)
      PROVE  Removes
  BY <1>4 DEF prune_delete, Prunable, Removes, JobIds
<1> QED
  BY <1>1, <1>2, <1>3, <1>4 DEF ClientNext

\* A heartbeat leaves the owners alone.
LEMMA BeatKind ==
    ASSUME StoreInv, NEW j, NEW w, NEW pid, update_heartbeat(j, w, pid, clock)
    PROVE  LeavesAlone
<1>1. jobs \in [JobIds -> JobRow] /\ j \in JobIds
  BY DEF StoreInv, TypeOK, update_heartbeat, Owns
<1>2. jobs' = [jobs EXCEPT ![j] = [jobs[j] EXCEPT !.heartbeat_at = clock]]
  BY DEF update_heartbeat
<1>3. attempts' = attempts /\ lastId' = lastId
  BY DEF update_heartbeat
<1>4. \A i \in JobIds \ {j} : jobs'[i] = jobs[i]
  BY <1>1, <1>2
<1>5. /\ jobs'[j].state = jobs[j].state
      /\ jobs'[j].locked_by = jobs[j].locked_by
      /\ jobs'[j].locked_pid = jobs[j].locked_pid
  BY <1>1, <1>2 DEF JobRow
<1>6. DOMAIN jobs' = JobIds
  BY <1>1, <1>2
<1> QED
  BY <1>3, <1>4, <1>5, <1>6 DEF LeavesAlone

\* Steps that do not touch the tables leave the owners alone.
LEMMA IdleKind ==
    ASSUME Tick \/ UNCHANGED storeVars
    PROVE  LeavesAlone
  BY DEF Tick, storeVars, LeavesAlone, JobIds

\* The outcome recorded by p.
RecordsOutcome(p, j) ==
    /\ Holds(p, j, LastNo(j))
    /\ \/ /\ Ends(j, "done", "succeeded", NULL)
          /\ log' = [log EXCEPT ![j] = Append(@, "succeeded")]
       \/ \E to \in {"queued", "dead"}, r \in Reasons :
             /\ Ends(j, to, FailureKind(r), r)
             /\ log' = [log EXCEPT ![j] =
                          @ \o FailureEvents(FailureKind(r), to = "dead")]

\* A worker that records either holds the last attempt of a running job, and
\* closes it, or has lost its job and changes nothing.
LEMMA RecordKinds ==
    ASSUME PassInv, OwnershipInv, NEW p \in Procs, Record(p)
    PROVE  \/ \E j \in JobIds : RecordsOutcome(p, j)
           \/ LeavesAlone /\ ~Owns(held[p][1], WorkerIdOf[p], PidOf[p])
<1> DEFINE j == held[p][1]
           no == held[p][2]
<1>0. /\ StoreInv /\ jobs \in [JobIds -> JobRow]
      /\ held \in [Procs -> Nat \X Nat]
  BY DEF PassInv, StoreInv, TypeOK, WorkerTypeOK, LoopTypeOK
<1>1. pc[p] = "recording" /\ Alive(p)
  BY DEF Record, Alive, Absent
<1>2. ASSUME Owns(j, WorkerIdOf[p], PidOf[p])
      PROVE  /\ j \in JobIds /\ jobs[j].state = "running"
             /\ no = LastNo(j) /\ Holds(p, j, LastNo(j))
  <2>1. j \in JobIds /\ jobs[j].state = "running" /\ no = LastNo(j)
    BY <1>1, <1>2 DEF Owns, OwnershipInv, GuardInv
  <2>2. held[p] = <<j, no>>
    BY <1>0
  <2> QED
    BY <2>1, <2>2 DEF Holds
<1>3. CASE record_success(j, no, WorkerIdOf[p], PidOf[p], clock)
  <2> DEFINE row == [Unlocked(jobs[j]) EXCEPT !.state = "done", !.finished_at = clock]
  <2>1. /\ j \in JobIds /\ jobs[j].state = "running"
        /\ no = LastNo(j) /\ Holds(p, j, LastNo(j))
    BY <1>2, <1>3 DEF record_success
  <2>2. CloseOne(j, LastNo(j), "succeeded", NULL) = CloseLast(j, "succeeded", NULL)
    BY <2>1, ClosingIsLast
  <2>3. /\ jobs' = [jobs EXCEPT ![j] = row]
        /\ attempts' = [attempts EXCEPT ![j] = CloseOne(j, no, "succeeded", NULL)]
        /\ log' = [log EXCEPT ![j] = Append(@, "succeeded")]
        /\ lastId' = lastId
    BY <1>3 DEF record_success
  <2>4. row.state = "done"
    BY <1>0, <2>1 DEF JobRow, Unlocked
  <2> HIDE DEF row, j, no
  <2>5. Rewrites(j, "done", CloseLast(j, "succeeded", NULL))
    BY <1>0, <2>1, <2>2, <2>3, <2>4, RewritesRow
  <2>6. Ends(j, "done", "succeeded", NULL)
    BY <2>1, <2>5 DEF Ends
  <2> QED
    BY <2>1, <2>3, <2>6 DEF RecordsOutcome
<1>4. CASE /\ result[p] # "succeeded"
           /\ record_failure(j, no, WorkerIdOf[p], PidOf[p], result[p], clock)
  <2> DEFINE r == result[p]
             x == RetriesExhausted(jobs[j])
             to == IF x THEN "dead" ELSE "queued"
             row == Requeued(jobs[j], x, jobs[j].attempts + 1, jobs[j].crashes, clock)
  <2>1. /\ j \in JobIds /\ jobs[j].state = "running"
        /\ no = LastNo(j) /\ Holds(p, j, LastNo(j))
    BY <1>2, <1>4 DEF record_failure
  <2>2. r \in Reasons
    BY <1>1, <1>4 DEF PassInv, WorkerTypeOK
  <2>3. CloseOne(j, LastNo(j), FailureKind(r), r) = CloseLast(j, FailureKind(r), r)
    BY <2>1, ClosingIsLast
  <2>4. /\ jobs' = [jobs EXCEPT ![j] = row]
        /\ attempts' = [attempts EXCEPT ![j] = CloseOne(j, no, FailureKind(r), r)]
        /\ log' = [log EXCEPT ![j] = @ \o FailureEvents(FailureKind(r), x)]
        /\ lastId' = lastId
    BY <1>4 DEF record_failure
  <2>5. row.state = to
    BY <1>0, <2>1 DEF JobRow, Unlocked, Requeued
  <2>6. FailureKind(r) # "running" /\ to # "running" /\ to \in {"queued", "dead"}
    BY DEF FailureKind
  <2>7. x \in BOOLEAN
    BY DEF RetriesExhausted
  <2>8. FailureEvents(FailureKind(r), x) = FailureEvents(FailureKind(r), to = "dead")
    BY <2>7 DEF FailureEvents
  <2> HIDE DEF row, j, no, x, r, to
  <2>9. Rewrites(j, to, CloseLast(j, FailureKind(r), r))
    BY <1>0, <2>1, <2>3, <2>4, <2>5, RewritesRow
  <2>10. Ends(j, to, FailureKind(r), r)
    BY <2>1, <2>6, <2>9 DEF Ends
  <2> QED
    BY <2>1, <2>2, <2>4, <2>6, <2>8, <2>10 DEF RecordsOutcome
<1>5. CASE ~Owns(j, WorkerIdOf[p], PidOf[p]) /\ UNCHANGED storeVars
  BY <1>5, IdleKind
<1> QED
  BY <1>3, <1>4, <1>5 DEF Record

\* A reap that goes through ends the claim of an incarnation that is gone.
LEMMA ReapKinds ==
    ASSUME PassInv, OwnershipInv, NEW p \in Procs, ReapOne(p), [Next]_vars
    PROVE  \/ LeavesAlone
           \/ \E j \in JobIds, to \in {"queued", "dead"} :
                /\ Ends(j, to, "abandoned", "worker_crash")
                /\ \A q \in Procs : Holds(q, j, LastNo(j)) => ~Alive(q)
<1> DEFINE c == First(cands[p])
           cutoff == passAt[p] - REAP_THRESHOLD
<1>1. CASE UNCHANGED storeVars
  BY <1>1, IdleKind
<1>2. CASE reap(c.job, c.pid, cutoff, passAt[p])
  <2> DEFINE j == c.job
             x == CrashesExhausted(jobs[j])
             to == IF x THEN "dead" ELSE "queued"
             row == Requeued(jobs[j], x, jobs[j].attempts + 1,
                             jobs[j].crashes + 1, passAt[p])
  <2>0. StoreInv /\ jobs \in [JobIds -> JobRow]
    BY DEF PassInv, StoreInv, TypeOK
  <2>1. j \in JobIds /\ jobs[j].state = "running"
    BY <1>2 DEF reap, Reapable, Stale
  <2>2. CloseRunning(j, "abandoned", "worker_crash") = CloseLast(j, "abandoned", "worker_crash")
    BY <2>1, ClosingIsLast
  <2>3. /\ jobs' = [jobs EXCEPT ![j] = row]
        /\ attempts' = [attempts EXCEPT ![j] = CloseRunning(j, "abandoned", "worker_crash")]
        /\ lastId' = lastId
    BY <1>2 DEF reap
  <2>4. row.state = to /\ row.crashes = jobs[j].crashes + 1 /\ jobs[j].crashes \in Nat
    BY <2>0, <2>1 DEF JobRow, Unlocked, Requeued
  <2>5. to # "running" /\ to \in {"queued", "dead"}
    OBVIOUS
  <2> HIDE DEF row, j, x, to
  <2>6. Rewrites(j, to, CloseLast(j, "abandoned", "worker_crash"))
    BY <2>0, <2>1, <2>2, <2>3, <2>4, RewritesRow
  <2>7. Ends(j, to, "abandoned", "worker_crash")
    BY <2>1, <2>5, <2>6 DEF Ends
  <2>8. j \in DOMAIN jobs' /\ jobs'[j].crashes > jobs[j].crashes
    BY <2>0, <2>1, <2>3, <2>4
  <2>9. \A q \in Procs : Holds(q, j, LastNo(j)) => ~Alive(q)
    BY <2>1, <2>8, ReapStep DEF ReapsDead
  <2> QED
    BY <2>1, <2>5, <2>7, <2>9
<1> QED
  BY <1>1, <1>2 DEF ReapOne

\* p, which held nothing, opens the next attempt of j.
Opens(p, j) ==
    /\ jobs[j].state = "queued"
    /\ Rewrites(j, "running", attempts'[j])
    /\ jobs'[j].locked_by = WorkerIdOf[p]
    /\ jobs'[j].locked_pid = PidOf[p]
    /\ DOMAIN attempts'[j] = 1..(LastNo(j) + 1)
    /\ Len(attempts'[j]) = LastNo(j) + 1
    /\ attempts'[j][LastNo(j) + 1].state = "running"
    /\ attempts'[j][LastNo(j) + 1].failure_reason = NULL
    /\ \A n \in 1..LastNo(j) : attempts'[j][n] = attempts[j][n]
    /\ held' = [held EXCEPT ![p] = <<j, LastNo(j) + 1>>]

LEMMA ClaimKind ==
    ASSUME PassInv, NEW p \in Procs, Claim(p)
    PROVE  \E j \in JobIds : Opens(p, j)
<1>0. StoreInv /\ ReapInv /\ attempts \in [JobIds -> Seq(AttemptRow)]
  BY DEF PassInv, StoreInv, TypeOK
<1>1. PICK j \in JobIds :
         /\ claim_next(j, WorkerIdOf[p], PidOf[p], LaneOf[p], clock)
         /\ held' = [held EXCEPT ![p] = <<j, Len(attempts[j]) + 1>>]
         /\ Len(attempts'[j]) = Len(attempts[j]) + 1
         /\ jobs'[j].state = "running" /\ jobs[j].state = "queued"
         /\ jobs'[j].locked_by = WorkerIdOf[p]
         /\ jobs'[j].locked_pid = PidOf[p]
         /\ \A i \in JobIds \ {j} : jobs'[i] = jobs[i] /\ attempts'[i] = attempts[i]
         /\ DOMAIN jobs' = JobIds /\ UNCHANGED <<clock, lastId>>
  BY <1>0, ClaimFacts
<1>2. /\ Len(attempts[j]) \in Nat
      /\ DOMAIN attempts[j] = 1..Len(attempts[j])
      /\ NextAttemptNo(j) = Len(attempts[j]) + 1
  BY <1>0, NextAttemptNoIsLen DEF StoreInv
<1> DEFINE m == Len(attempts[j]) + 1
           try == [worker_id |-> WorkerIdOf[p], worker_pid |-> PidOf[p],
                   state |-> "running", failure_reason |-> NULL]
<1>3. attempts'[j] = [n \in DOMAIN attempts[j] \cup {m} |->
                        IF n = m THEN try ELSE attempts[j][n]]
  BY <1>0, <1>1, <1>2 DEF claim_next
<1>4. DOMAIN attempts[j] \cup {m} = 1..m /\ m \in 1..m /\ m \notin 1..Len(attempts[j])
  BY <1>2
<1>5. /\ DOMAIN attempts'[j] = 1..m
      /\ attempts'[j][m] = try
      /\ \A n \in 1..Len(attempts[j]) : attempts'[j][n] = attempts[j][n]
  BY <1>2, <1>3, <1>4
<1>6. attempts'[j][m].state = "running" /\ attempts'[j][m].failure_reason = NULL
  BY <1>5
<1>7. Rewrites(j, "running", attempts'[j])
  BY <1>1 DEF Rewrites
<1>8. Opens(p, j)
  BY <1>1, <1>5, <1>6, <1>7 DEF Opens, LastNo
<1> QED
  BY <1>8

-----------------------------------------------------------------------------
(* What a step does to the loops                                           *)

\* Who is idle holds nothing, and no process starts under a pid in use.
LEMMA IdleStep ==
    ASSUME WorkerTypeOK, IdleInv, PidsDiffer, [Next]_vars
    PROVE  IdleInv' /\ PidsDiffer'
<1> USE DEF WorkerTypeOK, LoopTypeOK, Alive, Absent, ExecutingAt, IdleInv, PidsDiffer
<1>1. ASSUME NEW p \in Procs, NEW at, pc' = [pc EXCEPT ![p] = at],
             pc[p] \notin Absent,
             \/ at \in {"dead", "hung"}
             \/ held[p] = NoClaim
             \/ at \in ExecutingAt,
             held' = held
      PROVE  IdleInv' /\ PidsDiffer'
  <2>1. \A q \in Procs : pc'[q] = IF q = p THEN at ELSE pc[q]
    BY <1>1
  <2>2. IdleInv'
    BY <1>1, <2>1
  <2>3. \A q \in Procs : Alive(q)' => Alive(q)
    BY <1>1, <2>1
  <2>4. PidsDiffer'
    BY <2>3
  <2> QED
    BY <2>2, <2>4
<1>2. ASSUME NEW p \in Procs, Claim(p) \/ Record(p)
      PROVE  IdleInv' /\ PidsDiffer'
  <2>1. CASE Claim(p)
    <3>1. PICK c : held' = [held EXCEPT ![p] = c]
      BY <2>1 DEF Claim
    <3>2. pc[p] = "claiming" /\ pc' = [pc EXCEPT ![p] = "spawning"]
      BY <2>1 DEF Claim
    <3> QED
      BY <3>1, <3>2
  <2>2. CASE Record(p)
    BY <2>2 DEF Record
  <2> QED
    BY <1>2, <2>1, <2>2
<1>3. ASSUME pc' = pc, held' = held
      PROVE  IdleInv' /\ PidsDiffer'
  BY <1>3
<1>4. ASSUME NEW p \in Procs, LoopStep(p), ~Claim(p), ~Record(p)
      PROVE  IdleInv' /\ PidsDiffer'
  <2>1. CASE ReapBegin(p) \/ ReapOne(p) \/ CheckOwner(p)
    <3>1. PICK at : pc' = [pc EXCEPT ![p] = at]
      BY <2>1 DEF ReapBegin, ReapOne, CheckOwner, DropFirst
    <3>2. pc[p] \in {"loop", "reaping", "confirmed"} /\ held' = held
      BY <2>1 DEF ReapBegin, ReapOne, CheckOwner
    <3> QED
      BY <1>1, <3>1, <3>2
  <2>2. CASE ClaimNothing(p) \/ Settle(p) \/ Stop(p)
    <3>1. PICK at : pc' = [pc EXCEPT ![p] = at]
      BY <2>2 DEF ClaimNothing, Settle, Stop
    <3>2. pc[p] \in {"loop", "claiming", "settling"} /\ held' = held
      BY <2>2 DEF ClaimNothing, Settle, Stop
    <3> QED
      BY <1>1, <3>1, <3>2
  <2>3. CASE Spawn(p) \/ SpawnFails(p)
    BY <1>1, <2>3 DEF Spawn, SpawnFails, Returns
  <2> QED
    BY <1>4, <2>1, <2>2, <2>3 DEF LoopStep
<1>5. ASSUME NEW p \in Procs, Start(p)
      PROVE  IdleInv' /\ PidsDiffer'
  BY <1>5 DEF Start, PidFree
<1>6. ASSUME NEW p \in Procs, BeatStep(p) \/ Environment(p), ~Start(p)
      PROVE  IdleInv' /\ PidsDiffer'
  <2>1. CASE Crash(p) \/ Hang(p)
    BY <1>1, <2>1 DEF Crash, Hang
  <2>2. CASE Signal(p) \/ ThreadDies(p) \/ Beat(p)
    BY <1>3, <2>2 DEF Signal, ThreadDies, Beat
  <2>3. CASE KillLost(p) \/ SignalAgain(p) \/ Timeout(p) \/ ChildEnds(p)
    <3>1. \/ pc' = pc
          \/ pc' = [pc EXCEPT ![p] = "recording"] /\ pc[p] \in ExecutingAt
      BY <2>3 DEF KillLost, SignalAgain, Timeout, ChildEnds, Returns
    <3>2. held' = held
      BY <2>3 DEF KillLost, SignalAgain, Timeout, ChildEnds
    <3> QED
      BY <1>1, <1>3, <3>1, <3>2
  <2> QED
    BY <1>6, <2>1, <2>2, <2>3 DEF BeatStep, Environment
<1>7. CASE \E pid \in Pids : ForeignStart(pid) \/ ForeignExit(pid)
  BY <1>3, <1>7 DEF ForeignStart, ForeignExit
<1>8. CASE UNCHANGED workerVars
  BY <1>3, <1>8 DEF workerVars
<1> QED
  BY <1>2, <1>4, <1>5, <1>6, <1>7, <1>8 DEF Next, vars

\* Only a claim and a record change what a worker holds.
LEMMA HeldStep ==
    ASSUME WorkerTypeOK, [Next]_vars,
           \A p \in Procs : ~Claim(p) /\ ~Record(p)
    PROVE  held' = held
<1>1. ASSUME NEW p \in Procs, LoopStep(p), ~Claim(p), ~Record(p)
      PROVE  held' = held
  BY <1>1 DEF LoopStep, ReapBegin, CheckOwner, ReapOne, ClaimNothing, Settle, Stop,
              Spawn, SpawnFails
<1>2. ASSUME NEW p \in Procs, BeatStep(p) \/ Environment(p)
      PROVE  held' = held
  BY <1>2 DEF BeatStep, Environment, Beat, KillLost, Start, Crash, Hang, Signal,
              SignalAgain, ChildEnds, Timeout, ThreadDies
<1>3. CASE \E pid \in Pids : ForeignStart(pid) \/ ForeignExit(pid)
  BY <1>3 DEF ForeignStart, ForeignExit
<1>4. CASE UNCHANGED workerVars
  BY <1>4 DEF workerVars
<1> QED
  BY <1>1, <1>2, <1>3, <1>4 DEF Next, vars
-----------------------------------------------------------------------------
(* The invariant                                                           *)

\* Types of the tables.
LEMMA TableFacts ==
    ASSUME PassInv, NEW j \in JobIds
    PROVE  /\ attempts[j] \in Seq(AttemptRow)
           /\ LastNo(j) \in Nat
           /\ DOMAIN attempts[j] = 1..LastNo(j)
           /\ \A n : <<j, n>> # NoClaim
<1>1. attempts[j] \in Seq(AttemptRow) /\ j \in 1..lastId /\ lastId \in Nat
  BY DEF PassInv, StoreInv, TypeOK
<1> QED
  BY <1>1, NextAttemptNoIsLen DEF PassInv, StoreInv, LastNo, NoClaim

\* What is held is a job id and the number of one of its attempts.
LEMMA HeldFacts ==
    ASSUME PassInv, NEW p \in Procs
    PROVE  /\ held[p] = <<held[p][1], held[p][2]>>
           /\ held[p][1] \in Nat /\ held[p][2] \in Nat
           /\ lastId \in Nat /\ held[p][1] <= lastId
           /\ held[p][1] \in JobIds => held[p][2] <= LastNo(held[p][1])
<1>1. held \in [Procs -> Nat \X Nat] /\ lastId \in Nat
  BY DEF PassInv, StoreInv, TypeOK, WorkerTypeOK, LoopTypeOK
<1>2. held[p] = <<held[p][1], held[p][2]>> /\ held[p][1] \in Nat /\ held[p][2] \in Nat
  BY <1>1
<1> QED
  BY <1>1, <1>2 DEF PassInv, ReapInv, HeldInv

\* What a live worker holds after a step that is no claim it held before,
\* alive.
LEMMA LiveBefore ==
    ASSUME PassInv, PassInv', LoopCalm, Calm, NEW p \in Procs, Alive(p)',
           held'[p][1] \in DOMAIN jobs'
    PROVE  /\ Alive(p) /\ held'[p] = held[p] /\ held[p] # NoClaim
           /\ held[p][1] \in JobIds
           /\ Len(attempts'[held[p][1]]) = LastNo(held[p][1])
<1>1. /\ lastId \in Nat
      /\ held[p][1] \in Nat /\ held[p][1] <= lastId
      /\ DOMAIN jobs' \subseteq 1..lastId'
  <2>1. lastId \in Nat /\ held[p][1] \in Nat /\ held[p][1] <= lastId
    BY HeldFacts
  <2>2. DOMAIN jobs' \subseteq 1..lastId'
    BY DEF PassInv, StoreInv, TypeOK, JobIds
  <2> QED
    BY <2>1, <2>2
<1>2. held'[p] # NoClaim
  BY <1>1 DEF NoClaim
<1>3. held'[p] = held[p] /\ held[p] # NoClaim
  BY <1>2 DEF LoopCalm
<1>4. Alive(p)
  BY <1>3 DEF LoopCalm, PassInv, ReapInv, HeldInv
<1>5. held[p][1] \in JobIds /\ Len(attempts'[held[p][1]]) = LastNo(held[p][1])
  BY <1>1, <1>3 DEF Calm, LastNo
<1> QED
  BY <1>3, <1>4, <1>5

\* Steps other than claims give no worker a new attempt and no job a new
\* lock.
LEMMA CalmKeepsGuard ==
    ASSUME PassInv, PassInv', OwnershipInv, LoopCalm, Calm
    PROVE  ClaimInv' /\ GuardInv'
<1>1. ClaimInv'
  BY DEF OwnershipInv, ClaimInv, LoopCalm
<1>2. GuardInv'
  <2> SUFFICES ASSUME NEW p \in Procs, Alive(p)', held'[p][1] \in DOMAIN jobs',
                      jobs'[held'[p][1]].state = "running",
                      jobs'[held'[p][1]].locked_pid = PidOf[p]
               PROVE  held'[p][2] = Len(attempts'[held'[p][1]])
    BY DEF GuardInv, LastNo, JobIds
  <2>1. /\ Alive(p) /\ held'[p] = held[p] /\ held[p][1] \in JobIds
        /\ Len(attempts'[held[p][1]]) = LastNo(held[p][1])
    BY LiveBefore
  <2>2. /\ jobs[held[p][1]].state = "running"
        /\ jobs[held[p][1]].locked_pid = PidOf[p]
    BY <2>1 DEF Calm
  <2>3. held[p][2] = LastNo(held[p][1])
    BY <2>1, <2>2 DEF OwnershipInv, GuardInv
  <2> QED
    BY <2>1, <2>3
<1> QED
  BY <1>1, <1>2

\* A job that a step does not touch: same attempts, same lock, and the
\* worker that holds it goes on holding it.
Spared(i) ==
    /\ attempts'[i] = attempts[i]
    /\ jobs'[i].state = "running" <=> jobs[i].state = "running"
    /\ jobs[i].state = "running" =>
         /\ jobs'[i].locked_by = jobs[i].locked_by
         /\ jobs'[i].locked_pid = jobs[i].locked_pid
         /\ \E p \in Procs : /\ Holds(p, i, LastNo(i)) /\ Holds(p, i, LastNo(i))'
                             /\ jobs[i].locked_by = WorkerIdOf[p]
                             /\ jobs[i].locked_pid = PidOf[p]

\* AttemptsMatchJob, for one job.
Matched(j) ==
    /\ \A no \in DOMAIN attempts[j] :
         attempts[j][no].state = "running" <=>
           jobs[j].state = "running" /\ no = LastNo(j)
    /\ jobs[j].state = "running" =>
         \E p \in Procs :
            /\ Holds(p, j, LastNo(j))
            /\ jobs[j].locked_by = WorkerIdOf[p]
            /\ jobs[j].locked_pid = PidOf[p]

\* A job that is not touched keeps its part of the invariant.
LEMMA SparedKeeps ==
    ASSUME AttemptsMatchJob, NEW i \in JobIds, Spared(i)
    PROVE  Matched(i)'
<1>1. Matched(i)
  BY DEF AttemptsMatchJob, Matched
<1>2. LastNo(i)' = LastNo(i)
  BY DEF Spared, LastNo
<1> QED
  BY <1>1, <1>2 DEF Spared, Matched

\* Steps that end no claim and open no attempt: what is held stays held,
\* unless it was lost before.
LEMMA SparingKeeps ==
    ASSUME PassInv, PassInv', OwnershipInv, LoopCalm, Calm,
           \A i \in DOMAIN jobs' :
              \/ i \in JobIds /\ Spared(i)
              \/ i \notin JobIds /\ jobs'[i].state # "running" /\ attempts'[i] = <<>>
    PROVE  LiveInv' /\ AttemptsMatchJob'
<1>1. AttemptsMatchJob'
  <2> SUFFICES ASSUME NEW i \in DOMAIN jobs' PROVE Matched(i)'
    BY DEF AttemptsMatchJob, Matched, JobIds
  <2>1. CASE i \in JobIds /\ Spared(i)
    BY <2>1, SparedKeeps DEF OwnershipInv
  <2>2. CASE jobs'[i].state # "running" /\ attempts'[i] = <<>>
    BY <2>2 DEF Matched
  <2> QED
    BY <2>1, <2>2
<1>2. ASSUME NEW p \in Procs, Alive(p)', held'[p][1] \in DOMAIN jobs'
      PROVE  \/ attempts'[held'[p][1]][held'[p][2]].state = "running"
             \/ attempts'[held'[p][1]][held'[p][2]].failure_reason = "canceled"
  BY <1>2, LiveBefore DEF OwnershipInv, LiveInv, Spared
<1>3. ASSUME NEW i \in DOMAIN jobs', NEW no \in DOMAIN attempts'[i],
             attempts'[i][no].state = "running"
      PROVE  attempts'[i][no].failure_reason = NULL
  BY <1>3 DEF OwnershipInv, LiveInv, Spared
<1>4. LiveInv'
  BY <1>2, <1>3 DEF LiveInv, JobIds
<1> QED
  BY <1>1, <1>4

\* The end of a claim closes the one open attempt, and leaves no live worker
\* with it unless an operator took it away.
LEMMA EndingKeeps ==
    ASSUME PassInv, PassInv', OwnershipInv, LoopCalm, Calm,
           NEW j \in JobIds, NEW to, NEW s, NEW r, Ends(j, to, s, r),
           \A q \in Procs : held'[q] = held[q] \/ Holds(q, j, LastNo(j)),
           \/ r = "canceled"
           \/ \A q \in Procs : Holds(q, j, LastNo(j)) => ~Alive(q) \/ held'[q] = NoClaim
    PROVE  LiveInv' /\ AttemptsMatchJob'
<1> DEFINE no == LastNo(j)
<1>0. /\ no \in DOMAIN attempts[j] /\ jobs[j].state = "running"
      /\ \A n \in DOMAIN attempts[j] : attempts[j][n].state = "running" <=> n = no
      /\ attempts[j] \in Seq(AttemptRow)
  BY ClosingIsLast, TableFacts DEF Ends, OwnershipInv, AttemptsMatchJob
<1>1. /\ DOMAIN attempts'[j] = DOMAIN attempts[j]
      /\ attempts'[j][no].state = s /\ attempts'[j][no].failure_reason = r
      /\ \A n \in DOMAIN attempts[j] \ {no} : attempts'[j][n] = attempts[j][n]
      /\ jobs'[j].state # "running" /\ s # "running" /\ DOMAIN jobs' = JobIds
  BY <1>0 DEF Ends, Rewrites, CloseLast, AttemptRow
<1>2. \A i \in JobIds \ {j} : Spared(i)
  <2> SUFFICES ASSUME NEW i \in JobIds, i # j PROVE Spared(i)
    OBVIOUS
  <2>1. jobs'[i] = jobs[i] /\ attempts'[i] = attempts[i] /\ LastNo(i)' = LastNo(i)
    BY DEF Ends, Rewrites, LastNo
  <2>2. \A q \in Procs : Holds(q, i, LastNo(i)) => held'[q] = held[q]
    BY DEF Holds
  <2> QED
    BY <2>1, <2>2 DEF Spared, OwnershipInv, AttemptsMatchJob, Holds
<1>3. AttemptsMatchJob'
  <2> SUFFICES ASSUME NEW i \in JobIds PROVE Matched(i)'
    BY <1>1 DEF AttemptsMatchJob, Matched, JobIds
  <2>1. CASE i = j
    BY <1>0, <1>1, <2>1 DEF Matched
  <2>2. CASE i # j
    BY <1>2, <2>2, SparedKeeps DEF OwnershipInv
  <2> QED
    BY <2>1, <2>2
<1>4. ASSUME NEW p \in Procs, Alive(p)', held'[p][1] \in DOMAIN jobs'
      PROVE  \/ attempts'[held'[p][1]][held'[p][2]].state = "running"
             \/ attempts'[held'[p][1]][held'[p][2]].failure_reason = "canceled"
  <2>1. /\ Alive(p) /\ held'[p] = held[p] /\ held[p] # NoClaim
        /\ held[p][1] \in JobIds
    BY <1>4, LiveBefore
  <2>2. \/ attempts[held[p][1]][held[p][2]].state = "running"
        \/ attempts[held[p][1]][held[p][2]].failure_reason = "canceled"
    BY <2>1 DEF OwnershipInv, LiveInv
  <2>3. CASE held[p][1] # j
    BY <1>2, <2>1, <2>2, <2>3 DEF Spared
  <2>4. CASE held[p][1] = j /\ held[p][2] # no
    <3>1. held[p][2] \in DOMAIN attempts[j]
      <4>1. held[p][2] > 0 /\ held[p][2] <= LastNo(j) /\ held[p][2] \in Nat
        BY <2>1, <2>4, HeldFacts DEF OwnershipInv, ClaimInv
      <4>2. DOMAIN attempts[j] = 1..LastNo(j) /\ LastNo(j) \in Nat
        BY TableFacts
      <4> QED
        BY <4>1, <4>2
    <3> QED
      BY <1>1, <2>1, <2>2, <2>4, <3>1
  <2>5. CASE held[p][1] = j /\ held[p][2] = no
    <3>1. Holds(p, j, no)
      BY <2>5, HeldFacts DEF Holds
    <3>2. r = "canceled"
      BY <2>1, <3>1
    <3> QED
      BY <1>1, <2>1, <2>5, <3>2
  <2> QED
    BY <2>3, <2>4, <2>5
<1>5. ASSUME NEW i \in JobIds, NEW n \in DOMAIN attempts'[i],
             attempts'[i][n].state = "running"
      PROVE  attempts'[i][n].failure_reason = NULL
  <2>1. CASE i = j
    BY <1>0, <1>1, <1>5, <2>1
  <2>2. CASE i # j
    BY <1>2, <1>5, <2>2 DEF Spared, OwnershipInv, LiveInv
  <2> QED
    BY <2>1, <2>2
<1>6. LiveInv'
  BY <1>1, <1>4, <1>5 DEF LiveInv, JobIds
<1> QED
  BY <1>3, <1>6

\* A claim opens an attempt that nobody can have held before, under a pid
\* that no other live worker has.
LEMMA OpeningKeeps ==
    ASSUME PassInv, PassInv', OwnershipInv, NEW p \in Procs, Claim(p)
    PROVE  ClaimInv' /\ GuardInv' /\ LiveInv' /\ AttemptsMatchJob'
<1>1. PICK j \in JobIds : Opens(p, j)
  BY ClaimKind
<1> DEFINE no == LastNo(j) + 1
<1>2. /\ LastNo(j) \in Nat /\ DOMAIN attempts[j] = 1..LastNo(j)
      /\ \A n : <<j, n>> # NoClaim
  BY TableFacts
<1>3. /\ DOMAIN jobs' = JobIds /\ jobs'[j].state = "running" /\ jobs[j].state = "queued"
      /\ jobs'[j].locked_by = WorkerIdOf[p] /\ jobs'[j].locked_pid = PidOf[p]
      /\ DOMAIN attempts'[j] = 1..no /\ Len(attempts'[j]) = no
      /\ attempts'[j][no].state = "running" /\ attempts'[j][no].failure_reason = NULL
      /\ \A n \in 1..LastNo(j) : attempts'[j][n] = attempts[j][n]
      /\ \A i \in JobIds \ {j} : jobs'[i] = jobs[i] /\ attempts'[i] = attempts[i]
  BY <1>1 DEF Opens, Rewrites
<1>4. /\ held'[p] = <<j, no>> /\ held[p] = NoClaim
      /\ \A q \in Procs \ {p} : held'[q] = held[q]
  <2>1. held \in [Procs -> Nat \X Nat] /\ held' = [held EXCEPT ![p] = <<j, no>>]
    BY <1>1 DEF PassInv, WorkerTypeOK, LoopTypeOK, Opens
  <2>2. held[p] = NoClaim
    BY DEF Claim, OwnershipInv, IdleInv, ExecutingAt
  <2> QED
    BY <2>1, <2>2
<1>5. \A q \in Procs : Alive(q)' = Alive(q)
  BY DEF Claim, PassInv, WorkerTypeOK, LoopTypeOK, Alive, Absent
<1>6. Alive(p)
  BY DEF Claim, Alive, Absent
<1>7. \A q \in Procs \ {p} : held[q] # <<j, no>>
  <2> SUFFICES ASSUME NEW q \in Procs, q # p, held[q] = <<j, no>> PROVE FALSE
    OBVIOUS
  <2>1. held[q][2] <= LastNo(j)
    BY HeldFacts
  <2> QED
    BY <1>2, <2>1
<1>8. ClaimInv'
  <2> SUFFICES ASSUME NEW q \in Procs, held'[q] # NoClaim
               PROVE  /\ held'[q][2] > 0
                      /\ \A r \in Procs : held'[r] = held'[q] => r = q
    BY DEF ClaimInv
  <2>1. CASE q = p
    BY <1>2, <1>4, <1>7, <2>1
  <2>2. CASE q # p
    BY <1>2, <1>4, <1>7, <2>2 DEF OwnershipInv, ClaimInv
  <2> QED
    BY <2>1, <2>2
<1>9. GuardInv'
  <2> SUFFICES ASSUME NEW q \in Procs, Alive(q), held'[q][1] \in JobIds,
                      jobs'[held'[q][1]].state = "running",
                      jobs'[held'[q][1]].locked_pid = PidOf[q]
               PROVE  held'[q][2] = Len(attempts'[held'[q][1]])
    BY <1>3, <1>5 DEF GuardInv, LastNo, JobIds
  <2>1. CASE q = p
    BY <1>3, <1>4, <2>1
  <2>2. CASE q # p
    <3>1. held[q][1] # j
      BY <1>3, <1>4, <1>6, <2>2 DEF OwnershipInv, PidsDiffer
    <3> QED
      BY <1>3, <1>4, <2>2, <3>1 DEF OwnershipInv, GuardInv, LastNo
  <2> QED
    BY <2>1, <2>2
<1>10. ASSUME NEW q \in Procs, Alive(q), held'[q][1] \in JobIds
       PROVE  \/ attempts'[held'[q][1]][held'[q][2]].state = "running"
              \/ attempts'[held'[q][1]][held'[q][2]].failure_reason = "canceled"
  <2>1. CASE q = p
    BY <1>3, <1>4, <2>1
  <2>2. CASE q # p
    <3>1. /\ held'[q] = held[q]
          /\ \/ attempts[held[q][1]][held[q][2]].state = "running"
             \/ attempts[held[q][1]][held[q][2]].failure_reason = "canceled"
      BY <1>4, <1>10, <2>2 DEF OwnershipInv, LiveInv
    <3>2. CASE held[q][1] = j
      <4>1. held[q] # NoClaim
        BY <1>2, <3>2, HeldFacts
      <4>2. held[q][2] > 0 /\ held[q][2] <= LastNo(j) /\ held[q][2] \in Nat
        BY <3>2, <4>1, HeldFacts DEF OwnershipInv, ClaimInv
      <4>3. held[q][2] \in 1..LastNo(j)
        BY <1>2, <4>2
      <4> QED
        BY <1>3, <3>1, <3>2, <4>3
    <3>3. CASE held[q][1] # j
      BY <1>3, <1>10, <3>1, <3>3
    <3> QED
      BY <3>2, <3>3
  <2> QED
    BY <2>1, <2>2
<1>11. ASSUME NEW i \in JobIds, NEW n \in DOMAIN attempts'[i],
              attempts'[i][n].state = "running"
       PROVE  attempts'[i][n].failure_reason = NULL
  <2>1. CASE i = j /\ n = no
    BY <1>3, <2>1
  <2>2. CASE i = j /\ n # no
    <3>1. n \in 1..LastNo(j)
      BY <1>2, <1>3, <2>2
    <3> QED
      BY <1>2, <1>3, <1>11, <2>2, <3>1 DEF OwnershipInv, LiveInv
  <2>3. CASE i # j
    BY <1>3, <1>11, <2>3 DEF OwnershipInv, LiveInv
  <2> QED
    BY <2>1, <2>2, <2>3
<1>12. LiveInv'
  BY <1>3, <1>5, <1>10, <1>11 DEF LiveInv, JobIds
<1>13. AttemptsMatchJob'
  <2> SUFFICES ASSUME NEW i \in JobIds PROVE Matched(i)'
    BY <1>3 DEF AttemptsMatchJob, Matched, JobIds
  <2>1. CASE i = j
    <3>1. ASSUME NEW n \in DOMAIN attempts'[j]
          PROVE  attempts'[j][n].state = "running" <=> n = no
      <4>1. CASE n = no
        BY <1>3, <4>1
      <4>2. CASE n # no
        <5>1. n \in 1..LastNo(j)
          BY <1>2, <1>3, <4>2
        <5>2. attempts[j][n].state # "running"
          BY <1>2, <1>3, <5>1 DEF OwnershipInv, AttemptsMatchJob
        <5> QED
          BY <1>3, <4>2, <5>1, <5>2
      <4> QED
        BY <4>1, <4>2
    <3> QED
      BY <1>3, <1>4, <2>1, <3>1 DEF Matched, Holds, LastNo
  <2>2. CASE i # j
    <3>1. \A q \in Procs : Holds(q, i, LastNo(i)) => held'[q] = held[q]
      BY <1>4, <2>2, TableFacts DEF Holds
    <3>2. jobs'[i] = jobs[i] /\ attempts'[i] = attempts[i] /\ LastNo(i)' = LastNo(i)
      BY <1>3, <2>2 DEF LastNo
    <3>3. Spared(i)
      BY <3>1, <3>2 DEF Spared, OwnershipInv, AttemptsMatchJob, Holds
    <3> QED
      BY <3>3, SparedKeeps DEF OwnershipInv
  <2> QED
    BY <2>1, <2>2
<1> QED
  BY <1>8, <1>9, <1>12, <1>13

\* A step that touches no job with an owner, and takes nothing from a worker
\* but what it has lost.
LEMMA SparedByAll ==
    ASSUME PassInv, OwnershipInv,
           Adds \/ Removes \/ LeavesAlone
             \/ \E j \in JobIds : \E from, to : Moves(j, from, to),
           \A q \in Procs :
              held'[q] = held[q] \/ ~Owns(held[q][1], WorkerIdOf[q], PidOf[q])
    PROVE  \A i \in DOMAIN jobs' :
              \/ i \in JobIds /\ Spared(i)
              \/ i \notin JobIds /\ jobs'[i].state # "running" /\ attempts'[i] = <<>>
<1>1. ASSUME NEW i \in JobIds, attempts'[i] = attempts[i],
             jobs'[i].state = "running" <=> jobs[i].state = "running",
             jobs[i].state = "running" =>
               /\ jobs'[i].locked_by = jobs[i].locked_by
               /\ jobs'[i].locked_pid = jobs[i].locked_pid
      PROVE  Spared(i)
  <2>1. CASE jobs[i].state = "running"
    <3>1. PICK q \in Procs : /\ Holds(q, i, LastNo(i))
                            /\ jobs[i].locked_by = WorkerIdOf[q]
                            /\ jobs[i].locked_pid = PidOf[q]
      BY <2>1 DEF OwnershipInv, AttemptsMatchJob
    <3>2. held[q][1] = i
      BY <3>1 DEF Holds
    <3>3. held'[q] = held[q]
      BY <2>1, <3>1, <3>2 DEF Owns
    <3> QED
      BY <1>1, <3>1, <3>3 DEF Spared, Holds, LastNo
  <2>2. CASE jobs[i].state # "running"
    BY <1>1, <2>2 DEF Spared
  <2> QED
    BY <2>1, <2>2
<1>2. CASE Adds
  BY <1>1, <1>2 DEF Adds, PassInv, StoreInv, TypeOK
<1>3. CASE Removes
  BY <1>1, <1>3 DEF Removes
<1>4. CASE LeavesAlone
  BY <1>1, <1>4 DEF LeavesAlone
<1>5. ASSUME NEW j \in JobIds, NEW from, NEW to, Moves(j, from, to)
      PROVE  \A i \in DOMAIN jobs' : i \in JobIds /\ Spared(i)
  BY <1>1, <1>5 DEF Moves, Rewrites
<1> QED
  BY <1>2, <1>3, <1>4, <1>5

\* What is not a claim, a record or a reap that goes through.
LEMMA OtherKinds ==
    ASSUME PassInv, OwnershipInv, [Next]_vars,
           \A p \in Procs : ~Claim(p) /\ ~Record(p) /\ ~ReapOne(p)
    PROVE  LeavesAlone \/ (ClientNext /\ UNCHANGED workerVars)
<1>1. ASSUME NEW p \in Procs, LoopStep(p), ~Claim(p), ~Record(p), ~ReapOne(p)
      PROVE  UNCHANGED storeVars
  BY <1>1 DEF LoopStep, ReapBegin, CheckOwner, ClaimNothing, Settle, Stop, Spawn, SpawnFails
<1>2. ASSUME NEW p \in Procs, Beat(p)
      PROVE  LeavesAlone
  BY <1>2, BeatKind, IdleKind DEF Beat, PassInv
<1>3. ASSUME NEW p \in Procs, KillLost(p) \/ Environment(p)
      PROVE  UNCHANGED storeVars
  BY <1>3 DEF KillLost, Environment, Start, Crash, Hang, Signal, SignalAgain,
              ChildEnds, Timeout, ThreadDies
<1>4. ASSUME NEW pid \in Pids, ForeignStart(pid) \/ ForeignExit(pid)
      PROVE  UNCHANGED storeVars
  BY <1>4 DEF ForeignStart, ForeignExit
<1>5. CASE UNCHANGED vars
  BY <1>5, IdleKind DEF vars
<1>6. CASE Next
  BY <1>1, <1>2, <1>3, <1>4, <1>6, IdleKind DEF Next, BeatStep
<1> QED
  BY <1>5, <1>6

\* Every step of the system keeps the invariant.
LEMMA SystemStep == SystemInv /\ [Next]_vars => SystemInv'
<1> SUFFICES ASSUME SystemInv, [Next]_vars PROVE SystemInv'
  OBVIOUS
<1>1. PassInv /\ OwnershipInv /\ PassInv'
  BY PassStep DEF SystemInv
<1>2. IdleInv' /\ PidsDiffer'
  BY <1>1, IdleStep DEF PassInv, OwnershipInv
<1>3. ASSUME NEW p \in Procs, Claim(p)
      PROVE  ClaimInv' /\ GuardInv' /\ LiveInv' /\ AttemptsMatchJob'
  BY <1>1, <1>3, OpeningKeeps
<1>4. ASSUME \A p \in Procs : ~Claim(p)
      PROVE  ClaimInv' /\ GuardInv' /\ LiveInv' /\ AttemptsMatchJob'
  <2>1. Calm
    BY <1>1, <1>4, StepFacts DEF PassInv
  <2>2. LoopCalm
    BY <1>1, <1>4, LoopStepIsCalm, OtherStepIsCalm, RestIsCalm DEF Next, vars, PassInv
  <2>3. ClaimInv' /\ GuardInv'
    BY <1>1, <2>1, <2>2, CalmKeepsGuard
  <2>4. ASSUME NEW p \in Procs, Record(p)
        PROVE  LiveInv' /\ AttemptsMatchJob'
    <3>1. held'[p] = NoClaim /\ \A q \in Procs \ {p} : held'[q] = held[q]
      <4>1. held \in [Procs -> Nat \X Nat] /\ held' = [held EXCEPT ![p] = NoClaim]
        BY <1>1, <2>4 DEF Record, PassInv, WorkerTypeOK, LoopTypeOK
      <4> QED
        BY <4>1
    <3>2. ASSUME NEW j \in JobIds, RecordsOutcome(p, j)
          PROVE  LiveInv' /\ AttemptsMatchJob'
      <4>1. Holds(p, j, LastNo(j)) /\ held[p] # NoClaim
        BY <1>1, <3>2, TableFacts DEF RecordsOutcome, Holds
      <4>2. \A q \in Procs : Holds(q, j, LastNo(j)) => q = p
        BY <1>1, <4>1 DEF OwnershipInv, ClaimInv, Holds
      <4>3. PICK to, st, r : Ends(j, to, st, r)
        BY <3>2 DEF RecordsOutcome
      <4> QED
        BY <1>1, <2>1, <2>2, <3>1, <4>1, <4>2, <4>3, EndingKeeps
    <3>3. CASE LeavesAlone /\ ~Owns(held[p][1], WorkerIdOf[p], PidOf[p])
      <4>1. \A q \in Procs :
               held'[q] = held[q] \/ ~Owns(held[q][1], WorkerIdOf[q], PidOf[q])
        BY <3>1, <3>3
      <4> QED
        BY <1>1, <2>1, <2>2, <3>3, <4>1, SparedByAll, SparingKeeps
    <3> QED
      BY <1>1, <2>4, <3>2, <3>3, RecordKinds
  <2>5. ASSUME \A p \in Procs : ~Record(p)
        PROVE  LiveInv' /\ AttemptsMatchJob'
    <3>1. held' = held
      BY <1>1, <1>4, <2>5, HeldStep DEF PassInv
    <3>2. ASSUME NEW p \in Procs, ReapOne(p)
          PROVE  LiveInv' /\ AttemptsMatchJob'
      <4>1. CASE LeavesAlone
        BY <1>1, <2>1, <2>2, <3>1, <4>1, SparedByAll, SparingKeeps
      <4>2. ASSUME NEW j \in JobIds, NEW to, Ends(j, to, "abandoned", "worker_crash"),
                   \A q \in Procs : Holds(q, j, LastNo(j)) => ~Alive(q)
            PROVE  LiveInv' /\ AttemptsMatchJob'
        BY <1>1, <2>1, <2>2, <3>1, <4>2, EndingKeeps
      <4> QED
        BY <1>1, <3>2, <4>1, <4>2, ReapKinds
    <3>3. CASE LeavesAlone
      BY <1>1, <2>1, <2>2, <3>1, <3>3, SparedByAll, SparingKeeps
    <3>4. CASE ClientNext
      <4>1. CASE Adds \/ Removes \/ \E j \in JobIds : \E from, to : Moves(j, from, to)
        BY <1>1, <2>1, <2>2, <3>1, <4>1, SparedByAll, SparingKeeps
      <4>2. ASSUME NEW j \in JobIds, NEW to, NEW st, Ends(j, to, st, "canceled")
            PROVE  LiveInv' /\ AttemptsMatchJob'
        BY <1>1, <2>1, <2>2, <3>1, <4>2, EndingKeeps
      <4> QED
        BY <1>1, <3>4, <4>1, <4>2, ClientKinds
    <3> QED
      BY <1>1, <1>4, <2>5, <3>2, <3>3, <3>4, OtherKinds
  <2> QED
    BY <2>3, <2>4, <2>5
<1> QED
  BY <1>1, <1>2, <1>3, <1>4 DEF SystemInv, OwnershipInv

LEMMA SystemInit == Init => SystemInv
<1> SUFFICES ASSUME Init PROVE SystemInv
  OBVIOUS
<1>1. PassInv
  BY PassInit
<1>2. OwnershipInv
  BY DEF Init, StoreInit, WorkerInit, OwnershipInv, IdleInv, PidsDiffer, ClaimInv, GuardInv,
         LiveInv, AttemptsMatchJob, Alive, Absent, JobIds
<1> QED
  BY <1>1, <1>2 DEF SystemInv

\* In every reachable state the tables, the lock columns and the workers'
\* own idea of what they execute fit together.
THEOREM SystemIsSafe == Spec => []SystemInv
  BY SystemInit, SystemStep, PTL DEF Spec

\* A running job has one open attempt, its last, opened by the process whose
\* identity locks the row; any other job has none.
THEOREM OneOpenAttempt == Spec => []AttemptsMatchJob
<1>1. SystemInv => AttemptsMatchJob
  BY DEF SystemInv, OwnershipInv
<1> QED
  BY <1>1, SystemIsSafe, PTL

\* A worker that ends by itself leaves no claim behind.
THEOREM NothingLeftBehind == Spec => []CleanExitHoldsNothing
<1>1. SystemInv => CleanExitHoldsNothing
  BY DEF SystemInv, OwnershipInv, IdleInv, CleanExitHoldsNothing, ExecutingAt
<1> QED
  BY <1>1, SystemIsSafe, PTL

\* Two live workers execute the same job only after an operator took it from
\* one of them: never by a reap, a recycled pid or a stalled heartbeat.
THEOREM NoOverlap == Spec => []OverlapOnlyByOperator
<1>1. SystemInv => OverlapOnlyByOperator
  <2> SUFFICES ASSUME SystemInv, NEW p \in Procs, NEW q \in Procs, p # q,
                      Executing(p), Executing(q), held[p][1] = held[q][1],
                      ~Revoked(p), ~Revoked(q)
               PROVE  FALSE
    BY DEF OverlapOnlyByOperator
  <2>1. PassInv /\ OwnershipInv
    BY DEF SystemInv
  <2> DEFINE j == held[p][1]
  <2>2. ASSUME NEW r \in Procs, Executing(r), ~Revoked(r)
        PROVE  /\ held[r][1] \in JobIds
               /\ held[r] = <<held[r][1], LastNo(held[r][1])>>
               /\ held[r] # NoClaim
    <3>1. /\ held[r][1] \in JobIds
          /\ attempts[held[r][1]][held[r][2]].failure_reason # "canceled"
      BY <2>2 DEF Revoked
    <3>2. Alive(r) /\ held[r] # NoClaim
      BY <2>1, <2>2 DEF Executing, Alive, Absent, PassInv, WorkerTypeOK, ExecutingAt
    <3>3. attempts[held[r][1]][held[r][2]].state = "running"
      BY <2>1, <3>1, <3>2 DEF OwnershipInv, LiveInv
    <3>4. held[r][2] \in DOMAIN attempts[held[r][1]]
      <4>1. held[r][2] > 0 /\ held[r][2] <= LastNo(held[r][1]) /\ held[r][2] \in Nat
        BY <2>1, <3>1, <3>2, HeldFacts DEF OwnershipInv, ClaimInv
      <4>2. /\ DOMAIN attempts[held[r][1]] = 1..LastNo(held[r][1])
            /\ LastNo(held[r][1]) \in Nat
        BY <2>1, <3>1, TableFacts
      <4> QED
        BY <4>1, <4>2
    <3>5. held[r][2] = LastNo(held[r][1])
      BY <2>1, <3>1, <3>3, <3>4 DEF OwnershipInv, AttemptsMatchJob
    <3> QED
      BY <2>1, <3>1, <3>2, <3>5, HeldFacts
  <2>3. held[p] = held[q] /\ held[p] # NoClaim
    BY <2>2
  <2> QED
    BY <2>1, <2>3 DEF OwnershipInv, ClaimInv
<1> QED
  BY <1>1, SystemIsSafe, PTL
-----------------------------------------------------------------------------
(* Outcomes                                                                *)

\* The first event a step adds to a job is no outcome of a command.
NoOutcome ==
    \A j \in JobIds \cap DOMAIN jobs' :
        Len(log'[j]) > Len(log[j]) =>
            log'[j][Len(log[j]) + 1] \notin {"succeeded", "failed", "timed_out"}

\* The first of the events e and what follows it, appended to a log.
LEMMA FirstAppended ==
    ASSUME NEW events \in Seq(JobEventTypes), NEW e \in JobEventTypes,
           NEW x \in BOOLEAN
    PROVE  /\ Append(events, e)[Len(events) + 1] = e
           /\ (events \o FailureEvents(e, x))[Len(events) + 1] = e
<1>1. FailureEvents(e, x) \in Seq(JobEventTypes) /\ FailureEvents(e, x)[1] = e
      /\ Len(FailureEvents(e, x)) \in {1, 2}
  <2>1. "dead" \in JobEventTypes
    BY DEF JobEventTypes
  <2>2. CASE x
    <3>1. FailureEvents(e, x) = <<e, "dead">>
      BY <2>2 DEF FailureEvents
    <3> QED
      BY <2>1, <3>1
  <2>3. CASE ~x
    <3>1. FailureEvents(e, x) = <<e>>
      BY <2>3 DEF FailureEvents
    <3> QED
      BY <3>1
  <2> QED
    BY <2>2, <2>3
<1> HIDE DEF FailureEvents
<1>2. Len(events) \in Nat
  OBVIOUS
<1>3. (events \o FailureEvents(e, x))[Len(events) + 1] = FailureEvents(e, x)[1]
  BY <1>1, <1>2
<1> QED
  BY <1>1, <1>3

\* A step that appends another event to one log.
LEMMA OtherEvent ==
    ASSUME StoreInv, NEW j \in JobIds, DOMAIN jobs' = JobIds,
           NEW e \in JobEventTypes \ {"succeeded", "failed", "timed_out"},
           NEW x \in BOOLEAN,
           \/ log' = [log EXCEPT ![j] = Append(@, e)]
           \/ log' = [log EXCEPT ![j] = @ \o FailureEvents(e, x)]
    PROVE  NoOutcome
<1>1. log \in [JobIds -> Seq(JobEventTypes)]
  BY DEF StoreInv, TypeOK
<1>2. \A i \in JobIds \ {j} : log'[i] = log[i] /\ Len(log[i]) \in Nat
  BY <1>1
<1>3. log'[j][Len(log[j]) + 1] = e
  <2>1. log'[j] = Append(log[j], e) \/ log'[j] = log[j] \o FailureEvents(e, x)
    BY <1>1
  <2>2. log[j] \in Seq(JobEventTypes)
    BY <1>1
  <2>3. /\ Append(log[j], e)[Len(log[j]) + 1] = e
        /\ (log[j] \o FailureEvents(e, x))[Len(log[j]) + 1] = e
    BY <2>2, FirstAppended
  <2> QED
    BY <2>1, <2>3
<1> QED
  BY <1>2, <1>3 DEF NoOutcome

\* A step that leaves the logs of the remaining jobs alone.
LEMMA SameEvents ==
    ASSUME StoreInv, \A i \in JobIds \cap DOMAIN jobs' : log'[i] = log[i]
    PROVE  NoOutcome
<1>1. \A i \in JobIds : Len(log[i]) \in Nat
  BY DEF StoreInv, TypeOK
<1> QED
  BY <1>1 DEF NoOutcome

\* Only a worker that records writes an outcome.
LEMMA OthersWriteNoOutcome ==
    ASSUME PassInv, [Next]_vars, \A p \in Procs : ~Record(p)
    PROVE  NoOutcome
<1>0. /\ StoreInv /\ log \in [JobIds -> Seq(JobEventTypes)]
      /\ JobIds \subseteq 1..lastId /\ lastId \in Nat
  BY DEF PassInv, StoreInv, TypeOK
<1>1. ASSUME \/ UNCHANGED storeVars \/ Tick
             \/ \E j, w, pid : update_heartbeat(j, w, pid, clock)
      PROVE  NoOutcome
  BY <1>0, <1>1, SameEvents DEF storeVars, Tick, update_heartbeat
<1>2. ASSUME NEW j \in JobIds, NEW w, NEW pid, NEW lane,
             claim_next(j, w, pid, lane, clock)
      PROVE  NoOutcome
  <2>1. DOMAIN jobs' = JobIds /\ log' = [log EXCEPT ![j] = Append(@, "claimed")]
    BY <1>2 DEF claim_next, JobIds
  <2> QED
    BY <1>0, <2>1, OtherEvent DEF JobEventTypes
<1>3. ASSUME NEW j, NEW pid, NEW cutoff, NEW t, reap(j, pid, cutoff, t)
      PROVE  NoOutcome
  <2> DEFINE x == CrashesExhausted(jobs[j])
  <2>1. /\ j \in JobIds /\ DOMAIN jobs' = JobIds
        /\ log' = [log EXCEPT ![j] = @ \o FailureEvents("reaped", x)]
    BY <1>3 DEF reap, Reapable, JobIds
  <2>2. x \in BOOLEAN
    BY DEF CrashesExhausted
  <2> HIDE DEF x
  <2>3. "reaped" \in JobEventTypes \ {"succeeded", "failed", "timed_out"}
    BY DEF JobEventTypes
  <2> QED
    BY <1>0, <2>1, <2>2, <2>3, OtherEvent
<1>4. ASSUME NEW s \in Specs, NEW delay \in Delays, add_job_checked(s, delay, clock)
      PROVE  NoOutcome
  <2>1. \A i \in JobIds : log'[i] = log[i]
    BY <1>0, <1>4 DEF add_job_checked
  <2> QED
    BY <1>0, <2>1, SameEvents
<1>5. ASSUME NEW j \in JobIds, NEW allow, cancel_job(j, allow, clock)
      PROVE  NoOutcome
  <2>1. DOMAIN jobs' = JobIds /\ log' = [log EXCEPT ![j] = Append(@, "canceled")]
    BY <1>5 DEF cancel_job, JobIds
  <2> QED
    BY <1>0, <2>1, OtherEvent DEF JobEventTypes
<1>6. ASSUME NEW j \in JobIds, NEW force, retry_job(j, force, clock)
      PROVE  NoOutcome
  <2>1. DOMAIN jobs' = JobIds /\ log' = [log EXCEPT ![j] = Append(@, "retried")]
    BY <1>6 DEF retry_job, JobIds
  <2> QED
    BY <1>0, <2>1, OtherEvent DEF JobEventTypes
<1>7. ASSUME NEW ids, NEW states, NEW cutoff, prune_delete(ids, states, cutoff)
      PROVE  NoOutcome
  BY <1>0, <1>7, SameEvents DEF prune_delete
<1>8. ClientNext => NoOutcome
  BY <1>4, <1>5, <1>6, <1>7 DEF ClientNext
<1>9. ASSUME NEW p \in Procs, LoopStep(p), ~Record(p)
      PROVE  NoOutcome
  BY <1>1, <1>2, <1>3, <1>9
  DEF LoopStep, ReapBegin, CheckOwner, ReapOne, Claim, ClaimNothing, Settle, Stop,
      Spawn, SpawnFails
<1>10. ASSUME NEW p \in Procs, BeatStep(p) \/ Environment(p)
       PROVE  NoOutcome
  BY <1>1, <1>10 DEF BeatStep, Beat, KillLost, Environment, Start, Crash, Hang, Signal,
              SignalAgain, ChildEnds, Timeout, ThreadDies
<1>11. ASSUME NEW pid \in Pids, ForeignStart(pid) \/ ForeignExit(pid)
       PROVE  NoOutcome
  BY <1>1, <1>11 DEF ForeignStart, ForeignExit
<1> QED
  BY <1>1, <1>8, <1>9, <1>10, <1>11 DEF Next, vars

\* One step writes an outcome only for the worker that holds the attempt.
LEMMA OutcomeStep == SystemInv /\ [Next]_vars => RecordsForHolder
<1> SUFFICES ASSUME SystemInv, [Next]_vars,
                    NEW j \in JobIds, j \in DOMAIN jobs',
                    Len(log'[j]) > Len(log[j]),
                    log'[j][Len(log[j]) + 1] \in {"succeeded", "failed", "timed_out"}
             PROVE  \E p \in Procs :
                       /\ pc[p] = "recording"
                       /\ Holds(p, j, LastNo(j))
                       /\ attempts[j][LastNo(j)].state = "running"
                       /\ attempts'[j][LastNo(j)].state = log'[j][Len(log[j]) + 1]
  BY DEF RecordsForHolder
<1>1. /\ PassInv /\ OwnershipInv /\ StoreInv
      /\ log \in [JobIds -> Seq(JobEventTypes)] /\ log[j] \in Seq(JobEventTypes)
  BY DEF SystemInv, PassInv, StoreInv, TypeOK
<1>2. PICK p \in Procs : Record(p)
  BY <1>1, OthersWriteNoOutcome DEF NoOutcome
<1>3. ~ UNCHANGED storeVars
  <2>1. Len(log[j]) \in Nat
    BY <1>1
  <2> QED
    BY <2>1 DEF storeVars
<1>4. PICK i \in JobIds : RecordsOutcome(p, i)
  <2>1. CASE record_success(held[p][1], held[p][2], WorkerIdOf[p], PidOf[p], clock)
    BY <1>1, <1>2, <2>1, RecordKinds DEF record_success
  <2>2. CASE record_failure(held[p][1], held[p][2], WorkerIdOf[p], PidOf[p], result[p], clock)
    BY <1>1, <1>2, <2>2, RecordKinds DEF record_failure
  <2> QED
    BY <1>2, <1>3, <2>1, <2>2 DEF Record
<1>5. PICK s \in {"succeeded", "failed", "timed_out"} :
         /\ \E to, r : Ends(i, to, s, r)
         /\ \/ log' = [log EXCEPT ![i] = Append(@, s)]
            \/ \E x \in BOOLEAN : log' = [log EXCEPT ![i] = @ \o FailureEvents(s, x)]
  <2>1. ASSUME NEW to \in {"queued", "dead"}, NEW r \in Reasons
        PROVE  /\ FailureKind(r) \in {"succeeded", "failed", "timed_out"}
               /\ (to = "dead") \in BOOLEAN
    BY DEF FailureKind
  <2> QED
    BY <1>4, <2>1 DEF RecordsOutcome
<1>6. i = j
  <2>1. CASE i # j
    <3>1. log'[j] = log[j] /\ Len(log[j]) \in Nat
      BY <1>1, <1>5, <2>1
    <3> QED
      BY <3>1
  <2> QED
    BY <2>1
<1>7. log'[j][Len(log[j]) + 1] = s
  <2>1. s \in JobEventTypes
    BY DEF JobEventTypes
  <2>2. \/ log'[j] = Append(log[j], s)
        \/ \E x \in BOOLEAN : log'[j] = log[j] \o FailureEvents(s, x)
    BY <1>1, <1>5, <1>6
  <2>3. PICK events \in Seq(JobEventTypes) : events = log[j]
    BY <1>1
  <2>4. Append(events, s)[Len(events) + 1] = s
    BY <2>1, <2>3, FirstAppended
  <2>5. \A x \in BOOLEAN : (events \o FailureEvents(s, x))[Len(events) + 1] = s
    BY <2>1, <2>3, FirstAppended
  <2>6. CASE log'[j] = Append(log[j], s)
    BY <2>3, <2>4, <2>6
  <2>7. CASE \E x \in BOOLEAN : log'[j] = log[j] \o FailureEvents(s, x)
    BY <2>3, <2>5, <2>7
  <2> QED
    BY <2>2, <2>6, <2>7
<1>8. /\ LastNo(j) \in DOMAIN attempts[j] /\ jobs[j].state = "running"
      /\ attempts[j] \in Seq(AttemptRow)
  BY <1>1, <1>5, <1>6, ClosingIsLast, TableFacts DEF Ends
<1>9. attempts[j][LastNo(j)].state = "running"
  BY <1>1, <1>8 DEF OwnershipInv, AttemptsMatchJob
<1>10. attempts'[j][LastNo(j)].state = s
  <2>1. PICK r : attempts'[j] = CloseLast(j, s, r)
    BY <1>5, <1>6 DEF Ends, Rewrites
  <2>2. attempts[j][LastNo(j)] \in AttemptRow
    BY <1>8
  <2> QED
    BY <1>8, <2>1, <2>2 DEF CloseLast, AttemptRow
<1> QED
  BY <1>2, <1>4, <1>6, <1>7, <1>9, <1>10 DEF Record, RecordsOutcome

\* Succeeded, failed and timed_out are written for the open attempt of the
\* worker that executed it, and for no other.
THEOREM OutcomesAreOwn == Spec => OutcomeByHolder
  BY SystemIsSafe, OutcomeStep, PTL DEF Spec, OutcomeByHolder
-----------------------------------------------------------------------------
(* Workers are users of the store                                          *)

\* The arguments a worker passes come from its own memory, and are still ones
\* the store expects: the claimed lane, the attempt it recorded at its claim,
\* the pid its pass nominated, the clock its pass read.
LEMMA StepUsesTheStore == SystemInv /\ [Next]_vars => [StoreNext]_storeVars
<1> SUFFICES ASSUME SystemInv, Next PROVE StoreNext \/ UNCHANGED storeVars
  BY DEF vars
<1>1. PassInv /\ OwnershipInv /\ StoreInv /\ WorkerTypeOK /\ ReapInv
  BY DEF SystemInv, PassInv
<1>2. ASSUME NEW p \in Procs
      PROVE  PidOf[p] \in Pids /\ WorkerIdOf[p] \in WorkerIds /\ LaneOf[p] \in Lanes
  BY ProcsAssumption
<1>3. ASSUME NEW p \in Procs, Claim(p)
      PROVE  StoreNext
  BY <1>2, <1>3 DEF Claim, StoreNext, WorkerNext
<1>4. ASSUME NEW p \in Procs, Record(p)
      PROVE  StoreNext \/ UNCHANGED storeVars
  <2> DEFINE j == held[p][1]
             no == held[p][2]
  <2>1. result[p] # "succeeded" => result[p] \in Reasons
    BY <1>1, <1>4 DEF Record, WorkerTypeOK
  <2>2. ASSUME j \in JobIds
        PROVE  no \in DOMAIN attempts[j]
    <3>1. held[p] # NoClaim
      BY <1>1, <1>4 DEF Record, WorkerTypeOK, ExecutingAt
    <3>2. no > 0 /\ no \in Nat /\ no <= LastNo(j)
      BY <1>1, <2>2, <3>1, HeldFacts DEF OwnershipInv, ClaimInv
    <3>3. DOMAIN attempts[j] = 1..LastNo(j) /\ LastNo(j) \in Nat
      BY <1>1, <2>2, TableFacts
    <3> QED
      BY <3>2, <3>3
  <2>3. CASE record_success(j, no, WorkerIdOf[p], PidOf[p], clock)
    <3>1. j \in JobIds
      BY <2>3 DEF record_success, Owns
    <3> QED
      BY <1>2, <2>2, <2>3, <3>1 DEF StoreNext, WorkerNext
  <2>4. CASE /\ result[p] # "succeeded"
             /\ record_failure(j, no, WorkerIdOf[p], PidOf[p], result[p], clock)
    <3>1. j \in JobIds
      BY <2>4 DEF record_failure, Owns
    <3>2. result[p] \in {"process_exit", "timeout", "spawn_failed"}
      BY <2>1, <2>4 DEF Reasons
    <3> QED
      BY <1>2, <2>2, <2>4, <3>1, <3>2 DEF StoreNext, WorkerNext
  <2> QED
    BY <1>4, <2>3, <2>4 DEF Record
<1>5. ASSUME NEW p \in Procs, ReapOne(p)
      PROVE  StoreNext \/ UNCHANGED storeVars
  <2> DEFINE c == First(cands[p])
             t == passAt[p]
  <2>1. CASE reap(c.job, c.pid, t - REAP_THRESHOLD, t)
    <3>1. /\ c.job \in JobIds
          /\ jobs[c.job].state = "running"
          /\ jobs[c.job].locked_pid = c.pid
      BY <2>1 DEF reap, Reapable, Stale
    <3>2. c.pid \in Pids
      BY <1>1, <3>1 DEF StoreInv, TypeOK, JobRow, LockInv, LockedRow
    <3>3. t \in 0..clock
      BY <1>1 DEF StoreInv, TypeOK, ReapInv, LoopTypeOK, PidInv
    <3>4. PICK w \in WorkerIds : TRUE
      BY <1>2
    <3> QED
      BY <2>1, <3>1, <3>2, <3>3, <3>4 DEF StoreNext, WorkerNext
  <2> QED
    BY <1>5, <2>1 DEF ReapOne
<1>6. ASSUME NEW p \in Procs, Beat(p)
      PROVE  StoreNext \/ UNCHANGED storeVars
  <2>1. CASE update_heartbeat(held[p][1], WorkerIdOf[p], PidOf[p], clock)
    <3>1. held[p][1] \in JobIds
      BY <2>1 DEF update_heartbeat, Owns
    <3> QED
      BY <1>2, <2>1, <3>1 DEF StoreNext, WorkerNext
  <2> QED
    BY <1>6, <2>1 DEF Beat
<1>7. ASSUME NEW p \in Procs, LoopStep(p), ~Claim(p), ~Record(p), ~ReapOne(p)
      PROVE  UNCHANGED storeVars
  BY <1>7 DEF LoopStep, ReapBegin, CheckOwner, ClaimNothing, Settle, Stop, Spawn, SpawnFails
<1>8. ASSUME NEW p \in Procs, KillLost(p) \/ Environment(p)
      PROVE  UNCHANGED storeVars
  BY <1>8 DEF KillLost, Environment, Start, Crash, Hang, Signal, SignalAgain,
              ChildEnds, Timeout, ThreadDies
<1>9. ASSUME NEW pid \in Pids, ForeignStart(pid) \/ ForeignExit(pid)
      PROVE  UNCHANGED storeVars
  BY <1>9 DEF ForeignStart, ForeignExit
<1>10. CASE Tick \/ ClientNext
  BY <1>10 DEF StoreNext
<1> QED
  BY <1>3, <1>4, <1>5, <1>6, <1>7, <1>8, <1>9, <1>10 DEF Next, BeatStep

\* The workers implement the store's specification, crashed, hung and late
\* ones included: what LedgerProofs shows of every behaviour of the store
\* (keys, queue slots, counters, pages) holds of the tables they work on.
THEOREM SystemUsesTheStore == Spec => StoreSpec
<1>1. Init => StoreInit
  BY DEF Init
<1> QED
  BY <1>1, SystemIsSafe, StepUsesTheStore, PTL DEF Spec, StoreSpec
=============================================================================
