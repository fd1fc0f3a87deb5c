---------------------------- MODULE WorkerProofs ----------------------------
(***************************************************************************)
(* Proofs about Worker, for any number of worker incarnations, pids, jobs  *)
(* and any interleaving: the type invariant, and that a reap never hits a  *)
(* live worker.  What the transactions do to the tables comes from         *)
(* StoreProofs; here it is combined with where the loops are.              *)
(***************************************************************************)
EXTENDS Worker, StoreProofs

-----------------------------------------------------------------------------
(* What a transaction does to the jobs that run                            *)

\* Every transaction but claim_next: no job starts to run, no attempt is
\* opened, a heartbeat only moves to the present, and new jobs get new ids.
Calm ==
    /\ lastId <= lastId'
    /\ clock <= clock'
    /\ \A j \in DOMAIN jobs' :
         \/ j \in JobIds /\ Len(attempts'[j]) = Len(attempts[j])
         \/ j > lastId /\ jobs'[j].state # "running"
    /\ \A j \in JobIds \cap DOMAIN jobs' :
         jobs'[j].state = "running" =>
            /\ jobs[j].state = "running"
            /\ jobs'[j].locked_pid = jobs[j].locked_pid
            /\ jobs'[j].heartbeat_at \in {jobs[j].heartbeat_at, clock}

\* It charges no crash to any job.
NoCrash == \A j \in JobIds \cap DOMAIN jobs' : ~(jobs'[j].crashes > jobs[j].crashes)

\* A transaction that ends a claim, or leaves the row alone but for its
\* heartbeat, is calm if it keeps the number of attempts.
LEMMA RowIsCalm ==
    ASSUME StoreInv, NEW j \in JobIds, NEW row, NEW tries,
           jobs' = [jobs EXCEPT ![j] = row],
           attempts' = [attempts EXCEPT ![j] = tries],
           Len(tries) = Len(attempts[j]),
           row.state = "running" =>
              /\ jobs[j].state = "running"
              /\ row.locked_pid = jobs[j].locked_pid
              /\ row.heartbeat_at \in {jobs[j].heartbeat_at, clock},
           UNCHANGED <<clock, lastId>>
    PROVE  Calm /\ (~(row.crashes > jobs[j].crashes) => NoCrash)
<1>0. /\ clock \in Nat /\ lastId \in Nat
      /\ jobs \in [JobIds -> JobRow] /\ attempts \in [JobIds -> Seq(AttemptRow)]
  BY DEF StoreInv, TypeOK
<1>1. /\ DOMAIN jobs' = JobIds
      /\ jobs'[j] = row /\ attempts'[j] = tries
      /\ \A i \in JobIds \ {j} : jobs'[i] = jobs[i] /\ attempts'[i] = attempts[i]
  BY <1>0 DEF JobIds
<1>2. \A i \in JobIds : jobs[i].crashes \in Nat
  BY <1>0 DEF JobRow
<1>3. Calm
  BY <1>0, <1>1 DEF Calm
<1>4. ~(row.crashes > jobs[j].crashes) => NoCrash
  BY <1>1, <1>2 DEF NoCrash
<1> QED
  BY <1>3, <1>4

\* Closing attempts keeps their number.
LEMMA CloseKeepsLen ==
    ASSUME StoreInv, NEW j \in JobIds, NEW no, NEW state, NEW reason
    PROVE  /\ Len(CloseRunning(j, state, reason)) = Len(attempts[j])
           /\ Len(CloseOne(j, no, state, reason)) = Len(attempts[j])
<1>1. Len(attempts[j]) \in Nat /\ DOMAIN attempts[j] = 1..Len(attempts[j])
  BY NextAttemptNoIsLen DEF StoreInv
<1>2. /\ DOMAIN CloseRunning(j, state, reason) = 1..Len(attempts[j])
      /\ DOMAIN CloseOne(j, no, state, reason) = 1..Len(attempts[j])
  BY <1>1 DEF CloseRunning, CloseOne
<1> QED
  BY <1>1, <1>2 DEF CloseRunning, CloseOne

\* Nothing a client does starts a job, opens an attempt or counts a crash.
LEMMA ClientIsCalm ==
    ASSUME StoreInv, ClientNext
    PROVE  Calm /\ NoCrash
<1>0. /\ clock \in Nat /\ lastId \in Nat /\ JobIds \subseteq 1..lastId
      /\ jobs \in [JobIds -> JobRow] /\ attempts \in [JobIds -> Seq(AttemptRow)]
      /\ \A i \in JobIds : jobs[i].crashes \in Nat
  BY DEF StoreInv, TypeOK, JobRow
<1>1. ASSUME NEW s \in Specs, NEW delay \in Delays, add_job_checked(s, delay, clock)
      PROVE  Calm /\ NoCrash
  <2>1. /\ DOMAIN jobs' = JobIds \cup {lastId + 1}
        /\ lastId' = lastId + 1 /\ clock' = clock
        /\ lastId + 1 \notin JobIds
        /\ jobs'[lastId + 1].state = "queued"
        /\ \A i \in JobIds : jobs'[i] = jobs[i] /\ attempts'[i] = attempts[i]
    BY <1>0, <1>1 DEF add_job_checked
  <2>2. lastId <= lastId' /\ clock <= clock'
    BY <1>0, <2>1
  <2>3. Calm
    BY <1>0, <2>1, <2>2 DEF Calm
  <2>4. ASSUME NEW i \in JobIds PROVE ~(jobs'[i].crashes > jobs[i].crashes)
    <3>1. jobs'[i] = jobs[i] /\ jobs[i].crashes \in Nat
      BY <1>0, <2>1
    <3> QED
      BY <3>1
  <2>5. NoCrash
    BY <2>4 DEF NoCrash
  <2> QED
    BY <2>3, <2>5
<1>2. ASSUME NEW j \in JobIds, NEW allow_running \in BOOLEAN,
             cancel_job(j, allow_running, clock)
      PROVE  Calm /\ NoCrash
  <2>1. CASE jobs[j].state = "queued"
    <3> DEFINE row == [jobs[j] EXCEPT !.state = "canceled", !.finished_at = clock]
    <3>1. /\ jobs' = [jobs EXCEPT ![j] = row]
          /\ attempts' = [attempts EXCEPT ![j] = attempts[j]]
      BY <1>0, <1>2, <2>1 DEF cancel_job
    <3>2. row.state = "canceled" /\ row.crashes = jobs[j].crashes
      BY <1>0 DEF JobRow
    <3>3. UNCHANGED <<clock, lastId>>
      BY <1>2 DEF cancel_job
    <3>4. ~(row.crashes > jobs[j].crashes)
      BY <1>0, <3>2
    <3> HIDE DEF row
    <3> QED
      BY <3>1, <3>2, <3>3, <3>4, RowIsCalm
  <2>2. CASE jobs[j].state # "queued"
    <3> DEFINE row == [Unlocked(jobs[j]) EXCEPT !.state = "canceled",
                                               !.finished_at = clock]
               tries == CloseRunning(j, "canceled", "canceled")
    <3>1. /\ jobs' = [jobs EXCEPT ![j] = row]
          /\ attempts' = [attempts EXCEPT ![j] = tries]
      BY <1>2, <2>2 DEF cancel_job
    <3>2. row.state = "canceled" /\ row.crashes = jobs[j].crashes
      BY <1>0 DEF JobRow, Unlocked
    <3>3. UNCHANGED <<clock, lastId>>
      BY <1>2 DEF cancel_job
    <3>4. Len(tries) = Len(attempts[j])
      BY CloseKeepsLen
    <3>5. ~(row.crashes > jobs[j].crashes)
      BY <1>0, <3>2
    <3> HIDE DEF row, tries
    <3> QED
      BY <3>1, <3>2, <3>3, <3>4, <3>5, RowIsCalm
  <2> QED
    BY <2>1, <2>2
<1>3. ASSUME NEW j \in JobIds, NEW force \in BOOLEAN, retry_job(j, force, clock)
      PROVE  Calm /\ NoCrash
  <2> DEFINE row == FreshBudget(jobs[j], clock)
             tries == IF force THEN CloseRunning(j, "abandoned", "canceled")
                               ELSE attempts[j]
  <2>1. /\ jobs' = [jobs EXCEPT ![j] = row]
        /\ attempts' = [attempts EXCEPT ![j] = tries]
    BY <1>0, <1>3 DEF retry_job
  <2>2. row.state = "queued" /\ row.crashes = 0
    BY <1>0 DEF JobRow, FreshBudget, Unlocked
  <2>3. UNCHANGED <<clock, lastId>>
    BY <1>3 DEF retry_job
  <2>4. Len(tries) = Len(attempts[j])
    BY CloseKeepsLen
  <2>5. ~(row.crashes > jobs[j].crashes)
    BY <1>0, <2>2
  <2> HIDE DEF row, tries
  <2> QED
    BY <1>0, <2>1, <2>2, <2>3, <2>4, <2>5, RowIsCalm
<1>4. ASSUME NEW ids, NEW states, NEW cutoff, prune_delete(ids, states, cutoff)
      PROVE  Calm /\ NoCrash
  <2>1. /\ DOMAIN jobs' \subseteq JobIds
        /\ \A i \in DOMAIN jobs' : jobs'[i] = jobs[i] /\ attempts'[i] = attempts[i]
        /\ UNCHANGED <<clock, lastId>>
    BY <1>4 DEF prune_delete, JobIds
  <2>2. lastId <= lastId' /\ clock <= clock'
    BY <1>0, <2>1
  <2> QED
    BY <1>0, <2>1, <2>2 DEF Calm, NoCrash
<1> QED
  BY <1>1, <1>2, <1>3, <1>4 DEF ClientNext

\* A heartbeat is calm.
LEMMA BeatIsCalm ==
    ASSUME StoreInv, NEW j \in JobIds, NEW w, NEW pid,
           update_heartbeat(j, w, pid, clock)
    PROVE  Calm /\ NoCrash
<1> DEFINE row == [jobs[j] EXCEPT !.heartbeat_at = clock]
<1>0. jobs[j] \in JobRow /\ attempts \in [JobIds -> Seq(AttemptRow)]
  BY DEF StoreInv, TypeOK
<1>1. /\ jobs' = [jobs EXCEPT ![j] = row]
      /\ attempts' = [attempts EXCEPT ![j] = attempts[j]]
      /\ UNCHANGED <<clock, lastId>>
  BY <1>0 DEF update_heartbeat
<1>2. /\ row.state = jobs[j].state /\ row.locked_pid = jobs[j].locked_pid
      /\ row.heartbeat_at = clock /\ row.crashes = jobs[j].crashes
  BY <1>0 DEF JobRow
<1>3. ~(row.crashes > jobs[j].crashes)
  BY <1>0, <1>2 DEF JobRow
<1> HIDE DEF row
<1> QED
  BY <1>1, <1>2, <1>3, RowIsCalm

\* Recording an outcome is calm.
LEMMA OutcomeIsCalm ==
    ASSUME StoreInv, NEW j \in JobIds, NEW no, NEW w, NEW pid,
           \/ record_success(j, no, w, pid, clock)
           \/ \E reason : record_failure(j, no, w, pid, reason, clock)
    PROVE  Calm /\ NoCrash
<1>0. jobs[j] \in JobRow /\ jobs[j].crashes \in Nat
  BY DEF StoreInv, TypeOK, JobRow
<1>1. CASE record_success(j, no, w, pid, clock)
  <2> DEFINE row == [Unlocked(jobs[j]) EXCEPT !.state = "done", !.finished_at = clock]
             tries == CloseOne(j, no, "succeeded", NULL)
  <2>1. /\ jobs' = [jobs EXCEPT ![j] = row]
        /\ attempts' = [attempts EXCEPT ![j] = tries]
        /\ UNCHANGED <<clock, lastId>>
    BY <1>1 DEF record_success
  <2>2. row.state = "done" /\ row.crashes = jobs[j].crashes
    BY <1>0 DEF JobRow, Unlocked
  <2>3. Len(tries) = Len(attempts[j])
    BY CloseKeepsLen
  <2>4. ~(row.crashes > jobs[j].crashes)
    BY <1>0, <2>2
  <2> HIDE DEF row, tries
  <2> QED
    BY <2>1, <2>2, <2>3, <2>4, RowIsCalm
<1>2. ASSUME NEW reason, record_failure(j, no, w, pid, reason, clock)
      PROVE  Calm /\ NoCrash
  <2> DEFINE x == RetriesExhausted(jobs[j])
             row == Requeued(jobs[j], x, jobs[j].attempts + 1, jobs[j].crashes, clock)
             tries == CloseOne(j, no, FailureKind(reason), reason)
  <2>1. /\ jobs' = [jobs EXCEPT ![j] = row]
        /\ attempts' = [attempts EXCEPT ![j] = tries]
        /\ UNCHANGED <<clock, lastId>>
    BY <1>2 DEF record_failure
  <2>2. row.state \in {"dead", "queued"} /\ row.crashes = jobs[j].crashes
    BY <1>0 DEF JobRow, Unlocked, Requeued
  <2>3. Len(tries) = Len(attempts[j])
    BY CloseKeepsLen
  <2>4. ~(row.crashes > jobs[j].crashes) /\ row.state # "running"
    BY <1>0, <2>2
  <2> HIDE DEF row, tries
  <2> QED
    BY <2>1, <2>3, <2>4, RowIsCalm
<1> QED
  BY <1>1, <1>2

\* A reap is calm.
LEMMA ReapIsCalm ==
    ASSUME StoreInv, NEW j \in JobIds, NEW pid, NEW cutoff, NEW t,
           reap(j, pid, cutoff, t)
    PROVE  Calm
<1>0. jobs[j] \in JobRow /\ jobs[j].crashes \in Nat
  BY DEF StoreInv, TypeOK, JobRow
<1> DEFINE x == CrashesExhausted(jobs[j])
           row == Requeued(jobs[j], x, jobs[j].attempts + 1, jobs[j].crashes + 1, t)
           tries == CloseRunning(j, "abandoned", "worker_crash")
<1>1. /\ jobs' = [jobs EXCEPT ![j] = row]
      /\ attempts' = [attempts EXCEPT ![j] = tries]
      /\ UNCHANGED <<clock, lastId>>
  BY DEF reap
<1>2. row.state \in {"dead", "queued"}
  BY <1>0 DEF JobRow, Unlocked, Requeued
<1>3. Len(tries) = Len(attempts[j])
  BY CloseKeepsLen
<1>4. row.state # "running"
  BY <1>2
<1> HIDE DEF row, tries
<1> QED
  BY <1>1, <1>3, <1>4, RowIsCalm

\* The clock, and steps that leave the database alone, are calm.
LEMMA IdleIsCalm ==
    ASSUME StoreInv, Tick \/ UNCHANGED storeVars
    PROVE  Calm /\ NoCrash
<1>0. /\ clock \in Nat /\ lastId \in Nat
      /\ \A i \in JobIds : jobs[i].crashes \in Nat
  BY DEF StoreInv, TypeOK, JobRow
<1>1. /\ UNCHANGED <<lastId, jobs, attempts>>
      /\ clock' = clock \/ clock' = clock + 1
  BY DEF Tick, storeVars
<1>2. lastId <= lastId' /\ clock <= clock'
  BY <1>0, <1>1
<1> QED
  BY <1>0, <1>1, <1>2 DEF Calm, NoCrash, JobIds

-----------------------------------------------------------------------------
(* The loops, their heartbeat threads and their children                   *)

\* A reap pass nominates rows of the jobs table.
LEMMA CandidatesType ==
    ASSUME StoreInv, NEW cutoff
    PROVE  stale_running_candidates(cutoff) \subseteq Candidates
<1> SUFFICES ASSUME NEW j \in JobIds, Stale(j, cutoff)
             PROVE  /\ j \in Nat
                    /\ jobs[j].locked_pid \in Pids
                    /\ jobs[j].heartbeat_at \in Time
  BY DEF stale_running_candidates, Candidates
<1>1. jobs[j] \in JobRow /\ LockedRow(jobs[j]) /\ j \in Nat
  BY DEF StoreInv, TypeOK, LockInv
<1> QED
  BY <1>1 DEF Stale, LockedRow, JobRow

\* A claim names an attempt of an existing job.
LEMMA ClaimIsReal ==
    ASSUME StoreInv, NEW j \in JobIds
    PROVE  /\ NextAttemptNo(j) = Len(attempts[j]) + 1
           /\ <<j, NextAttemptNo(j)>> \in Nat \X Nat
           /\ <<j, NextAttemptNo(j)>> # NoClaim
<1>1. /\ Len(attempts[j]) \in Nat
      /\ NextAttemptNo(j) = Len(attempts[j]) + 1
  BY NextAttemptNoIsLen DEF StoreInv
<1>2. j \in Nat /\ j # 0
  BY DEF StoreInv, TypeOK
<1> QED
  BY <1>1, <1>2 DEF NoClaim

\* Each step of a worker, of its child or of the system keeps the variables
\* of the workers well-formed.
LEMMA LoopStepTypes ==
    ASSUME StoreInv, WorkerTypeOK, NEW p \in Procs, LoopStep(p)
    PROVE  WorkerTypeOK'
<1> USE DEF Points, Absent, ExecutingAt, Reasons
<1>1. CASE ReapBegin(p)
  BY <1>1, CandidatesType DEF ReapBegin, WorkerTypeOK, LoopTypeOK, AfterCands, StoreInv, TypeOK
<1>2. CASE CheckOwner(p)
  <2>1. /\ \/ pc' = [pc EXCEPT ![p] = "confirmed"] /\ UNCHANGED <<passAt, cands>>
           \/ DropFirst(p)
        /\ pc[p] = "reaping"
        /\ UNCHANGED <<storeVars, held, result, beat, child, stopping, foreign>>
    BY <1>2 DEF CheckOwner
  <2>2. CASE DropFirst(p)
    BY <2>1, <2>2 DEF DropFirst, WorkerTypeOK, LoopTypeOK, AfterCands
  <2>3. CASE pc' = [pc EXCEPT ![p] = "confirmed"] /\ UNCHANGED <<passAt, cands>>
    BY <2>1, <2>3 DEF WorkerTypeOK, LoopTypeOK
  <2> QED
    BY <2>1, <2>2, <2>3
<1>3. CASE ReapOne(p)
  BY <1>3 DEF ReapOne, DropFirst, WorkerTypeOK, LoopTypeOK, AfterCands
<1>4. CASE Claim(p)
  BY <1>4, ClaimIsReal DEF Claim, WorkerTypeOK, LoopTypeOK
<1>5. CASE ClaimNothing(p)
  BY <1>5 DEF ClaimNothing, WorkerTypeOK, LoopTypeOK
<1>6. CASE Settle(p)
  BY <1>6 DEF Settle, WorkerTypeOK, LoopTypeOK
<1>7. CASE Stop(p)
  BY <1>7 DEF Stop, WorkerTypeOK, LoopTypeOK
<1>8. CASE Spawn(p)
  BY <1>8 DEF Spawn, WorkerTypeOK, LoopTypeOK
<1>9. CASE SpawnFails(p)
  BY <1>9, NullAssumption
  DEF SpawnFails, Returns, WorkerTypeOK, LoopTypeOK, FailureReasons
<1>10. CASE Record(p)
  BY <1>10 DEF Record, WorkerTypeOK, LoopTypeOK, NoClaim
<1> QED
  BY <1>1, <1>2, <1>3, <1>4, <1>5, <1>6, <1>7, <1>8, <1>9, <1>10 DEF LoopStep

\* So does each step of a heartbeat thread, a child or the operating
\* system.
LEMMA OtherStepTypes ==
    ASSUME StoreInv, WorkerTypeOK, NEW p \in Procs,
           BeatStep(p) \/ Environment(p)
    PROVE  WorkerTypeOK'
<1> USE DEF Points, Absent, ExecutingAt, Reasons, WorkerTypeOK, LoopTypeOK
<1>0. NULL \notin Reasons \cup {"succeeded"}
  BY NullAssumption DEF FailureReasons, AttemptStates
<1>1. CASE Beat(p)
  BY <1>1 DEF Beat
<1>2. CASE KillLost(p)
  BY <1>0, <1>2 DEF KillLost, Returns
<1>3. CASE Start(p)
  BY <1>3 DEF Start
<1>4. CASE Crash(p)
  BY <1>4 DEF Crash, Alive
<1>5. CASE Hang(p)
  BY <1>5 DEF Hang, Alive
<1>6. CASE Signal(p)
  BY <1>6 DEF Signal
<1>7. CASE SignalAgain(p)
  BY <1>0, <1>7 DEF SignalAgain, Returns
<1>8. CASE ChildEnds(p)
  <2>1. CASE pc[p] = "waiting"
    <3> PICK r \in {"succeeded", "process_exit"} : Returns(p, r)
      BY <1>8, <2>1 DEF ChildEnds
    <3> QED
      BY <1>0, <1>8, <2>1 DEF ChildEnds, Returns
  <2>2. CASE pc[p] # "waiting"
    BY <1>8, <2>2 DEF ChildEnds
  <2> QED
    BY <2>1, <2>2
<1>9. CASE Timeout(p)
  BY <1>0, <1>9 DEF Timeout, Returns
<1>10. CASE ThreadDies(p)
  BY <1>10 DEF ThreadDies
<1> QED
  BY <1>1, <1>2, <1>3, <1>4, <1>5, <1>6, <1>7, <1>8, <1>9, <1>10
  DEF BeatStep, Environment

\* A step of the whole system keeps them so.
LEMMA WorkerTypesStep ==
    ASSUME StoreInv, WorkerTypeOK, [Next]_vars
    PROVE  WorkerTypeOK'
<1>1. CASE UNCHANGED workerVars
  BY <1>1 DEF workerVars, WorkerTypeOK, LoopTypeOK
<1>2. ASSUME NEW pid \in Pids, ForeignStart(pid) \/ ForeignExit(pid)
      PROVE  WorkerTypeOK'
  BY <1>2 DEF ForeignStart, ForeignExit, WorkerTypeOK, LoopTypeOK
<1> QED
  BY <1>1, <1>2, LoopStepTypes, OtherStepTypes DEF Next, vars

-----------------------------------------------------------------------------
(* Reaping                                                                 *)

\* What every step but a claim does to the loops: claims are only given up,
\* only a process that starts comes alive, and a pass that has confirmed a
\* death goes on as it was, or has just found that nobody has the pid.
LoopCalm ==
    /\ \A p \in Procs : held'[p] \in {held[p], NoClaim}
    /\ \A p \in Procs : pc'[p] = "unborn" => pc[p] = "unborn"
    /\ \A p \in Procs : Alive(p)' => Alive(p) \/ pc[p] = "unborn"
    /\ \A p \in Procs : Alive(p)' => PidOf[p] \notin foreign'
    /\ \A p \in Procs : passAt'[p] \in {0, clock, passAt[p]}
    /\ \A p \in Procs :
         pc'[p] = "confirmed" =>
            /\ cands'[p] = cands[p] /\ passAt'[p] = passAt[p]
            /\ \/ pc[p] = "confirmed"
               \/ \A q \in Procs : PidOf[q] = First(cands[p]).pid => ~Alive(q)

\* Calm steps of the database and of the loops keep ReapInv.
LEMMA CalmKeepsReapInv ==
    ASSUME StoreInv, StoreInv', WorkerTypeOK', ReapInv, Calm, LoopCalm
    PROVE  ReapInv'
<1>0. /\ clock \in Nat /\ lastId \in Nat /\ JobIds \subseteq 1..lastId
      /\ clock' \in Nat /\ lastId' \in Nat /\ DOMAIN jobs' \subseteq 1..lastId'
      /\ clock <= clock' /\ lastId <= lastId'
      /\ \A p \in Procs : passAt[p] \in Nat /\ passAt[p] <= clock
      /\ held \in [Procs -> Nat \X Nat] /\ held' \in [Procs -> Nat \X Nat]
  BY DEF StoreInv, TypeOK, JobIds, Calm, ReapInv, PidInv, LoopTypeOK, WorkerTypeOK
<1>1. HeldInv'
  <2> SUFFICES ASSUME NEW p \in Procs
               PROVE  /\ held'[p][1] <= lastId'
                      /\ held'[p][1] \in DOMAIN jobs' =>
                            held'[p][2] <= Len(attempts'[held'[p][1]])
                      /\ pc'[p] = "unborn" => held'[p] = NoClaim
    BY DEF HeldInv, LastNo, JobIds
  <2>1. CASE held'[p] = NoClaim
    BY <1>0, <2>1 DEF NoClaim
  <2>2. CASE held'[p] = held[p]
    <3>1. /\ held[p][1] \in Nat /\ held[p][1] <= lastId
          /\ held[p][1] \in JobIds => held[p][2] <= Len(attempts[held[p][1]])
          /\ pc[p] = "unborn" => held[p] = NoClaim
      BY <1>0 DEF ReapInv, HeldInv, LastNo
    <3>2. held[p][1] \in DOMAIN jobs' =>
            /\ held[p][1] \in JobIds
            /\ Len(attempts'[held[p][1]]) = Len(attempts[held[p][1]])
      BY <1>0, <3>1 DEF Calm
    <3> QED
      BY <1>0, <2>2, <3>1, <3>2 DEF LoopCalm
  <2> QED
    BY <2>1, <2>2 DEF LoopCalm
<1>2. ASSUME NEW p \in Procs, NEW j \in DOMAIN jobs',
             jobs'[j].state = "running", held'[p] = <<j, Len(attempts'[j])>>
      PROVE  /\ j \in JobIds /\ jobs[j].state = "running"
             /\ jobs'[j].locked_pid = jobs[j].locked_pid
             /\ jobs'[j].heartbeat_at \in {jobs[j].heartbeat_at, clock}
             /\ Len(attempts'[j]) = Len(attempts[j])
             /\ held[p] = <<j, Len(attempts[j])>>
  <2>1. /\ j \in JobIds /\ Len(attempts'[j]) = Len(attempts[j])
    BY <1>2 DEF Calm
  <2>2. held'[p] # NoClaim
    BY <1>0, <1>2 DEF NoClaim
  <2> QED
    BY <1>2, <2>1, <2>2 DEF Calm, LoopCalm
<1>3. HolderInv'
  BY <1>2 DEF ReapInv, HolderInv, Holds, LastNo, JobIds
<1>4. PidInv'
  BY <1>0 DEF LoopCalm, PidInv
<1>5. ConfirmedInv'
  <2> SUFFICES ASSUME NEW p \in Procs, NEW q \in Procs, Threatened(p, q)'
               PROVE  jobs'[First(cands'[p]).job].heartbeat_at
                        >= passAt'[p] - REAP_THRESHOLD
    BY DEF ConfirmedInv
  <2> DEFINE c == First(cands[p])
  <2>1. /\ pc'[p] = "confirmed" /\ Alive(q)' /\ First(cands'[p]) = c
        /\ passAt'[p] = passAt[p] /\ PidOf[q] = c.pid
        /\ c.job \in DOMAIN jobs' /\ jobs'[c.job].state = "running"
        /\ held'[q] = <<c.job, Len(attempts'[c.job])>>
    BY DEF Threatened, LoopCalm, Holds, LastNo, JobIds
  <2>2. /\ c.job \in JobIds /\ jobs[c.job].state = "running"
        /\ jobs'[c.job].heartbeat_at \in {jobs[c.job].heartbeat_at, clock}
        /\ held[q] = <<c.job, Len(attempts[c.job])>>
    BY <1>2, <2>1
  <2>3. Alive(q)
    <3>1. held[q] # NoClaim
      BY <1>0, <2>2 DEF NoClaim
    <3> QED
      BY <2>1, <3>1 DEF LoopCalm, ReapInv, HeldInv
  <2>4. pc[p] = "confirmed"
    BY <2>1, <2>3 DEF LoopCalm
  <2>5. jobs[c.job].heartbeat_at >= passAt[p] - REAP_THRESHOLD
    BY <2>1, <2>2, <2>3, <2>4 DEF ReapInv, ConfirmedInv, Threatened, Holds, LastNo
  <2>6. clock >= passAt[p] - REAP_THRESHOLD
    BY <1>0, TunablesAssumption
  <2> QED
    BY <2>1, <2>2, <2>5, <2>6
<1>6. LoopTypeOK'
  BY DEF WorkerTypeOK
<1> QED
  BY <1>1, <1>3, <1>4, <1>5, <1>6 DEF ReapInv

\* Every step but a claim is calm for the loops.
LEMMA LoopStepIsCalm ==
    ASSUME WorkerTypeOK, ReapInv, NEW p \in Procs, LoopStep(p), ~Claim(p)
    PROVE  LoopCalm
<1> USE DEF LoopCalm, ReapInv, LoopTypeOK, PidInv, Alive, Absent, ExecutingAt
<1>1. CASE ReapBegin(p)
  BY <1>1 DEF ReapBegin, AfterCands
<1>2. CASE CheckOwner(p)
  <2>0. /\ pc[p] = "reaping"
        /\ UNCHANGED <<held, foreign>>
    BY <1>2 DEF CheckOwner
  <2>1. CASE DropFirst(p)
    BY <2>0, <2>1 DEF DropFirst, AfterCands
  <2>2. CASE ~DropFirst(p)
    <3>1. /\ pc' = [pc EXCEPT ![p] = "confirmed"] /\ UNCHANGED <<passAt, cands>>
          /\ TRUE \in is_worker_pid_dead(First(cands[p]).pid)
      BY <1>2, <2>2 DEF CheckOwner, is_worker_pid_dead
    <3>2. \A q \in Procs : PidOf[q] = First(cands[p]).pid => ~Alive(q)
      BY <3>1 DEF is_worker_pid_dead, PidFree
    <3> QED
      BY <2>0, <3>1, <3>2
  <2> QED
    BY <2>1, <2>2
<1>3. CASE ReapOne(p)
  BY <1>3 DEF ReapOne, DropFirst, AfterCands
<1>4. CASE ClaimNothing(p)
  BY <1>4 DEF ClaimNothing
<1>5. CASE Settle(p)
  BY <1>5 DEF Settle
<1>6. CASE Stop(p)
  BY <1>6 DEF Stop
<1>7. CASE Spawn(p)
  BY <1>7 DEF Spawn
<1>8. CASE SpawnFails(p)
  BY <1>8 DEF SpawnFails, Returns
<1>9. CASE Record(p)
  BY <1>9 DEF Record
<1> QED
  BY <1>1, <1>2, <1>3, <1>4, <1>5, <1>6, <1>7, <1>8, <1>9 DEF LoopStep

\* Heartbeats, children and the operating system are calm for the loops.
LEMMA OtherStepIsCalm ==
    ASSUME WorkerTypeOK, ReapInv, NEW p \in Procs, BeatStep(p) \/ Environment(p)
    PROVE  LoopCalm
<1> USE DEF LoopCalm, ReapInv, LoopTypeOK, PidInv, Alive, Absent, ExecutingAt
<1>1. CASE Beat(p)
  BY <1>1 DEF Beat
<1>2. CASE KillLost(p)
  BY <1>2 DEF KillLost, Returns, WorkerTypeOK
<1>3. CASE Start(p)
  BY <1>3 DEF Start, PidFree
<1>4. CASE Crash(p)
  BY <1>4 DEF Crash
<1>5. CASE Hang(p)
  BY <1>5 DEF Hang
<1>6. CASE Signal(p)
  BY <1>6 DEF Signal
<1>7. CASE SignalAgain(p)
  BY <1>7 DEF SignalAgain, Returns
<1>8. CASE ChildEnds(p)
  BY <1>8 DEF ChildEnds, Returns
<1>9. CASE Timeout(p)
  BY <1>9 DEF Timeout, Returns
<1>10. CASE ThreadDies(p)
  BY <1>10 DEF ThreadDies
<1> QED
  BY <1>1, <1>2, <1>3, <1>4, <1>5, <1>6, <1>7, <1>8, <1>9, <1>10
  DEF BeatStep, Environment

\* So are clients, the clock and processes that are not workers.
LEMMA RestIsCalm ==
    ASSUME ReapInv,
           \/ UNCHANGED workerVars
           \/ \E pid \in Pids : ForeignStart(pid) \/ ForeignExit(pid)
    PROVE  LoopCalm
<1> USE DEF LoopCalm, ReapInv, LoopTypeOK, PidInv, Alive, Absent
<1>1. CASE UNCHANGED workerVars
  BY <1>1 DEF workerVars
<1>2. ASSUME NEW pid \in Pids, ForeignStart(pid) PROVE LoopCalm
  BY <1>2 DEF ForeignStart, PidFree
<1>3. ASSUME NEW pid \in Pids, ForeignExit(pid) PROVE LoopCalm
  BY <1>3 DEF ForeignExit
<1> QED
  BY <1>1, <1>2, <1>3

\* A claim of p opens the next attempt of one job and shows its identity.
LEMMA ClaimFacts ==
    ASSUME StoreInv, ReapInv, NEW p \in Procs, Claim(p)
    PROVE  \E j \in JobIds :
              /\ claim_next(j, WorkerIdOf[p], PidOf[p], LaneOf[p], clock)
              /\ held' = [held EXCEPT ![p] = <<j, Len(attempts[j]) + 1>>]
              /\ Len(attempts[j]) \in Nat
              /\ Len(attempts'[j]) = Len(attempts[j]) + 1
              /\ jobs'[j].state = "running" /\ jobs[j].state = "queued"
              /\ jobs'[j].locked_by = WorkerIdOf[p]
              /\ jobs'[j].locked_pid = PidOf[p]
              /\ jobs'[j].heartbeat_at = clock
              /\ jobs'[j].crashes = jobs[j].crashes
              /\ \A i \in JobIds \ {j} :
                   jobs'[i] = jobs[i] /\ attempts'[i] = attempts[i]
              /\ DOMAIN jobs' = JobIds /\ UNCHANGED <<clock, lastId>>
<1>1. PICK j \in JobIds :
         /\ claim_next(j, WorkerIdOf[p], PidOf[p], LaneOf[p], clock)
         /\ held' = [held EXCEPT ![p] = <<j, NextAttemptNo(j)>>]
  BY DEF Claim
<1>2. /\ Len(attempts[j]) \in Nat
      /\ DOMAIN attempts[j] = 1..Len(attempts[j])
      /\ NextAttemptNo(j) = Len(attempts[j]) + 1
  BY NextAttemptNoIsLen DEF StoreInv
<1>3. /\ jobs \in [JobIds -> JobRow]
      /\ attempts \in [JobIds -> Seq(AttemptRow)]
  BY DEF StoreInv, TypeOK
<1> DEFINE n == Len(attempts[j]) + 1
           try == [worker_id |-> WorkerIdOf[p], worker_pid |-> PidOf[p],
                   state |-> "running", failure_reason |-> NULL]
           tries == [m \in DOMAIN attempts[j] \cup {n} |->
                       IF m = n THEN try ELSE attempts[j][m]]
<1>4. /\ attempts' = [attempts EXCEPT ![j] = tries]
      /\ jobs' = [jobs EXCEPT ![j] =
                     [jobs[j] EXCEPT !.state = "running", !.locked_by = WorkerIdOf[p],
                                     !.locked_pid = PidOf[p], !.heartbeat_at = clock]]
      /\ UNCHANGED <<clock, lastId>>
      /\ jobs[j].state = "queued"
  BY <1>1, <1>2, <1>3 DEF claim_next, CanClaim, Claimable, Due
<1>5. tries \in [1..n -> Range(tries)] /\ DOMAIN tries = 1..n
  BY <1>2 DEF Range
<1>6. Len(tries) = n
  BY <1>2, <1>5
<1>7. attempts'[j] = tries /\ Len(attempts'[j]) = n
  BY <1>3, <1>4, <1>6
<1>8. \A i \in JobIds \ {j} : jobs'[i] = jobs[i] /\ attempts'[i] = attempts[i]
  BY <1>3, <1>4
<1>9. /\ jobs'[j].state = "running"
      /\ jobs'[j].locked_by = WorkerIdOf[p]
      /\ jobs'[j].locked_pid = PidOf[p]
      /\ jobs'[j].heartbeat_at = clock
      /\ jobs'[j].crashes = jobs[j].crashes
      /\ DOMAIN jobs' = JobIds
  BY <1>3, <1>4 DEF JobRow
<1> HIDE DEF n, tries
<1>10. held' = [held EXCEPT ![p] = <<j, Len(attempts[j]) + 1>>]
  BY <1>1, <1>2
<1>11. Len(attempts'[j]) = Len(attempts[j]) + 1
  BY <1>7 DEF n
<1> QED
  BY <1>1, <1>2, <1>4, <1>8, <1>9, <1>10, <1>11

\* A claim keeps ReapInv: its attempt is newer than any held before, and its
\* heartbeat is not older than any pass under way.
LEMMA ClaimKeepsReapInv ==
    ASSUME StoreInv, WorkerTypeOK', ReapInv, NEW p \in Procs, Claim(p)
    PROVE  ReapInv'
<1>1. PICK j \in JobIds :
         /\ held' = [held EXCEPT ![p] = <<j, Len(attempts[j]) + 1>>]
         /\ Len(attempts[j]) \in Nat
         /\ Len(attempts'[j]) = Len(attempts[j]) + 1
         /\ jobs'[j].locked_pid = PidOf[p]
         /\ jobs'[j].heartbeat_at = clock
         /\ \A i \in JobIds \ {j} : jobs'[i] = jobs[i] /\ attempts'[i] = attempts[i]
         /\ DOMAIN jobs' = JobIds /\ UNCHANGED <<clock, lastId>>
  BY ClaimFacts
<1>0. /\ clock \in Nat /\ lastId \in Nat /\ JobIds \subseteq 1..lastId
      /\ \A q \in Procs : passAt[q] \in Nat /\ passAt[q] <= clock
      /\ held \in [Procs -> Nat \X Nat]
      /\ pc \in [Procs -> Points]
  BY DEF StoreInv, TypeOK, ReapInv, PidInv, LoopTypeOK
<1>2. /\ pc[p] = "claiming" /\ pc' = [pc EXCEPT ![p] = "spawning"]
      /\ UNCHANGED <<passAt, cands, foreign>>
  BY DEF Claim
<1>3. /\ held'[p] = <<j, Len(attempts[j]) + 1>>
      /\ \A q \in Procs \ {p} : held'[q] = held[q]
  BY <1>0, <1>1
<1>4. \A q \in Procs : held[q][1] = j => held[q][2] <= Len(attempts[j])
  BY DEF ReapInv, HeldInv, LastNo
<1>5. HeldInv'
  <2> SUFFICES ASSUME NEW q \in Procs
               PROVE  /\ held'[q][1] <= lastId'
                      /\ held'[q][1] \in JobIds =>
                            held'[q][2] <= Len(attempts'[held'[q][1]])
                      /\ pc'[q] = "unborn" => held'[q] = NoClaim
    BY <1>1 DEF HeldInv, LastNo, JobIds
  <2>1. CASE q = p
    BY <1>0, <1>1, <1>2, <1>3, <2>1
  <2>2. CASE q # p
    <3>1. /\ held[q][1] <= lastId
          /\ held[q][1] \in JobIds => held[q][2] <= Len(attempts[held[q][1]])
          /\ pc[q] = "unborn" => held[q] = NoClaim
          /\ held[q][2] \in Nat
      BY <1>0 DEF ReapInv, HeldInv, LastNo
    <3>2. CASE held[q][1] = j
      BY <1>0, <1>1, <1>2, <1>3, <2>2, <3>1, <3>2
    <3>3. CASE held[q][1] # j
      BY <1>0, <1>1, <1>2, <1>3, <2>2, <3>1, <3>3
    <3> QED
      BY <3>2, <3>3
  <2> QED
    BY <2>1, <2>2
<1>6. \A q \in Procs : held'[q] = <<j, Len(attempts'[j])>> => q = p
  <2> SUFFICES ASSUME NEW q \in Procs, q # p, held[q] = <<j, Len(attempts[j]) + 1>>
               PROVE  FALSE
    BY <1>1, <1>3
  <2> QED
    BY <1>1, <1>4
<1>7. HolderInv'
  <2> SUFFICES ASSUME NEW q \in Procs, NEW i \in JobIds, jobs'[i].state = "running",
                      held'[q] = <<i, Len(attempts'[i])>>
               PROVE  jobs'[i].locked_pid = PidOf[q]
    BY <1>1 DEF HolderInv, Holds, LastNo, JobIds
  <2>1. CASE i = j
    BY <1>1, <1>6, <2>1
  <2>2. CASE i # j
    <3>1. q # p
      BY <1>3, <2>2
    <3> QED
      BY <1>1, <1>3, <2>2, <3>1 DEF ReapInv, HolderInv, Holds, LastNo
  <2> QED
    BY <2>1, <2>2
<1>8. PidInv'
  BY <1>0, <1>1, <1>2 DEF ReapInv, PidInv, Alive, Absent
<1>9. ConfirmedInv'
  <2> SUFFICES ASSUME NEW r \in Procs, NEW q \in Procs, Threatened(r, q)'
               PROVE  jobs'[First(cands'[r]).job].heartbeat_at
                        >= passAt'[r] - REAP_THRESHOLD
    BY DEF ConfirmedInv
  <2> DEFINE c == First(cands[r])
  <2>1. /\ pc'[r] = "confirmed" /\ pc'[q] \notin Absent /\ First(cands'[r]) = c
        /\ passAt'[r] = passAt[r] /\ PidOf[q] = c.pid
        /\ c.job \in JobIds /\ jobs'[c.job].state = "running"
        /\ held'[q] = <<c.job, Len(attempts'[c.job])>>
    BY <1>1, <1>2 DEF Threatened, Holds, LastNo, JobIds, Alive
  <2>2. pc[r] = "confirmed" /\ pc[q] \notin Absent
    BY <1>0, <1>2, <2>1 DEF Absent
  <2>3. CASE c.job = j
    BY <1>0, <1>1, <2>1, <2>3, TunablesAssumption
  <2>4. CASE c.job # j
    <3>1. q # p
      BY <1>3, <2>1, <2>4
    <3>2. /\ jobs'[c.job] = jobs[c.job]
          /\ held[q] = <<c.job, Len(attempts[c.job])>>
      BY <1>1, <1>3, <2>1, <2>4, <3>1
    <3>3. jobs[c.job].heartbeat_at >= passAt[r] - REAP_THRESHOLD
      BY <2>1, <2>2, <3>2 DEF ReapInv, ConfirmedInv, Threatened, Holds, LastNo, Alive
    <3> QED
      BY <2>1, <3>2, <3>3
  <2> QED
    BY <2>3, <2>4
<1>10. LoopTypeOK'
  BY DEF WorkerTypeOK
<1> QED
  BY <1>5, <1>7, <1>8, <1>9, <1>10 DEF ReapInv

\* Every step of the system is a claim, or calm for the database; and only a
\* worker that reaps counts a crash.
LEMMA StepFacts ==
    ASSUME StoreInv, WorkerTypeOK, ReapInv, [Next]_vars
    PROVE  /\ StoreInv'
           /\ (\E p \in Procs : Claim(p)) \/ Calm
           /\ (\E p \in Procs : ReapOne(p)) \/ NoCrash
<1>0. /\ PidOf \in [Procs -> Pids] /\ WorkerIdOf \in [Procs -> WorkerIds]
      /\ clock \in Nat
      /\ \A i \in JobIds : jobs[i].crashes \in Nat
  BY ProcsAssumption DEF StoreInv, TypeOK, JobRow
<1>1. ASSUME UNCHANGED storeVars \/ Tick
      PROVE  StoreInv' /\ Calm /\ NoCrash
  BY <1>1, IdleIsCalm, StoreStep DEF StoreNext
<1>2. ASSUME ClientNext
      PROVE  StoreInv' /\ Calm /\ NoCrash
  BY <1>2, ClientIsCalm, StoreStep DEF StoreNext
<1>3. ASSUME NEW p \in Procs, Claim(p)
      PROVE  StoreInv' /\ NoCrash
  <2>1. PICK j \in JobIds :
           /\ claim_next(j, WorkerIdOf[p], PidOf[p], LaneOf[p], clock)
           /\ jobs'[j].crashes = jobs[j].crashes
           /\ \A i \in JobIds \ {j} : jobs'[i] = jobs[i]
    BY <1>3, ClaimFacts
  <2>2. StoreInv'
    BY <1>0, <2>1, ClaimPreserves
  <2>3. \A i \in JobIds : ~(jobs'[i].crashes > jobs[i].crashes)
    BY <1>0, <2>1
  <2> QED
    BY <2>2, <2>3 DEF NoCrash
<1>4. ASSUME NEW p \in Procs, Beat(p)
      PROVE  StoreInv' /\ Calm /\ NoCrash
  <2>1. CASE UNCHANGED storeVars
    BY <1>1, <2>1
  <2>2. CASE update_heartbeat(held[p][1], WorkerIdOf[p], PidOf[p], clock)
    <3>1. held[p][1] \in JobIds
      BY <2>2 DEF update_heartbeat, Owns
    <3> QED
      BY <2>2, <3>1, HeartbeatPreserves, BeatIsCalm
  <2> QED
    BY <1>4, <2>1, <2>2 DEF Beat
<1>5. ASSUME NEW p \in Procs, Record(p)
      PROVE  StoreInv' /\ Calm /\ NoCrash
  <2> DEFINE j == held[p][1]
             no == held[p][2]
  <2>1. CASE UNCHANGED storeVars
    BY <1>1, <2>1
  <2>2. CASE record_success(j, no, WorkerIdOf[p], PidOf[p], clock)
    <3>1. j \in JobIds
      BY <2>2 DEF record_success, Owns
    <3> HIDE DEF j, no
    <3> QED
      BY <2>2, <3>1, SuccessPreserves, OutcomeIsCalm
  <2>3. CASE /\ record_failure(j, no, WorkerIdOf[p], PidOf[p], result[p], clock)
             /\ result[p] # "succeeded"
    <3>1. j \in JobIds
      BY <2>3 DEF record_failure, Owns
    <3>2. result[p] \in {"process_exit", "timeout", "spawn_failed"}
      BY <1>5, <2>3 DEF Record, WorkerTypeOK, Reasons
    <3> HIDE DEF j, no
    <3> QED
      BY <2>3, <3>1, <3>2, FailurePreserves, OutcomeIsCalm
  <2> QED
    BY <1>5, <2>1, <2>2, <2>3 DEF Record
<1>6. ASSUME NEW p \in Procs, ReapOne(p)
      PROVE  StoreInv' /\ Calm
  <2> DEFINE c == First(cands[p])
             cutoff == passAt[p] - REAP_THRESHOLD
  <2>1. CASE UNCHANGED storeVars
    BY <1>1, <2>1
  <2>2. CASE reap(c.job, c.pid, cutoff, passAt[p])
    <3>1. c.job \in JobIds /\ passAt[p] \in Time
      BY <2>2 DEF reap, Reapable, ReapInv, LoopTypeOK, Time
    <3> HIDE DEF c, cutoff
    <3> QED
      BY <2>2, <3>1, ReapPreserves, ReapIsCalm
  <2> QED
    BY <1>6, <2>1, <2>2 DEF ReapOne
<1>7. ASSUME NEW p \in Procs, LoopStep(p),
             ~Claim(p), ~Record(p), ~ReapOne(p)
      PROVE  UNCHANGED storeVars
  BY <1>7 DEF LoopStep, ReapBegin, CheckOwner, ClaimNothing, Settle, Stop, Spawn, SpawnFails
<1>8. ASSUME NEW p \in Procs, KillLost(p) \/ Environment(p)
      PROVE  UNCHANGED storeVars
  BY <1>8 DEF KillLost, Environment, Start, Crash, Hang, Signal, SignalAgain,
              ChildEnds, Timeout, ThreadDies
<1>9. ASSUME NEW pid \in Pids, ForeignStart(pid) \/ ForeignExit(pid)
      PROVE  UNCHANGED storeVars
  BY <1>9 DEF ForeignStart, ForeignExit
<1>10. CASE UNCHANGED vars
  BY <1>1, <1>10 DEF vars
<1>11. CASE Next
  BY <1>1, <1>2, <1>3, <1>4, <1>5, <1>6, <1>7, <1>8, <1>9, <1>11 DEF Next, BeatStep
<1> QED
  BY <1>10, <1>11

\* The empty database and no workers satisfy the invariant.
LEMMA PassInit == Init => PassInv
<1> SUFFICES ASSUME Init PROVE PassInv
  OBVIOUS
<1>1. StoreInv
  BY DEF Init, StoreInit, StoreInv, TypeOK, LockInv, BudgetInv, BackoffInv, LogInv, JobIds
<1>2. WorkerTypeOK
  BY DEF Init, WorkerInit, WorkerTypeOK, LoopTypeOK, Points, Absent, ExecutingAt, NoClaim
<1>3. ReapInv
  BY <1>2 DEF Init, StoreInit, WorkerInit, WorkerTypeOK, ReapInv, HeldInv, HolderInv,
              PidInv, ConfirmedInv, Threatened, JobIds, NoClaim
<1> QED
  BY <1>1, <1>2, <1>3 DEF PassInv

\* Every step of the system keeps the invariant.
LEMMA PassStep == PassInv /\ [Next]_vars => PassInv'
<1> SUFFICES ASSUME PassInv, [Next]_vars PROVE PassInv'
  OBVIOUS
<1>1. StoreInv /\ WorkerTypeOK /\ ReapInv
  BY DEF PassInv
<1>2. StoreInv' /\ WorkerTypeOK'
  BY <1>1, StepFacts, WorkerTypesStep
<1>3. ASSUME NEW p \in Procs, Claim(p)
      PROVE  ReapInv'
  BY <1>1, <1>2, <1>3, ClaimKeepsReapInv
<1>4. ASSUME \A p \in Procs : ~Claim(p)
      PROVE  ReapInv'
  <2>1. Calm
    BY <1>1, <1>4, StepFacts
  <2>2. LoopCalm
    BY <1>1, <1>4, LoopStepIsCalm, OtherStepIsCalm, RestIsCalm DEF Next, vars
  <2> QED
    BY <1>1, <1>2, <2>1, <2>2, CalmKeepsReapInv
<1> QED
  BY <1>2, <1>3, <1>4 DEF PassInv

\* In every reachable state the three tables, the loops and the passes fit
\* together.
THEOREM PassesAreSafe == Spec => []PassInv
  BY PassInit, PassStep, PTL DEF Spec

\* Heartbeat thread, child and result of a worker exist exactly where its
\* loop is at the point that has them.
THEOREM WorkerTypes == Spec => []WorkerTypeOK
<1>1. PassInv => WorkerTypeOK
  BY DEF PassInv
<1> QED
  BY <1>1, PassesAreSafe, PTL

\* A worker that lives under the pid a reap pass took for dead has a claim
\* younger than the pass.
THEOREM PassesAreCautious == Spec => []ReapInv
<1>1. PassInv => ReapInv
  BY DEF PassInv
<1> QED
  BY <1>1, PassesAreSafe, PTL

\* One step counts a crash only against an incarnation that is gone.
LEMMA ReapStep == PassInv /\ [Next]_vars => ReapsDead
<1> SUFFICES ASSUME PassInv, [Next]_vars,
                    NEW j \in JobIds, j \in DOMAIN jobs',
                    jobs'[j].crashes > jobs[j].crashes,
                    NEW q \in Procs, Holds(q, j, LastNo(j)), Alive(q)
             PROVE  FALSE
  BY DEF ReapsDead
<1>1. StoreInv /\ WorkerTypeOK /\ ReapInv
  BY DEF PassInv
<1>2. PICK p \in Procs : ReapOne(p)
  BY <1>1, StepFacts DEF NoCrash
<1> DEFINE c == First(cands[p])
           cutoff == passAt[p] - REAP_THRESHOLD
<1>3. /\ jobs \in [JobIds -> JobRow] /\ jobs[j].crashes \in Nat
  BY <1>1 DEF StoreInv, TypeOK, JobRow
<1>4. reap(c.job, c.pid, cutoff, passAt[p])
  <2>1. jobs' # jobs
    BY <1>3
  <2> QED
    BY <1>2, <2>1 DEF ReapOne, storeVars
<1>5. j = c.job
  BY <1>3, <1>4 DEF reap
<1>6. /\ jobs[j].state = "running" /\ jobs[j].locked_pid = c.pid
      /\ jobs[j].heartbeat_at < cutoff /\ jobs[j].heartbeat_at \in Int
  <2>1. /\ jobs[j].state = "running" /\ jobs[j].locked_pid = c.pid
        /\ jobs[j].heartbeat_at < cutoff /\ jobs[j].heartbeat_at # NULL
    BY <1>4, <1>5 DEF reap, Reapable, Stale
  <2> QED
    BY <1>3, <2>1 DEF JobRow, Time
<1>7. PidOf[q] = c.pid
  BY <1>1, <1>6 DEF ReapInv, HolderInv
<1>8. Threatened(p, q)
  BY <1>2, <1>5, <1>6, <1>7 DEF Threatened, ReapOne
<1>9. jobs[j].heartbeat_at >= cutoff
  BY <1>1, <1>5, <1>8 DEF ReapInv, ConfirmedInv
<1>10. cutoff \in Int
  BY <1>1, TunablesAssumption DEF ReapInv, LoopTypeOK
<1> HIDE DEF cutoff
<1> QED
  BY <1>6, <1>9, <1>10

\* A job is never reclaimed while the process that executes it is alive, for
\* any number of workers, jobs and recycled pids.
THEOREM ReapsAreSafe == Spec => ReapsOnlyTheDead
  BY PassesAreSafe, ReapStep, PTL DEF Spec, ReapsOnlyTheDead
=============================================================================
