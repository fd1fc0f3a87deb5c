------------------------------- MODULE Worker -------------------------------
(***************************************************************************)
(* The worker processes of spoolctl/worker.py on one queue database: the   *)
(* work loop with its inline reap pass, the heartbeat thread, the child    *)
(* process group, signals and crashes, together with the clients of Store. *)
(*                                                                         *)
(* A member of Procs is one incarnation of a worker process.  The store    *)
(* knows it only by worker_id and pid, and the operating system gives the  *)
(* pid of a dead process to a later one.  Each action is what happens      *)
(* between two points at which another process can run: one transaction,   *)
(* one probe of a pid, one spawn.  time.time() is read where a transaction *)
(* starts; only reap_pass carries a reading across several steps.          *)
(***************************************************************************)
EXTENDS Store

CONSTANTS
    Procs,          \* incarnations of worker processes
    PidOf,          \* incarnation -> pid
    WorkerIdOf,     \* incarnation -> worker_id
    LaneOf,         \* incarnation -> --queue
    Draining,       \* the incarnations started with --drain
    Signaled,       \* the incarnations that may receive SIGINT or SIGTERM
    MayCrash,       \* the incarnations that may die
    LastCrashTime,  \* bound: none dies or hangs after this time
    ForeignPids,    \* pids that a process other than a worker may get
    MayHang,        \* incarnations that may stop making progress without dying
    MayLoseThread   \* incarnations whose heartbeat thread may fail to start

ASSUME ProcsAssumption ==
    /\ NULL \notin Procs
    /\ PidOf \in [Procs -> Pids]
    /\ WorkerIdOf \in [Procs -> WorkerIds]
    /\ LaneOf \in [Procs -> Lanes]
    /\ Draining \subseteq Procs
    /\ Signaled \subseteq Procs
    /\ MayCrash \subseteq Procs
    /\ LastCrashTime \in Nat
    /\ ForeignPids \subseteq Pids
    /\ MayHang \subseteq Procs
    /\ MayLoseThread \subseteq Procs

VARIABLES
    pc,         \* where each incarnation is in work_loop
    passAt,     \* the clock reading its reap pass works with
    cands,      \* the candidates its reap pass has still to look at
    held,       \* the job and attempt_no it executes, or died executing
    result,     \* what execute_attempt returned
    beat,       \* its heartbeat thread
    child,      \* the process group it spawned, which outlives it
    stopping,   \* it has received SIGINT or SIGTERM
    foreign     \* pids held by processes that are not workers

workerVars == <<pc, passAt, cands, held, result, beat, child, stopping, foreign>>
vars == <<storeVars, workerVars>>

-----------------------------------------------------------------------------

Absent == {"unborn", "exited", "dead"}
ExecutingAt == {"spawning", "waiting", "recording"}

Alive(p) == pc[p] \notin Absent

Reasons == {"process_exit", "timeout", "spawn_failed"}

Points ==
    Absent \cup ExecutingAt \cup
    {"loop", "reaping", "confirmed", "claiming", "settling", "hung"}

Candidates == [job : Nat, pid : Pids, beat : Time]

\* No job has id 0.
NoClaim == <<0, 0>>

LoopTypeOK ==
    /\ pc \in [Procs -> Points]
    /\ passAt \in [Procs -> Nat]
    /\ cands \in [Procs -> SUBSET Candidates]
    /\ held \in [Procs -> Nat \X Nat]

\* Every variable holds a value of its type, and the heartbeat thread, the
\* child and the result of a worker exist exactly where its loop is at the
\* point that has them (process_one's with block and its aftermath).
WorkerTypeOK ==
    /\ LoopTypeOK
    /\ result \in [Procs -> Reasons \cup {"succeeded", NULL}]
    /\ beat \in [Procs -> {"off", "on", "killing", "gone"}]
    /\ child \in [Procs -> BOOLEAN]
    /\ stopping \in [Procs -> BOOLEAN]
    /\ foreign \subseteq ForeignPids
    /\ \A p \in Procs :
         /\ cands[p] # {} <=> pc[p] \in {"reaping", "confirmed"}
         /\ result[p] # NULL <=> pc[p] = "recording"
         /\ pc[p] \in ExecutingAt => held[p] # NoClaim
         /\ beat[p] # "off" <=> pc[p] \in {"spawning", "waiting"}
         /\ beat[p] = "killing" => child[p]
         /\ child[p] => held[p] # NoClaim /\ pc[p] \in {"waiting", "dead", "hung"}

WorkerInit ==
    /\ pc = [p \in Procs |-> "unborn"]
    /\ passAt = [p \in Procs |-> 0]
    /\ cands = [p \in Procs |-> {}]
    /\ held = [p \in Procs |-> NoClaim]
    /\ result = [p \in Procs |-> NULL]
    /\ beat = [p \in Procs |-> "off"]
    /\ child = [p \in Procs |-> FALSE]
    /\ stopping = [p \in Procs |-> FALSE]
    /\ foreign = {}

Init == StoreInit /\ WorkerInit

-----------------------------------------------------------------------------
(* The operating system                                                    *)

PidFree(pid) == pid \notin foreign /\ \A q \in Procs : PidOf[q] = pid => ~Alive(q)

Start(p) ==
    /\ pc[p] = "unborn"
    /\ PidFree(PidOf[p])
    /\ pc' = [pc EXCEPT ![p] = "loop"]
    /\ UNCHANGED <<storeVars, passAt, cands, held, result, beat, child, stopping, foreign>>

\* SIGKILL, the OOM killer, an exception out of the loop (a busy database, an
\* output directory that cannot be made): the child keeps running, it leads
\* a session of its own.
Crash(p) ==
    /\ p \in MayCrash
    /\ Alive(p)
    /\ clock <= LastCrashTime
    /\ pc' = [pc EXCEPT ![p] = "dead"]
    /\ cands' = [cands EXCEPT ![p] = {}]
    /\ passAt' = [passAt EXCEPT ![p] = 0]
    /\ result' = [result EXCEPT ![p] = NULL]
    /\ beat' = [beat EXCEPT ![p] = "off"]
    /\ UNCHANGED <<storeVars, held, child, stopping, foreign>>

\* Alive and stuck, heartbeat thread included (a stopped process, say).
Hang(p) ==
    /\ p \in MayHang
    /\ Alive(p)
    /\ clock <= LastCrashTime
    /\ pc' = [pc EXCEPT ![p] = "hung"]
    /\ cands' = [cands EXCEPT ![p] = {}]
    /\ passAt' = [passAt EXCEPT ![p] = 0]
    /\ result' = [result EXCEPT ![p] = NULL]
    /\ beat' = [beat EXCEPT ![p] = "off"]
    /\ UNCHANGED <<storeVars, held, child, stopping, foreign>>

ForeignStart(pid) ==
    /\ pid \in ForeignPids
    /\ PidFree(pid)
    /\ foreign' = foreign \cup {pid}
    /\ UNCHANGED <<storeVars, pc, passAt, cands, held, result, beat, child, stopping>>

ForeignExit(pid) ==
    /\ pid \in foreign
    /\ foreign' = foreign \ {pid}
    /\ UNCHANGED <<storeVars, pc, passAt, cands, held, result, beat, child, stopping>>

\* on_signal: the first one asks the loop to stop, a later one kills the
\* child's process group.
Signal(p) ==
    /\ p \in Signaled
    /\ Alive(p)
    /\ ~stopping[p]
    /\ stopping' = [stopping EXCEPT ![p] = TRUE]
    /\ UNCHANGED <<storeVars, pc, passAt, cands, held, result, beat, child, foreign>>

-----------------------------------------------------------------------------
(* reap_pass                                                               *)

\* Mutants: silence is taken for death; a probe that never answers.
is_worker_pid_dead_Guess(pid) == IF PidFree(pid) THEN {TRUE} ELSE {TRUE, FALSE}
is_worker_pid_dead_Never(pid) == {FALSE}

\* is_worker_pid_dead: a free pid is dead, a live worker is not, and the
\* process that took a dead worker's pid is told apart by its command line
\* unless it belongs to another user or ps fails.
is_worker_pid_dead(pid) ==
    IF PidFree(pid) THEN {TRUE}
    ELSE IF pid \in foreign THEN {TRUE, FALSE}
    ELSE {FALSE}

stale_running_candidates(cutoff) ==
    {[job |-> j, pid |-> jobs[j].locked_pid, beat |-> jobs[j].heartbeat_at] :
        j \in {i \in JobIds : Stale(i, cutoff)}}

\* ORDER BY heartbeat_at, id
First(S) ==
    CHOOSE c \in S : \A d \in S \ {c} :
        c.beat < d.beat \/ (c.beat = d.beat /\ c.job < d.job)

AfterCands(S) == IF S = {} THEN "claiming" ELSE "reaping"

\* The top of the loop: the pass reads the clock and nominates.
ReapBegin(p) ==
    /\ pc[p] = "loop"
    /\ ~stopping[p]
    /\ LET S == stale_running_candidates(clock - REAP_THRESHOLD)
       IN  /\ cands' = [cands EXCEPT ![p] = S]
           /\ passAt' = [passAt EXCEPT ![p] = IF S = {} THEN 0 ELSE clock]
           /\ pc' = [pc EXCEPT ![p] = AfterCands(S)]
    /\ UNCHANGED <<storeVars, held, result, beat, child, stopping, foreign>>

\* The candidate at hand leaves the pass.
DropFirst(p) ==
    LET S == cands[p] \ {First(cands[p])}
    IN  /\ cands' = [cands EXCEPT ![p] = S]
        /\ passAt' = [passAt EXCEPT ![p] = IF S = {} THEN 0 ELSE @]
        /\ pc' = [pc EXCEPT ![p] = AfterCands(S)]

\* The liveness probe, outside any transaction.
CheckOwner(p) ==
    /\ pc[p] = "reaping"
    /\ \E dead \in is_worker_pid_dead(First(cands[p]).pid) :
          IF dead
          THEN pc' = [pc EXCEPT ![p] = "confirmed"] /\ UNCHANGED <<passAt, cands>>
          ELSE DropFirst(p)
    /\ UNCHANGED <<storeVars, held, result, beat, child, stopping, foreign>>

\* store.reap with the pid and the cutoff of the pass; a failed re-check
\* changes nothing.
ReapOne(p) ==
    /\ pc[p] = "confirmed"
    /\ LET c == First(cands[p])
           cutoff == passAt[p] - REAP_THRESHOLD
       IN  \/ reap(c.job, c.pid, cutoff, passAt[p])
           \/ ~Reapable(c.job, c.pid, cutoff) /\ UNCHANGED storeVars
    /\ DropFirst(p)
    /\ UNCHANGED <<held, result, beat, child, stopping, foreign>>

-----------------------------------------------------------------------------
(* process_one and work_loop                                               *)

Claim(p) ==
    /\ pc[p] = "claiming"
    /\ \E j \in JobIds :
          /\ claim_next(j, WorkerIdOf[p], PidOf[p], LaneOf[p], clock)
          /\ held' = [held EXCEPT ![p] = <<j, NextAttemptNo(j)>>]
    /\ pc' = [pc EXCEPT ![p] = "spawning"]
    /\ beat' = [beat EXCEPT ![p] = "on"]
    /\ UNCHANGED <<passAt, cands, result, child, stopping, foreign>>

\* Nothing to claim: poll again, or ask whether the lane has settled.
ClaimNothing(p) ==
    /\ pc[p] = "claiming"
    /\ \A j \in JobIds : ~CanClaim(j, LaneOf[p], clock)
    /\ pc' = [pc EXCEPT ![p] = IF p \in Draining THEN "settling" ELSE "loop"]
    /\ UNCHANGED <<storeVars, passAt, cands, held, result, beat, child, stopping, foreign>>

Settle(p) ==
    /\ pc[p] = "settling"
    /\ pc' = [pc EXCEPT ![p] =
                IF Unsettled(LaneOf[p], clock) = {} THEN "exited" ELSE "loop"]
    /\ UNCHANGED <<storeVars, passAt, cands, held, result, beat, child, stopping, foreign>>

\* Mutant: the signal handler ends the process wherever it is.
Stop_AtOnce(p) ==
    /\ pc[p] \in {"loop", "spawning"}
    /\ stopping[p]
    /\ pc' = [pc EXCEPT ![p] = "exited"]
    /\ beat' = [beat EXCEPT ![p] = "off"]
    /\ UNCHANGED <<storeVars, passAt, cands, held, result, child, stopping, foreign>>

\* The loop condition after a signal.
Stop(p) ==
    /\ pc[p] = "loop"
    /\ stopping[p]
    /\ pc' = [pc EXCEPT ![p] = "exited"]
    /\ UNCHANGED <<storeVars, passAt, cands, held, result, beat, child, stopping, foreign>>

Spawn(p) ==
    /\ pc[p] = "spawning"
    /\ pc' = [pc EXCEPT ![p] = "waiting"]
    /\ child' = [child EXCEPT ![p] = TRUE]
    /\ UNCHANGED <<storeVars, passAt, cands, held, result, beat, stopping, foreign>>

\* Mutant: the heartbeat thread outlives the attempt.
Returns_KeepsBeating(p, r) ==
    /\ pc' = [pc EXCEPT ![p] = "recording"]
    /\ result' = [result EXCEPT ![p] = r]
    /\ UNCHANGED beat

\* execute_attempt returns r: the heartbeat's context manager stops the
\* thread and the worker goes on to record.
Returns(p, r) ==
    /\ pc' = [pc EXCEPT ![p] = "recording"]
    /\ result' = [result EXCEPT ![p] = r]
    /\ beat' = [beat EXCEPT ![p] = "off"]

SpawnFails(p) ==
    /\ pc[p] = "spawning"
    /\ Returns(p, "spawn_failed")
    /\ UNCHANGED <<storeVars, passAt, cands, held, child, stopping, foreign>>

\* The child ends by itself or by a signal someone sent it.
ChildEnds(p) ==
    /\ child[p]
    /\ child' = [child EXCEPT ![p] = FALSE]
    /\ IF pc[p] = "waiting"
       THEN \E r \in {"succeeded", "process_exit"} : Returns(p, r)
       ELSE UNCHANGED <<pc, result, beat>>
    /\ UNCHANGED <<storeVars, passAt, cands, held, stopping, foreign>>

\* proc.wait times out; _kill_group ends the child before the result is known.
Timeout(p) ==
    /\ pc[p] = "waiting"
    /\ child' = [child EXCEPT ![p] = FALSE]
    /\ Returns(p, "timeout")
    /\ UNCHANGED <<storeVars, passAt, cands, held, stopping, foreign>>

\* A second signal kills the child's group outright.
SignalAgain(p) ==
    /\ pc[p] = "waiting"
    /\ stopping[p]
    /\ child' = [child EXCEPT ![p] = FALSE]
    /\ Returns(p, "process_exit")
    /\ UNCHANGED <<storeVars, passAt, cands, held, stopping, foreign>>

Record(p) ==
    /\ pc[p] = "recording"
    /\ LET j == held[p][1]
           no == held[p][2]
       IN  \/ /\ result[p] = "succeeded"
              /\ record_success(j, no, WorkerIdOf[p], PidOf[p], clock)
           \/ /\ result[p] # "succeeded"
              /\ record_failure(j, no, WorkerIdOf[p], PidOf[p], result[p], clock)
           \/ /\ ~Owns(j, WorkerIdOf[p], PidOf[p])     \* discarding stale result
              /\ UNCHANGED storeVars
    /\ pc' = [pc EXCEPT ![p] = "loop"]
    /\ held' = [held EXCEPT ![p] = NoClaim]
    /\ result' = [result EXCEPT ![p] = NULL]
    /\ UNCHANGED <<passAt, cands, beat, child, stopping, foreign>>

-----------------------------------------------------------------------------
(* Heartbeat                                                               *)

\* Mutant: a beat that matches no row is taken for one that failed, and the
\* thread tries again.
Beat_TriesAgain(p) ==
    /\ beat[p] = "on"
    /\ \/ update_heartbeat(held[p][1], WorkerIdOf[p], PidOf[p], clock)
       \/ ~Owns(held[p][1], WorkerIdOf[p], PidOf[p]) /\ UNCHANGED storeVars
    /\ UNCHANGED <<pc, passAt, cands, held, result, beat, child, stopping, foreign>>

\* One beat.  Zero rows matched is proof that ownership is lost: on_lost
\* kills the child if there is one yet, and the thread ends either way.
Beat(p) ==
    /\ beat[p] = "on"
    /\ \/ /\ update_heartbeat(held[p][1], WorkerIdOf[p], PidOf[p], clock)
          /\ UNCHANGED beat
       \/ /\ ~Owns(held[p][1], WorkerIdOf[p], PidOf[p])
          /\ beat' = [beat EXCEPT ![p] = IF child[p] THEN "killing" ELSE "gone"]
          /\ UNCHANGED storeVars
    /\ UNCHANGED <<pc, passAt, cands, held, result, child, stopping, foreign>>

\* The kill of on_lost takes effect; the child may still exit with 0.
KillLost(p) ==
    /\ beat[p] = "killing"
    /\ child' = [child EXCEPT ![p] = FALSE]
    /\ \E r \in {"succeeded", "process_exit"} : Returns(p, r)
    /\ UNCHANGED <<storeVars, passAt, cands, held, stopping, foreign>>

\* The thread opens its connection outside its try block.
ThreadDies(p) ==
    /\ p \in MayLoseThread
    /\ beat[p] = "on"
    /\ beat' = [beat EXCEPT ![p] = "gone"]
    /\ UNCHANGED <<storeVars, pc, passAt, cands, held, result, child, stopping, foreign>>

-----------------------------------------------------------------------------
(* Specification                                                           *)

\* What the code of one worker does by itself.
LoopStep(p) ==
    \/ ReapBegin(p) \/ CheckOwner(p) \/ ReapOne(p)
    \/ Claim(p) \/ ClaimNothing(p) \/ Settle(p) \/ Stop(p)
    \/ Spawn(p) \/ SpawnFails(p) \/ Record(p)

BeatStep(p) == Beat(p) \/ KillLost(p)

Environment(p) ==
    \/ Start(p) \/ Crash(p) \/ Hang(p) \/ Signal(p) \/ SignalAgain(p)
    \/ ChildEnds(p) \/ Timeout(p) \/ ThreadDies(p)

Next ==
    \/ \E p \in Procs : LoopStep(p) \/ BeatStep(p) \/ Environment(p)
    \/ \E pid \in Pids : ForeignStart(pid) \/ ForeignExit(pid)
    \/ (Tick \/ ClientNext) /\ UNCHANGED workerVars

Spec == Init /\ [][Next]_vars

\* The clock runs, and a worker that is alive and not hung keeps going round
\* its loop and beating.  Nothing is assumed of clients, of crashes, or of
\* how long a command runs.
Fairness ==
    /\ WF_vars(Tick /\ UNCHANGED workerVars)
    /\ \A p \in Procs : WF_vars(Start(p)) /\ WF_vars(LoopStep(p)) /\ WF_vars(BeatStep(p))

FairSpec == Spec /\ Fairness

\* A live worker executes an attempt that an operator revoked (cancel
\* --running, retry --force) until its next heartbeat tells it; prune may
\* have removed the row by then.
Revoked(p) ==
    LET j == held[p][1]
        no == held[p][2]
    IN  j \in JobIds => attempts[j][no].failure_reason = "canceled"

\* A command whose job was taken away is left to the heartbeat thread, as
\* long as that runs.
LeftToHeartbeat(p) == beat[p] \in {"on", "killing"} /\ Revoked(p)

\* In addition, every job has a timeout and proc.wait enforces it; of a
\* command that is left to the heartbeat thread that is not assumed.
TimedSpec ==
    FairSpec /\ \A p \in Procs : WF_vars(Timeout(p) /\ ~LeftToHeartbeat(p))
-----------------------------------------------------------------------------
(* Safety                                                                  *)

\* p executes attempt no of job j, or died or hung while it did.
Holds(p, j, no) == held[p] = <<j, no>>

LastNo(j) == Len(attempts[j])

\* The attempts table tells the truth about the job: a running job has one
\* open attempt, its last, opened by the process whose identity locks the
\* row; a job that is not running has none.  A late result of a worker that
\* lost the job, or a reap of a job that was claimed again, would leave an
\* attempt open or close the wrong one.
AttemptsMatchJob ==
    \A j \in JobIds :
        /\ \A no \in DOMAIN attempts[j] :
             attempts[j][no].state = "running" <=>
               jobs[j].state = "running" /\ no = LastNo(j)
        /\ jobs[j].state = "running" =>
             \E p \in Procs :
                /\ Holds(p, j, LastNo(j))
                /\ jobs[j].locked_by = WorkerIdOf[p]
                /\ jobs[j].locked_pid = PidOf[p]

Executing(p) == pc[p] \in {"spawning", "waiting"}

\* No two live workers execute the same job, unless an operator took it
\* from all but one of them: neither reaping, nor the reuse of a pid, nor a
\* stalled heartbeat thread, nor a requeue causes double execution.
OverlapOnlyByOperator ==
    \A p, q \in Procs :
        /\ p # q
        /\ Executing(p) /\ Executing(q)
        /\ held[p][1] = held[q][1]
        => Revoked(p) \/ Revoked(q)

\* What an incarnation holds was claimed from an existing id, and its number
\* is not ahead of the attempts table; who was never started holds nothing.
HeldInv ==
    \A p \in Procs :
        /\ held[p][1] <= lastId
        /\ held[p][1] \in JobIds => held[p][2] <= LastNo(held[p][1])
        /\ pc[p] = "unborn" => held[p] = NoClaim

\* The lock of a running job shows the pid of the incarnation that opened
\* its last attempt.
HolderInv ==
    \A p \in Procs, j \in JobIds :
        jobs[j].state = "running" /\ Holds(p, j, LastNo(j)) =>
            jobs[j].locked_pid = PidOf[p]

\* A pid belongs to one process at a time.
PidInv ==
    /\ \A p \in Procs : PidOf[p] \in foreign => ~Alive(p)
    /\ \A p \in Procs : passAt[p] <= clock

\* q lives with the pid that p's reap pass has found dead, and has claimed
\* the very job p is about to reap.
Threatened(p, q) ==
    LET c == First(cands[p])
    IN  /\ pc[p] = "confirmed"
        /\ Alive(q)
        /\ PidOf[q] = c.pid
        /\ c.job \in JobIds
        /\ jobs[c.job].state = "running"
        /\ Holds(q, c.job, LastNo(c.job))

\* Such a claim is younger than the pass, so the re-check of heartbeat_at
\* saves it.
ConfirmedInv ==
    \A p, q \in Procs :
        Threatened(p, q) =>
            jobs[First(cands[p]).job].heartbeat_at >= passAt[p] - REAP_THRESHOLD

\* Why a reap never hits a live worker (reap_pass and store.reap): the pid
\* probe is stale by the time the row is updated, and the heartbeat alone
\* tells a new claim under a recycled pid from the dead one.
ReapInv == LoopTypeOK /\ HeldInv /\ HolderInv /\ PidInv /\ ConfirmedInv

\* A worker between two attempts, or gone by itself, holds nothing.
IdleInv ==
    \A p \in Procs : held[p] # NoClaim => pc[p] \in ExecutingAt \cup {"dead", "hung"}

\* No two live workers have one pid.
PidsDiffer ==
    \A p, q \in Procs : Alive(p) /\ Alive(q) /\ PidOf[p] = PidOf[q] => p = q

\* No attempt is held by two incarnations, dead ones included.
ClaimInv ==
    \A p \in Procs :
        held[p] # NoClaim =>
            /\ held[p][2] > 0
            /\ \A q \in Procs : held[q] = held[p] => q = p

\* Why the ownership guard is enough although it does not name the attempt:
\* a live worker that sees its own pid in the lock holds the last attempt.
GuardInv ==
    \A p \in Procs :
        LET j == held[p][1]
        IN  /\ Alive(p)
            /\ j \in JobIds
            /\ jobs[j].state = "running"
            /\ jobs[j].locked_pid = PidOf[p]
            => held[p][2] = LastNo(j)

\* The attempt of a live worker is open, or an operator closed it; an open
\* attempt has no failure reason yet.
LiveInv ==
    /\ \A p \in Procs :
         LET j == held[p][1]
             row == attempts[j][held[p][2]]
         IN  Alive(p) /\ j \in JobIds =>
                row.state = "running" \/ row.failure_reason = "canceled"
    /\ \A j \in JobIds : \A no \in DOMAIN attempts[j] :
         attempts[j][no].state = "running" => attempts[j][no].failure_reason = NULL

\* Who owns what: the attempts table, the lock columns and the workers'
\* own idea of what they execute fit together.
OwnershipInv ==
    IdleInv /\ PidsDiffer /\ ClaimInv /\ GuardInv /\ LiveInv /\ AttemptsMatchJob

\* The inductive invariant of the store and the reap passes: locks, budgets
\* and log of the store (StoreInv), heartbeat threads, children and results
\* where work_loop has them (WorkerTypeOK), and cautious reap passes.
PassInv == StoreInv /\ WorkerTypeOK /\ ReapInv

\* The inductive invariant of the whole system, tables and processes.
SystemInv == PassInv /\ OwnershipInv

ReapsDead ==
    \A j \in JobIds \cap DOMAIN jobs' :
        jobs'[j].crashes > jobs[j].crashes =>
            \A p \in Procs : Holds(p, j, LastNo(j)) => ~Alive(p)

\* Never reclaimed while the owning process is still alive: a reap counts a
\* crash only against an incarnation that is gone, whoever has its pid now.
ReapsOnlyTheDead == [][ReapsDead]_vars

\* A worker that ends by itself, stopped or drained, leaves no claim behind:
\* only a crash does, so only crashes are charged to max_crashes.
CleanExitHoldsNothing ==
    \A p \in Procs : pc[p] = "exited" => held[p] = NoClaim

RecordsForHolder ==
    \A j \in JobIds \cap DOMAIN jobs' :
        /\ Len(log'[j]) > Len(log[j])
        /\ log'[j][Len(log[j]) + 1] \in {"succeeded", "failed", "timed_out"}
        => \E p \in Procs :
              /\ pc[p] = "recording"
              /\ Holds(p, j, LastNo(j))
              /\ attempts[j][LastNo(j)].state = "running"
              /\ attempts'[j][LastNo(j)].state = log'[j][Len(log[j]) + 1]

\* Only the worker that holds an attempt, while it is open, decides how the
\* job's command ended: succeeded, failed and timed_out are written for the
\* last attempt, by its own live incarnation.
OutcomeByHolder == [][RecordsForHolder]_vars
-----------------------------------------------------------------------------
(* Liveness                                                                *)

\* j is running in the database, but the process that claimed it is gone.
Orphaned(j) ==
    /\ j \in JobIds
    /\ jobs[j].state = "running"
    /\ \E p \in Procs : Holds(p, j, LastNo(j)) /\ ~Alive(p)

\* Every worker has come and gone; recovery waits for somebody to start one.
Deserted == \A p \in Procs : pc[p] \in {"exited", "dead"}

\* Crash recovery: while a worker lives and the dead one's pid is not taken
\* by another worker, the job of a dead worker does not stay running.
OrphanRecovered ==
    \A j \in 1..MaxJobs : Orphaned(j) ~> ~Orphaned(j) \/ Deserted

\* The model's horizon: j is to run again after the clock has stopped, or it
\* has used up the attempts of the model.
BeyondHorizon(j) ==
    /\ j \in JobIds
    /\ jobs[j].state = "queued"
    /\ jobs[j].next_run_at > MaxTime \/ LastNo(j) = MaxAttempts

Active(j) == j \in JobIds /\ jobs[j].state \in ActiveStates

\* At-least-once execution: while a worker lives, every job is executed until
\* it succeeds, is canceled, or has used up a budget; it is never left behind
\* by crashes, failures, lost claims or a drain that ends too early.
EveryJobSettles ==
    \A j \in 1..MaxJobs :
        Active(j) ~> ~Active(j) \/ BeyondHorizon(j) \/ Deserted

\* A draining worker comes to an end: what keeps the others' jobs unsettled
\* (a crashed owner, a backoff) is resolved by the drain itself.
DrainTerminates ==
    \A p \in Draining :
        Alive(p) ~> ~Alive(p) \/ \E j \in 1..MaxJobs : BeyondHorizon(j)

\* Cancellation delivery: once its job is taken away, the child of a live
\* worker whose heartbeat thread runs is killed, however long its timeout
\* (TimedSpec does not assume that it ever passes).
LostChildIsKilled ==
    \A p \in Procs :
        pc[p] = "waiting" /\ beat[p] = "on" /\ Revoked(p) ~> ~child[p] \/ ~Alive(p)

-----------------------------------------------------------------------------
(* What the documentation says and the code does not do                    *)

\* "Never two live workers on one job."
NeverTwoLiveWorkers ==
    \A p, q \in Procs :
        Executing(p) /\ Executing(q) /\ held[p][1] = held[q][1] => p = q

\* "The owning worker's next heartbeat matches zero rows and it kills its own
\* child group."
RevokedChildIsKilled ==
    \A p \in Procs :
        pc[p] = "waiting" /\ Revoked(p) ~> ~child[p] \/ ~Alive(p)
=============================================================================
