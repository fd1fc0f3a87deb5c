------------------------------- MODULE Output --------------------------------
(***************************************************************************)
(* Captured output on disk: the worker that creates the files of its       *)
(* attempt and runs the command in a process group (execute_attempt and    *)
(* _kill_group of spoolctl/worker.py), and the prune that removes files    *)
(* first and rows second (prune_operation of spoolctl/operations.py).      *)
(* Every action is one transaction, one SELECT or one system call, so that *)
(* they interleave as they do between processes.                           *)
(*                                                                         *)
(* The two streams of an attempt are one file here.  A runner is a worker  *)
(* process in one claim cycle; Worker models the loop around it.           *)
(***************************************************************************)
EXTENDS Store

CONSTANTS
    Runners,        \* worker processes; each is its own worker id and pid
    Groups,         \* process groups a command may start: members and the
                    \* ones that ignore SIGTERM
    Budgets         \* bounds: prunes, workers killed and reports in one behaviour,
                    \* the workers that take part in it and the groups they start

ASSUME RunnersAssumption ==
    /\ Runners \subseteq WorkerIds /\ Runners \subseteq Pids
    /\ NULL # "raised"
    /\ Groups \subseteq [live : SUBSET {"leader", "helper"}, deaf : SUBSET {"leader", "helper"}]
    /\ \A g \in Groups : "leader" \in g.live /\ g.deaf \subseteq g.live
    /\ Budgets \subseteq [prunes : Nat, deaths : Nat, reads : Nat, crew : SUBSET Runners,
                    groups : SUBSET Groups]

VARIABLES
    runner,     \* claim cycle of each worker
    jobDirs,    \* output/<job>
    attemptDirs,\* output/<job>/<attempt_no>
    files,      \* output/<job>/<attempt_no>/stdout and stderr
    prune,      \* the prune that is under way
    left,       \* what is left of the budget
    late,       \* attempts that wrote to disk after their job was matched
    taken,      \* attempts whose file a prune removed
    struck      \* the ones of them whose job had been retried since the match

fileVars == <<jobDirs, attemptDirs, files>>
historyVars == <<late, taken, struck>>
outputVars == <<runner, fileVars, prune, left, historyVars>>

-----------------------------------------------------------------------------
(* execute_attempt                                                         *)

Set(r, pc) == runner' = [runner EXCEPT ![r].pc = pc]

NoGroup == [live |-> {}, deaf |-> {}]

Idle == [pc |-> "idle", job |-> 0, no |-> 0, kind |-> NULL, group |-> NoGroup]

\* An exception nobody catches ends the worker.
Raise(r) ==
    runner' = [runner EXCEPT ![r] =
                 [Idle EXCEPT !.pc = "gone", !.job = runner[r].job, !.kind = "raised"]]

\* Path of the attempt's output: output/<job>/<attempt_no>
Mine(r) == <<runner[r].job, runner[r].no>>

Claim(r) ==
    /\ runner[r].pc = "idle"
    /\ r \in left.crew
    /\ \E j \in JobIds, lane \in Lanes :
         /\ claim_next(j, r, r, lane, clock)
         /\ runner' = [runner EXCEPT ![r] =
                         [Idle EXCEPT !.pc = "reread", !.job = j, !.no = NextAttemptNo(j)]]
    /\ UNCHANGED <<fileVars, prune, left, historyVars>>

\* claim_next reads its two rows again after COMMIT; a job that is gone by
\* then raises, and the worker ends with the job in nobody's hands.
Reread(r) ==
    /\ runner[r].pc = "reread"
    /\ IF runner[r].job \in JobIds THEN Set(r, "makedirs") ELSE Raise(r)
    /\ UNCHANGED <<storeVars, fileVars, prune, left, historyVars>>

\* A worker that lost its job and does not know it yet.
NotesLate(r) ==
    late' = IF runner[r].job \in prune.ids \/ runner[r].job \notin JobIds
            THEN late \cup {Mine(r)} ELSE late

\* os.makedirs: the parent, if it is not there, then the directory.
MakeJobDir(r) ==
    /\ runner[r].pc = "makedirs"
    /\ jobDirs' = jobDirs \cup {runner[r].job}
    /\ NotesLate(r)
    /\ Set(r, "mkdir")
    /\ UNCHANGED <<storeVars, attemptDirs, files, prune, left, taken, struck>>

MakeAttemptDir(r) ==
    /\ runner[r].pc = "mkdir"
    /\ \/ /\ runner[r].job \in jobDirs
          /\ attemptDirs' = attemptDirs \cup {Mine(r)}
          /\ NotesLate(r)
          /\ Set(r, "open")
       \/ /\ runner[r].job \notin jobDirs
          /\ Raise(r)
          /\ UNCHANGED <<attemptDirs, late>>
    /\ UNCHANGED <<storeVars, jobDirs, files, prune, left, taken, struck>>

OpenFiles(r) ==
    /\ runner[r].pc = "open"
    /\ \/ /\ Mine(r) \in attemptDirs
          /\ files' = files \cup {Mine(r)}
          /\ NotesLate(r)
          /\ Set(r, "spawn")
       \/ /\ Mine(r) \notin attemptDirs
          /\ Raise(r)
          /\ UNCHANGED <<files, late>>
    /\ UNCHANGED <<storeVars, jobDirs, attemptDirs, prune, left, taken, struck>>

\* Who is in the command's process group shows when it is signalled.
Spawn(r) ==
    /\ runner[r].pc = "spawn"
    /\ \/ Set(r, "running")
       \/ runner' = [runner EXCEPT ![r].pc = "record", ![r].kind = "spawn_failed"]
    /\ UNCHANGED <<storeVars, fileVars, prune, left, historyVars>>

\* The command itself ends; what else it started may go on.
Exits(r) ==
    /\ runner[r].pc = "running"
    /\ \E kind \in {"succeeded", "process_exit"} :
         runner' = [runner EXCEPT ![r].pc = "record", ![r].kind = kind]
    /\ UNCHANGED <<storeVars, fileVars, prune, left, historyVars>>

\* _kill_group, first half: SIGTERM to the group.
Terminate(r, kind) ==
    \E g \in left.groups :
        runner' = [runner EXCEPT ![r].pc = "grace", ![r].kind = kind,
                                 ![r].group = [g EXCEPT !.live = @ \cap g.deaf]]

TimesOut(r) ==
    /\ runner[r].pc = "running"
    /\ Terminate(r, "timeout")
    /\ UNCHANGED <<storeVars, fileVars, prune, left, historyVars>>

\* The heartbeat thread found that the job is no longer ours.
LosesJob(r) ==
    /\ runner[r].pc = "running"
    /\ ~Owns(runner[r].job, r, r)
    /\ Terminate(r, "process_exit")
    /\ UNCHANGED <<storeVars, fileVars, prune, left, historyVars>>

\* Mutant: SIGKILL goes to the command only.
Grace_LeaderOnly(r) ==
    /\ runner[r].pc = "grace"
    /\ runner' = [runner EXCEPT ![r].pc = "record", ![r].group.live = @ \ {"leader"}]
    /\ UNCHANGED <<storeVars, fileVars, prune, left, historyVars>>

\* Mutant: no SIGKILL, the worker waits for the command to obey.
Grace_NoKill(r) ==
    /\ runner[r].pc = "grace"
    /\ "leader" \notin runner[r].group.live
    /\ Set(r, "record")
    /\ UNCHANGED <<storeVars, fileVars, prune, left, historyVars>>

\* Second half: back as soon as the leader is gone, else SIGKILL.
Grace(r) ==
    /\ runner[r].pc = "grace"
    /\ runner' = [runner EXCEPT ![r].pc = "record",
                                ![r].group.live = IF "leader" \in @ THEN {} ELSE @]
    /\ UNCHANGED <<storeVars, fileVars, prune, left, historyVars>>

\* The result is recorded by the owner and discarded by anybody else.
Record(r) ==
    /\ runner[r].pc = "record"
    /\ \/ /\ runner[r].kind = "succeeded"
          /\ record_success(runner[r].job, runner[r].no, r, r, clock)
       \/ /\ runner[r].kind # "succeeded"
          /\ record_failure(runner[r].job, runner[r].no, r, r, runner[r].kind, clock)
       \/ /\ ~Owns(runner[r].job, r, r)
          /\ UNCHANGED storeVars
    /\ runner' = [runner EXCEPT ![r] = Idle]
    /\ UNCHANGED <<fileVars, prune, left, historyVars>>

\* SIGKILL of the worker; its command is in a session of its own.
Die(r) ==
    /\ runner[r].pc \notin {"idle", "gone"}
    /\ left.deaths > 0
    /\ left' = [left EXCEPT !.deaths = @ - 1]
    /\ runner' = [runner EXCEPT ![r] = [Idle EXCEPT !.pc = "gone"]]
    /\ UNCHANGED <<storeVars, fileVars, prune, historyVars>>

\* Another worker's reap pass finds the owner dead.
Reap(r) ==
    /\ runner[r].pc = "gone"
    /\ \E q \in Runners : runner[q].pc = "idle"
    /\ \E j \in JobIds : reap(j, r, clock - REAP_THRESHOLD, clock)
    /\ UNCHANGED outputVars

-----------------------------------------------------------------------------
(* prune_operation                                                         *)

NoPrune == [pc |-> "idle", ids |-> {}, cutoff |-> 0, asked |-> {}, paths |-> {},
            seen |-> <<>>]

\* Mutant: any old finished_at will do; a queued job may have one.
Matched_AnyState(cutoff) ==
    {j \in JobIds : jobs[j].finished_at # NULL /\ jobs[j].finished_at < cutoff}

Matched(cutoff) == Prunable(PrunableStates, cutoff)

\* prune_matches: SELECT id FROM jobs ...
MatchJobs ==
    /\ prune.pc = "idle"
    /\ left.prunes > 0
    /\ \E cutoff \in 0..clock :
         LET ids == Matched(cutoff)
         IN  /\ ids # {}
             /\ prune' = [NoPrune EXCEPT !.pc = "select", !.ids = ids, !.cutoff = cutoff,
                                         !.asked = ids,
                                         !.seen = [j \in ids |-> Len(log[j])]]
    /\ left' = [left EXCEPT !.prunes = @ - 1]
    /\ UNCHANGED <<storeVars, runner, fileVars, historyVars>>

\* Mutant: only the files of the latest attempt are looked up.
PathRows_Latest(j) == IF j \in JobIds THEN {NextAttemptNo(j) - 1} \ {0} ELSE {}

PathRows(j) == IF j \in JobIds THEN DOMAIN attempts[j] ELSE {}

\* prune_matches: one SELECT of attempts per job, in the order of the ids.
SelectPaths ==
    /\ prune.pc = "select"
    /\ LET j == Min(prune.asked)
       IN  prune' = [prune EXCEPT
                       !.asked = @ \ {j},
                       !.paths = @ \cup {<<j, n>> : n \in PathRows(j)},
                       !.pc = IF prune.asked = {j} THEN "next" ELSE "select"]
    /\ UNCHANGED <<storeVars, runner, fileVars, left, historyVars>>

\* The oldest attempt of the oldest job.
Oldest(paths) == CHOOSE x \in paths :
                    \A y \in paths : x[1] < y[1] \/ (x[1] = y[1] /\ x[2] <= y[2])

\* The attempt whose files go next.
First == Oldest(prune.paths)

\* A manual retry since the prune matched the job.
RetriedSinceMatch(j) ==
    j \in JobIds /\ \E i \in DOMAIN log[j] : i > prune.seen[j] /\ log[j][i] = "retried"

\* os.unlink of both streams; a file that is gone already is skipped.
Unlink ==
    /\ prune.pc = "next"
    /\ prune.paths # {}
    /\ files' = files \ {First}
    /\ taken' = taken \cup ({First} \cap files)
    /\ struck' = IF First \in files /\ RetriedSinceMatch(First[1])
                 THEN struck \cup {First} ELSE struck
    /\ prune' = [prune EXCEPT !.pc = "rmdir"]
    /\ UNCHANGED <<storeVars, runner, jobDirs, attemptDirs, left, late>>

\* os.rmdir of the attempt's directory, which must be empty.
Rmdir ==
    /\ prune.pc = "rmdir"
    /\ attemptDirs' = IF First \in files THEN attemptDirs ELSE attemptDirs \ {First}
    /\ LET rest == prune.paths \ {First}
           last == \A x \in rest : x[1] # First[1]
       IN  prune' = IF last THEN [prune EXCEPT !.pc = "rmjob"]
                            ELSE [prune EXCEPT !.pc = "next", !.paths = rest]
    /\ UNCHANGED <<storeVars, runner, jobDirs, files, left, historyVars>>

\* os.rmdir of the job's directory, after the last of its attempts.
RmJobDir ==
    /\ prune.pc = "rmjob"
    /\ LET j == First[1]
       IN  jobDirs' = IF \E x \in attemptDirs : x[1] = j THEN jobDirs ELSE jobDirs \ {j}
    /\ prune' = [prune EXCEPT !.pc = "next", !.paths = @ \ {First}]
    /\ UNCHANGED <<storeVars, runner, attemptDirs, files, left, historyVars>>

\* prune_delete checks each id again.
DeleteRows ==
    /\ prune.pc = "next"
    /\ prune.paths = {}
    /\ \/ prune_delete(prune.ids, PrunableStates, prune.cutoff)
       \/ prune.ids \cap Prunable(PrunableStates, prune.cutoff) = {} /\ UNCHANGED storeVars
    /\ prune' = NoPrune
    /\ UNCHANGED <<runner, fileVars, left, historyVars>>

\* Killed, or the write lock was not free: the rows stay.
PruneStops ==
    /\ prune.pc # "idle"
    /\ prune' = NoPrune
    /\ UNCHANGED <<storeVars, runner, fileVars, left, historyVars>>

-----------------------------------------------------------------------------
(* Specification                                                           *)

OutputInit ==
    /\ StoreInit
    /\ runner = [r \in Runners |-> Idle]
    /\ jobDirs = {} /\ attemptDirs = {} /\ files = {}
    /\ prune = NoPrune
    /\ left \in Budgets
    /\ late = {} /\ taken = {} /\ struck = {}

RunnerStep(r) ==
    \/ Claim(r) \/ Reread(r) \/ MakeJobDir(r) \/ MakeAttemptDir(r) \/ OpenFiles(r)
    \/ Spawn(r) \/ Exits(r) \/ TimesOut(r) \/ LosesJob(r) \/ Grace(r) \/ Record(r)

PruneStep ==
    MatchJobs \/ SelectPaths \/ Unlink \/ Rmdir \/ RmJobDir \/ DeleteRows \/ PruneStops

\* Clients of the queue, and the clock.
Others ==
    /\ \/ Tick
       \/ \E s \in Specs, delay \in Delays : add_job_checked(s, delay, clock)
       \/ \E j \in JobIds, allow_running \in BOOLEAN : cancel_job(j, allow_running, clock)
       \/ \E j \in JobIds, force \in BOOLEAN : retry_job(j, force, clock)
    /\ UNCHANGED outputVars

OutputNext ==
    \/ Others
    \/ \E r \in Runners : RunnerStep(r) \/ Die(r) \/ Reap(r)
    \/ PruneStep

-----------------------------------------------------------------------------
(* Properties                                                              *)

Attempted == (1..MaxJobs) \X (1..MaxAttempts)

\* Runners, files and the prune stay within their types.
OutputTypeOK ==
    /\ TypeOK
    /\ \A r \in Runners :
         /\ runner[r].pc \in {"idle", "reread", "makedirs", "mkdir", "open", "spawn", "running",
                              "grace", "record", "gone"}
         /\ runner[r].group.live \subseteq {"leader", "helper"}
    /\ jobDirs \subseteq 1..MaxJobs
    /\ attemptDirs \cup files \cup prune.paths \subseteq Attempted
    /\ prune.pc \in {"idle", "select", "next", "rmdir", "rmjob"}
    /\ late \cup taken \cup struck \subseteq Attempted

\* Files first, rows second: whatever is on disk for a job that has no row
\* any more was put there by a worker that had lost the job and did not know
\* it yet; neither a prune that stops half way nor a second one strands
\* anything else.
OrphansAreLate ==
    /\ \A x \in files \cup attemptDirs : x[1] \notin JobIds => x \in late
    /\ \A j \in jobDirs : j \notin JobIds => \E x \in late : x[1] = j

Writing(r) == runner[r].pc \in {"spawn", "running", "grace", "record"}

\* The output of an attempt that is being run by its owner is on disk, unless
\* a prune that had matched the job before its retry took it.
OwnedOutputKept ==
    \A r \in Runners : Writing(r) /\ Owns(runner[r].job, r, r) => Mine(r) \in files \cup struck

\* "so earlier attempts' output files are never clobbered": the path an
\* attempt is about to open for writing holds nothing yet.
NothingToClobber == \A r \in Runners : runner[r].pc = "open" => Mine(r) \notin files

\* What holds of the output directory between any two system calls of
\* workers and prunes: files of deleted jobs are late ones, the owner's output
\* is kept, and nobody overwrites an earlier attempt.
OutputInv == OutputTypeOK /\ OrphansAreLate /\ OwnedOutputKept /\ NothingToClobber

\* A prune removes the files of the jobs it was asked for: of another job
\* only when that job was retried after it had been matched.
OnlyMatchesLoseFiles ==
    [][\A x \in files \ files' :
          \/ x[1] \in Prunable(PrunableStates, prune.cutoff)
          \/ RetriedSinceMatch(x[1])]_<<storeVars, outputVars>>

\* No worker dies of its own files, or of its own claim, unless somebody
\* canceled or retried the job under it.
RaisesOnlyWhenOverruled ==
    \A r \in Runners : runner[r].kind = "raised" =>
        \/ runner[r].job \notin JobIds
        \/ \E i \in DOMAIN log[runner[r].job] : log[runner[r].job][i] \in {"canceled", "retried"}

\* What outlives a timeout: never the command, and another process of its
\* group only if it ignores SIGTERM and the command does not.
SurvivorsIgnoreTerm ==
    \A r \in Runners : runner[r].pc = "record" /\ runner[r].kind = "timeout" =>
        LET g == runner[r].group
        IN  /\ "leader" \notin g.live /\ g.live \subseteq g.deaf
            /\ g.live # {} => "leader" \notin g.deaf

\* No command holds its worker for ever: it ends, or its timeout and the
\* grace after it pass.
EveryRunEnds ==
    \A r \in Runners : runner[r].pc = "running" ~> runner[r].pc \in {"idle", "gone"}

-----------------------------------------------------------------------------
(* What the documentation says and the code does not do                    *)

\* "A job that exceeds its timeout is terminated, including all child
\* processes": nothing of its group lives when the timeout is recorded.
TimeoutEndsTheGroup ==
    \A r \in Runners :
        runner[r].pc = "record" /\ runner[r].kind = "timeout" => runner[r].group.live = {}
=============================================================================
