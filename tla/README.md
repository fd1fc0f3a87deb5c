# A TLA+ model of spoolctl

spoolctl is a job queue without a server: every command opens one SQLite
database, and workers are ordinary processes that claim jobs from it, run each
as a child process, and record the outcome. This directory models the queue, the
processes that work on it, the files they leave, the readers that look at them
while they change and the commands that get there; it checks the models with TLC
and proves with TLAPS, for every value of the constants, every safety property
that a passing run checks, and that workers, reapers and operators together
implement an abstract promise of ownership.

Paths below are relative to the repository; line numbers are in `PROJECT.json`
(`map`), one entry per definition.

## 1. The system

| Component | State | Operations | Meets the others through |
|---|---|---|---|
| Queue transactions, `spoolctl/store.py` | tables `jobs`, `attempts`, `job_events` | `add_job_checked`, `claim_next`, `update_heartbeat`, `record_success`, `record_failure`, `reap`, `cancel_job`, `retry_job`, `prune_delete` | the database; each is one transaction |
| Constants, `spoolctl/models.py` | none | `backoff_seconds`, the sets of states, reasons and events | imported |
| Worker, `spoolctl/worker.py` | where the loop is, the claimed attempt, the child, the stop flag | `work_loop`, `process_one`, `execute_attempt`, signal handlers | the store, the child's exit, signals |
| Heartbeat thread, `Heartbeat` | whether it still beats | one beat, `_on_lost` | the store; kills the child of its worker |
| Reaper, `reap_pass` | a clock reading and a list of candidates | nominate, probe the pid, reap | the store, the kernel's process table |
| Process group termination, `_kill_group` | members of the group | SIGTERM, grace, SIGKILL | child processes |
| Prune, `prune_operation` | output files | match, unlink files, delete rows | the store, the file system |
| Event stream, `events_operation`, `_run_events_follow` | a cursor | page, follow | the store |
| Schema migration, `_ensure_schema` | `meta.schema_version` | five migration steps | every process that opens an old file |
| Wait and the reports (`status`, `list`, `show`, `output`, `feedback`) | what they have read so far | reads, in several SELECTs | the store, the output files |
| Doctor, `doctor_operation` | its checks so far | directory, file, version | the file system, processes that migrate |
| Configuration, `config.py` | none | precedence of flag, environment, file; validation | start-up |
| Command line, `cli.py`, `validation.py`, `errors.py` | none | parse, validate, translate errors to codes and exits | start-up and every error path |
| Contract, schemas | static tables | `brief`, `schema`, `capabilities`, `robot-docs` | none |

What is hard about it:

* workers, their heartbeat threads, reapers inside other workers, and operators
  at a shell interleave between any two transactions;
* a worker can die at any point, and the kernel may give its pid to another
  program or to another worker;
* a reap consists of three steps (nominate, probe, update) and the first two are
  stale when the third happens;
* results arrive for jobs that were taken away in the meantime;
* two retry budgets share one counter, and a manual retry resets it while the
  history stays;
* the child process outlives its worker;
* readers take several SELECTs for one answer, and then open files, while writers
  commit and prune deletes;
* prune removes files before rows, without a lock, while workers create them;
* any number of processes may find the file absent, half created or old, and
  each tries to create or migrate it;
* an error crosses parser, handler, configuration, `connect` and transaction, and
  each layer may translate it.

The `hazards` list of `PROJECT.json` places each of these at a source line and
names the property that would catch it going wrong.

What makes each part correct:

* **Store**: locks and states agree; budgets are exact and independent; a failed
  job waits out its backoff; the event log and the counters agree with the row;
  past attempts are immutable; done is final; keys and slots are respected.
* **Worker and reaper**: a live worker's job is never reaped; two live workers
  execute the same job only when an operator took it from one of them; only the
  holder of an attempt decides its outcome; a clean exit leaves nothing behind;
  crashed workers' jobs are recovered; drains end; revoked children are killed.
* **Events**: a reader that resumes from its cursor gets every retained event,
  once and in order.
* **Prune and output files**: a file without a row was written by a worker that
  had lost the job; the owner's output stays unless the job was retried after
  the prune had matched it; no attempt overwrites an earlier one.
* **Process groups**: what survives a timeout is never the command itself.
* **Migration**: the version never promises more or less than the tables hold,
  a lost race is no error, and counters, history and ids survive.
* **Reports**: an answer put together from several moments is still consistent;
  "done" stays true; a list says when it left something out.
* **Command line**: every answer has the exit code published for its error code;
  what reports success was served;
  what passes validation is what the transactions assume; a validated config
  file never breaks a command; `doctor` is never ready too soon.

## 2. Modules

| Module | Models | Extends |
|---|---|---|
| `Models` | constants of `models.py`, `backoff_seconds` | |
| `Store` | the three tables and every transaction on job rows | `Models` |
| `Reports` | what `feedback`, `show`, `list`, `status` and `output` compute from rows and bytes | `Store` |
| `MCStore` | small instances of `Store` and the pages of `list` on them | `Reports` |
| `StoreProofs` | inductive invariant and theorems | `Store` |
| `LedgerProofs` | counters, keys, slots, pages of `list`: theorems | `Reports`, `StoreProofs` |
| `Worker` | worker incarnations, heartbeat threads, children, reap passes, operating system | `Store` |
| `JobOwnership` | the promise: who may execute a job (abstract) | |
| `WorkerOwnership` | refinement mapping from `Worker` to `JobOwnership` | `Worker` |
| `MCWorker` | small instances of `Worker` | `WorkerOwnership` |
| `WorkerProofs` | reap passes: inductive invariant and theorems | `Worker`, `StoreProofs` |
| `OwnershipProofs` | who owns a job: inductive invariant of the whole system and theorems | `WorkerProofs` |
| `RefinementProofs` | `Worker` implements `JobOwnership`; the ledger under workers | `WorkerOwnership`, `OwnershipProofs`, `LedgerProofs` |
| `EventStream` | the event ledger, `events` pages, `events --wait`, `events --follow` | |
| `MCEventStream` | a small instance of `EventStream` | `EventStream` |
| `EventStreamProofs` | inductive invariant and theorems | `EventStream` |
| `Output` | output files, process groups and `prune`, one system call per step | `Store` |
| `Readers` | `wait`, `feedback`, `show`, `output`, `status`, one SELECT per step | `Output`, `Reports` |
| `MCReaders` | small instances of `Readers` | `Readers` |
| `OutputProofs` | workers, prunes, the disk and reports: inductive invariants and theorems | `Readers`, `LedgerProofs` |
| `Schema` | `connect` and `_ensure_schema`: creation and the five migrations | `Models` |
| `Validation` | the parsers of `validation.py` | `Models` |
| `Config` | `config.py`: resolution and validation | `Models` |
| `Cli` | `main`, every `cmd_*` handler, `doctor`, error and exit codes | `Schema`, `Validation`, `Config` |
| `MCCli` | command lines, databases, directories and configurations | `Cli` |
| `CliProofs` | file, queue and answers: inductive invariants and theorems | `Cli` |

### Store

`jobs` and `attempts` are functions from job ids to rows; `log` is the part of
`job_events` that belongs to a job, in order. Columns that nothing updates are
the constant record `spec`. `clock` is `time.time()`; `lastId` is SQLite's
`AUTOINCREMENT` counter, which outlives deleted rows. Each transaction is one
action named after its function: `BEGIN IMMEDIATE` takes the write lock before
the first read, so transactions are serial. Early returns end in `ROLLBACK`, or
in a `COMMIT` after reads only, change nothing and are stuttering steps.
`StoreSpec` lets any caller call anything with any argument, including owner
identities that do not match and reap passes with an old clock reading; the
store's invariants hold without help from the workers.

`locked_at` (written and cleared together with `heartbeat_at`), `started_at`,
exit codes and error texts are left out: no guard reads them. `add` compares
only the execution payload when a key is taken, and `deduped` and `conflict`
both leave the tables alone, so payloads are opaque values. The reason
`unknown` is left out because `execute_attempt` never produces it.

### Worker

A member of `Procs` is one incarnation of a worker process. `pc` is its place in
`work_loop`/`process_one`; the store sees only `worker_id` and pid, and
`PidOf` may give two incarnations the same pid as long as they do not live at
the same time. An action is what happens between two points where others can
run:

| `pc` | source | actions |
|---|---|---|
| `loop` | top of `work_loop` | `ReapBegin`, `Stop` |
| `reaping`, `confirmed` | `reap_pass` | `CheckOwner` (the probe, outside any transaction), `ReapOne` (`store.reap`) |
| `claiming` | `store.claim_next` | `Claim`, `ClaimNothing` |
| `settling` | `unsettled_count` | `Settle` |
| `spawning`, `waiting` | `execute_attempt` | `Spawn`, `SpawnFails`, `ChildEnds`, `Timeout`, `SignalAgain` |
| `recording` | the end of `process_one` | `Record` |
| `dead`, `hung`, `exited` | | reached by `Crash`, `Hang`, `Stop`, `Settle` |

The heartbeat thread runs beside the loop (`Beat`, `KillLost`, `ThreadDies`).
A dead worker keeps `held`, so that properties can speak of what it died
executing, and its `child`, which really goes on.  `is_worker_pid_dead` answers
with a set: free pid, dead; live worker, alive; a foreign process on the pid,
either, because `ps` may fail or the process belong to another user. An
exception that leaves `work_loop` (a database that stays busy, an output
directory that cannot be made) ends the process and is an instance of `Crash`.
The grace period of `_kill_group` is not a step of its own here: the child counts
as running until it is over. `Output` takes it apart.

### JobOwnership

The abstract specification knows phases of a job, its owner and a tally of how
ownerships ended. It says: one owner at a time, one job per owner; only a live
owner reports; only a dead owner's job is reclaimed; a live owner's job can only
be revoked; done is final. `WorkerOwnership` maps the tables to it (the owner is
the incarnation that opened the last attempt, not what the lock columns say)
and `MCWorker` checks the refinement, which `RefinementProofs` proves.

### EventStream

`ledger` maps the ids of the retained rows of `job_events` to their jobs; what an
event says is left out, because readers select by id and job only. Writers
(`add_event`) append one or two events of a job in one commit, `prune` deletes
all events of a job and ends its writing: the model does not repeat the
transactions of `Store` but lets them come in any order.

A *poller* is a client that calls `events` again and again with the cursor it
was given. Its page takes two SELECTs, the rows (`List`) and the high-water mark
(`Mark`), in autocommit mode, so a commit may fall between them; `--wait` probes
first. `raced` records such commits and is read by no action. A *follower* is an
`events --follow` process: it polls (`Fetch`), prints row by row (`Emit`), ends
by `--max-events`, `--idle-timeout`, a signal or a closed pipe, and may be
started again from 0, from the end, or from the last id it printed. The sleeps
between polls are stuttering, and the idle deadline may pass after any empty
poll.

### Output and Readers

`Output` is the same queue seen from the disk. A *runner* is a worker in one
claim cycle: `Claim`, `Reread` (the SELECT after the COMMIT of `claim_next`),
`MakeJobDir`, `MakeAttemptDir` and `OpenFiles` (`os.makedirs` and the two
`open`s), `Spawn`, then the command exits, times out or loses its job; `Grace` is
`_kill_group` over a group with a leader and a helper, either of which may ignore
SIGTERM. A file system call that finds its directory gone raises, and the
exception ends the worker, as in the code. The prune is `MatchJobs`,
`SelectPaths`, `Unlink`, `Rmdir`, `RmJobDir` per path, then `DeleteRows` (the
transaction, which checks the rows again); it may stop between any two of them.
`late`, `taken` and `struck` record which attempts wrote after a match, lost a
file to a prune, or lost it although they had been retried; no action reads them.

`Readers` adds one report: each SELECT and each open of a stream is a step
(`ReadJob`, `ReadAttempts`, `ReadEvents`, `ReadStreams`, `Poll`, `ReadCounts`,
`ReadDead`), and what it computes from the rows are the operators of `Reports`.
Rows a report read are kept as values, which is what they are in the code.
`decode_tail` works on kinds of bytes (a whole character, the lead of a longer
one, a continuation): the code looks at nothing else.

### Schema and Cli

The file is a record: which tables and indices exist, the version in `meta`, which
migration steps its columns show, the AUTOINCREMENT mark, and one old job with
its history of attempts. `executescript` commits statement by statement, so
`RunScript` is one statement; the five migrations are a transaction each. Every
process may find the database locked, and members of `MayDie` may be killed
anywhere. `MayMisread` models `except sqlite3.OperationalError` around the first
SELECT (`store.py:197`), which takes any such error for a missing `meta`; `misread`
marks what follows. There and on a `Leftover`, a file without a version whose
tables an older script made, the version may be ahead of the tables: `Mistaken`
names the two. What is there may also be no database (`sqlite`) or hold rows whose
job is gone (`dangling`); both make `connect` fail, the second after the first
migration was committed.

`Cli` runs commands on that file. A command goes through `start` (`Parse`: shape
of the line and the handler's checks in their order), `resolve` (the
configuration), `open` (the steps of `Schema`), and answers with an error code,
an exit code and `ok`. What the transaction of a command does to jobs is in
`Store`; here the job it names may be missing or in any state, so that every
answer of the handler occurs. `Run` is that step for a command that ends by itself
and `LoopEnds` for one that does not (`GoesOn`: `work` without `--once`, `wait`
without `--timeout`, `events --follow` without both limits). Any command may meet
an exception that nobody foresaw (`Unexpected`), which `main` answers with
INTERNAL. `ErrorContract` therefore does not say when INTERNAL may come; it says
that every code has its published exit code and, from the other side, that what
reports success was served (`SuccessIsServed`). Printing the answer is not a
step: an exception there is one that nobody foresaw. A token of the command line is a record of what the
parser asks of it (is it a number, its value; does a text fit its limit and
pattern, does its conversion raise). `argparse` is external: it is modelled by the kinds of lines it
refuses and the message class the code maps them to.

## 3. Runs

Every passing run turns deadlock checking off: a bounded queue in which every
job has settled and every worker has exited may stop.

| Run | Instance | Checks |
|---|---|---|
| `MCStore` | 2 jobs with one key, 1 slot, 2 attempts, 5 events, time 0..2 | `BudgetInv`, `BackoffInv`, `LogInv`, `CountersMatchLog`, `KeyInv`, `SlotsInv`, `ListHonest`, `ClosedAttemptsFrozen`, `DoneIsFinal` |
| `MCWorker` | 3 incarnations on 2 pids, one draining, one signalled; crashes, a hang, a lost thread, a foreign process, operators | `SystemInv`, `AttemptsMatchJob`, `OverlapOnlyByOperator`, `CleanExitHoldsNothing`, `ReapsOnlyTheDead`, `OutcomeByHolder`, `ImplementsOwnership` |
| `MCWorkerRecovery` | 2 workers, one may crash, the other drains; operators; fair | `OrphanRecovered`, `EveryJobSettles`, `DrainTerminates`, `LostChildIsKilled` |
| `MCEventStream` | 2 jobs, 3 events, a long-polling client of the whole ledger with pages of one event, a follower of one job with `--max-events 2` and `--idle-timeout`; fair | `FollowerMissesNothing`, `PollerMissesOnlyRaced`, `NeverTwice`, `InOrder`, `FollowerCatchesUp` |
| `MCReaders` | 1 job, 2 workers, commands with a deaf helper; a prune and a death, two prunes, or a prune and a report; fair | `OutputInv`, `RaisesOnlyWhenOverruled`, `SurvivorsIgnoreTerm`, `AnswersFit`, `TailKeepsOutput`, `OnlyMatchesLoseFiles`, `EveryRunEnds`, `WaitEnds` |
| `MCCli` | 2 commands: every verb with its arguments off their defaults, alone and in pairs, and pairs of commands on every kind of file, directory and configuration; fair | `SchemaInv`, `MigrationKeepsTheQueue`, `ErrorContract`, `ReadyIsTrue`, `AcceptedRequestsFit`, `ValidatedConfigResolves`, `EveryCommandEnds` |

Some of these are conjunctions of named parts: `SystemInv` (the inductive
invariant of `OwnershipProofs`), `OutputInv` (`OutputTypeOK`, `OrphansAreLate`,
`OwnedOutputKept`, `NothingToClobber`), `AnswersFit` (`SuccessStaysTrue`,
`FeedbackFits`, `ShowCovers`, `MissingMeansPruned`, `StatusFits`), `SchemaInv`
(`SchemaTypeOK`, `StampedAsBuilt`, `LosersCarryOn`), `ErrorContract`
(`CliTypeOK`, `PublishedExits`, `SuccessIsServed`).

Six more runs state a sentence of the documentation that the code does not
keep; TLC finds the counterexample, and `findings` in `PROJECT.json` quotes the
sentence.

| Run | The documentation says | The code |
|---|---|---|
| `MCStoreRetries` | dead after `max_retries` job-owned failures | dead one failure later |
| `MCWorkerOverlap` | never two live workers on one job | two, until the next heartbeat after `retry --force` |
| `MCWorkerSamePid` | a dead worker's job is eventually re-executed | not while another worker has its pid |
| `MCWorkerEarlyBeat` | the next heartbeat kills the child | not if it comes before the spawn |
| `MCEventStreamCursor` | the cursor of a page is where the next query resumes | an event committed between the SELECT of the rows and the SELECT of the mark is in neither page |
| `MCReadersSurvivors` | a timeout ends the job "including all child processes" | `_kill_group` returns once the command has exited, and a helper that ignores SIGTERM lives on |

Smaller disagreements met on the way, without a run of their own:
`docs/verbs.md:15` says "--key deduplicates active queued/running jobs", but
`retry_job` does not look at the key, so add, cancel, add and retry leave two
active jobs with one key (`KeyInv` excepts a manual retry and nothing else);
`docs/guarantees.md:58` says a dead job is revived with `retry --force`, which
accepts only running jobs (`Retryable`); `docs/guarantees.md:36` says a hung
worker is eventually reaped, `README.md:403` and the probe say it is not
(`ReapsOnlyTheDead`); `README.md:181` says double execution is designed out, but
the child of a killed worker runs on in its own session (`Crash` leaves `child`)
and may overlap with the re-execution.

`BudgetInv` and `SurvivorsIgnoreTerm` are the exact forms of the two sentences
that `MCStoreRetries` and `MCReadersSurvivors` refute, and are proved.

Met while modelling the readers and the commands, each admitted as an explicit
exception of the property that is about it:

* A job that is retried after a prune matched it keeps its row but may lose the
  output of the attempt that is running, and the worker may find its directory
  gone and die (`OwnedOutputKept`, `RaisesOnlyWhenOverruled`).
* `feedback` on a finished job that is pruned between its two SELECTs answers
  NO_ATTEMPTS_YET, "has not been executed yet". The docstring of
  `_feedback_stream` takes a missing file for one that "was captured and is now
  gone"; an attempt that was claimed a moment ago has none yet either
  (`MissingMeansPruned` is about attempts that ran to their end).
* INTERNAL ("file a bug") is the answer to much that is no bug: a job pruned
  while `wait` waits for it or between the COMMIT of `add` and its second look; a
  claimed job canceled and pruned before `work` reads it again; `work` on a path
  that cannot be opened, and any verb on one that fails with an unexpected error
  code; a file that is no database; an `--at` whose `timestamp()` overflows; a config
  file that is not UTF-8, even in `doctor`; a write to a protected file. The list
  is open (`Unexpected`), so no property limits INTERNAL.
* A file an older script left without its stamp is taken for one that today's
  script began: it fails half way, or is stamped as current although its tables
  are old (`Leftover`). A `foreign_key_check` that fails makes the first connect
  fail after the step was committed, and no later one (`ReferencesFail`).
* `doctor` is ready on a write-protected database of the current version: its
  read/write check only opens the file (`ReadyIsTrue` excepts it, and a file with
  rows that lost their job, which it does not look for).
* The backfill of `crashes` counts every attempt whose worker died, also those
  before a manual retry, which resets the counter (`MigrationKeepsTheQueue`
  excepts histories with a crash before a retry).
* `show` and `feedback` disagree on the reason of a canceled job: the first names
  the latest failure, the second `canceled`.
* Only `wait` is documented to exit non-zero with `ok: true` (docstring of
  `VerbResult`); `doctor` does so too (`PublishedExits`).

### Bounds

`MaxJobs`, `MaxAttempts`, `MaxLog` and `MaxTime` stop the model, not the
system. A heartbeat is stale once its age exceeds `REAP_THRESHOLD`, so two time
units beyond it let a claim go stale, be probed and be claimed again within a
pass. `MCStore` sets the threshold to 0 (stale after one tick): within time 0..2
a job is then claimed, reaped, backed off, claimed again and fails, the history
that tells the two budgets apart. Three incarnations on two pids are the
least with which a pid is recycled while a third process is in the middle of a
pass; two attempts let a late result meet a new claim, and with budgets of zero
and one they reach both ways to die; five events let a job die, be retried and
be claimed again.

`MCReaders` has one job, because a report, a prune and a runner meet only on a job
they share, and two attempts, so that a retried job has an output to lose and one
to keep. `Budgets` bounds what may happen in one behaviour: two workers with a
prune and a death, one worker with two prunes, one worker with a prune and a
report (and groups whose leader obeys SIGTERM, which a report cannot tell apart).
`Blobs` are streams of up to five bytes and `MaxTail` is four, one more
than the longest run of continuation bytes that text has.
`MCCli` tries every flag of every verb with values at, below and above each bound
(`Tried`), and every switch together with every other flag (what the handlers
exclude together has a switch in it, except in `add`, whose pairs are listed). On
files it runs pairs of commands, two writers or a writer and `doctor`, on odd and
protected ones a reader and `work`. The files are absent, half created at every
statement, of every version with three histories, of version 0, newer, protected,
left without a stamp by the scripts of versions 2, 3 and 5, with dangling rows, or
no database at all. The numeric limits of `validation.py` are constants and small
here; only their order matters.

In `MCEventStream` three events are the least with which a page of one event is
truncated after a transaction of two, and a further event is committed while
the page is being read or after prune has emptied the ledger; `MaxId` bounds
only the writers. What holds beyond these bounds is the business of the proofs.
Each property of a passing run has a mutant of the code that violates it within the
same bounds (`mutants` in `PROJECT.json`; the mutated definitions stand beside
the originals). `MaxLog` limits only operators: without it they could cancel and
retry for ever.

### Fairness

`Fairness` assumes that the clock advances, that a worker that is meant to
start starts, and that a worker that is alive and not hung keeps executing its
loop and its heartbeat thread: each is a thread of a process that the kernel
schedules, and no step of the loop waits for another process except
`proc.wait`, which is not assumed to return. `TimedSpec` adds that `proc.wait`
times out, because every job has a `timeout_seconds`, except where the heartbeat
thread is there to end the command of a job that was taken away
(`LeftToHeartbeat`): so `LostChildIsKilled` does not live on the timeout. Nothing
is assumed of operators, crashes or commands. `LastCrashTime` ends crashes early enough for
recovery to be seen before the clock stops.

`FairStreamSpec` assumes that a follower with rows to fetch or to print goes on
(its loop sleeps a bounded time and waits for nobody); writers, prune and
interruptions are never forced.

`ReadersFairness` assumes that a worker goes on with its claim cycle (the command
ends or its timeout and the grace pass) and that a report goes on with its next
SELECT; clients, deaths and prunes are never forced. `CliSpec` assumes that each
command takes its next step; locks, failures, deaths and the end of a loop
(`LoopEnds`) are never forced, and a process that waits for the write lock gets it
or `SQLITE_BUSY`. `EveryCommandEnds` is about the commands that are no loops.

`OrphanRecovered` and `EveryJobSettles` promise nothing once every worker has
exited or died: recovery then waits for somebody to start one. `OrphanRecovered`
holds where the dead worker's pid is not taken by another worker;
`MCWorkerSamePid` shows that this condition is needed.

## 4. Proofs

`StoreProofs` proves `StoreSpec => []StoreInv`, with

    StoreInv == TypeOK /\ LockInv /\ BudgetInv /\ BackoffInv /\ LogInv

for every value of the constants, and from it the action properties
`ClosedAttemptsFrozen` and `DoneIsFinal`. There is one lemma per transaction.
All but `add` and `prune` replace one row: `UpdateRow` reduces the invariant to
`GoodJob` of the new row and its events. `LockInv` is needed for typing (the
owner columns of a running row are not NULL), `BudgetInv` for itself: that a
live job is within its budgets is what makes the failing step exact.

`LedgerProofs` proves what the three tables say of each other. `StepKinds` shows
once that a transaction other than `add` and `prune` touches one job in one of
five ways: it ends the job, retries it, claims it, beats its heart, or charges
it a failure. `CountersMatchLog` (the budget counters are what the log says since
the last manual retry), `KeyInv` (submissions alone never give a key to two active
jobs) and `SlotsInv` (no lane runs more than its slots) are then arguments about
the five kinds. They count sets: the events after an appended one are the events
before it plus one (`FreshEvents`), and a claim adds one member to a lane that
had room. `PagesAreHonest` proves `ListHonest` for every queue and all limits. Its
core is `NewestFacts`: the rank of a row (how many newer ones there are) is a
bijection to `0..Cardinality - 1`, so `ORDER BY id DESC LIMIT n` returns exactly
`n` rows when there are that many; this needs no induction.

`WorkerProofs` proves `Spec => []PassInv`, with

    PassInv == StoreInv /\ WorkerTypeOK /\ ReapInv

for any number of workers, jobs and pids, and from it `ReapsOnlyTheDead`: no
reap hits a live worker. The heart is `ConfirmedInv` in `ReapInv`. After a pass
has found a pid dead, a new worker may get that pid and claim the very job; such
a claim carries a heartbeat not older than the pass, so the re-check inside
`store.reap` spares it. The proof splits steps into *calm* ones (`Calm`,
`LoopCalm`: no claim is taken) and claims. That a worker's attempt number is
never ahead of the table (`HeldInv`), that the row of a running job shows the
pid of the incarnation that opened the last attempt (`HolderInv`), and that a
pid has one process at a time (`PidInv`) are what make it inductive.

`OwnershipProofs` proves `Spec => []SystemInv`, with

    SystemInv    == PassInv /\ OwnershipInv
    OwnershipInv == IdleInv /\ PidsDiffer /\ ClaimInv /\ GuardInv /\ LiveInv /\ AttemptsMatchJob

`GuardInv` is why the guard of `record_success` and `record_failure` suffices
although it names only `worker_id` and pid and pids are recycled: a live worker
that sees its own pid in the lock holds the last attempt. A step is looked at
through what it does to one job: a claim, the end of a claim, a move of a job
nobody owns, or nothing. It follows that a running job has exactly one open
attempt (`AttemptsMatchJob`), that a clean exit leaves nothing behind
(`CleanExitHoldsNothing`), that two live workers execute one job only after an
operator took it from one (`OverlapOnlyByOperator`), and that only the incarnation
that opened an attempt decides it (`OutcomeByHolder`).

`RefinementProofs` proves `Spec => ImplementsOwnership`: under the mapping of
`WorkerOwnership` the initial states are those of `JobOwnership`, and each step is
one of its steps or changes none of its variables. The lemmas go by what happens
to an ownership (it is taken, reported, reclaimed, revoked), so that each of the
many actions of `Worker` is classified once. `JobOwnership` has no fairness, so
the theorem is about safety only.

`SystemUsesTheStore` in `OwnershipProofs` is the refinement in the other direction:
`Spec => StoreSpec`. It is not by construction, because a worker passes what it
remembers. `ClaimInv` and `HeldInv` show that the attempt number it records with is
one of the job's, `PidInv` that the clock reading of a reap pass is a past one, and
`LockInv` that the pid it nominated is a pid. With it `WorkersKeepTheLedger` carries
`KeyInv`, `SlotsInv` and `CountersMatchLog` over to the system of crashing and
hanging workers.

`CliProofs` is about any number of processes on one file. `FileInv` says what the
file is now by what it was when it was found, `PlaceOk` what a process knows at
its place in `connect`; the file only gains tables and goes up in version
(`Advances`), so what one process knows stays true when another moves the file
on, wherever either dies. This gives `SchemaInv`, and with `QueueInv` (what the
backfills make of a history) `MigrationKeepsTheQueue`. `CommandInv` says what a
command at a stage has behind it, and `LastWord` what its answer says of the file
from then on; `Later` is what every step of the others keeps of that. From it
follow `ErrorContract` and `ReadyIsTrue`. `AcceptedRequestsFit` needs that what
passes the handlers' checks satisfies the transactions' preconditions, verb by
verb and for every limit (`AcceptedIsSound`); `ValidatedConfigResolves`
needs that the validator and the loader read a file alike.

`OutputProofs` proves `ReadersSpec => []OutputSafe` for any number of workers,
reaps, cancels, retries and prunes, one system call at a time. `OutputInv` is not
inductive; `OutputSafe` adds what each process knows between two of its system
calls. `RunnerInv`: a busy worker still owns its job or the job was deleted,
canceled or retried, its directory is there or the job is lost, and no two workers
share a path. `PruneInv`: a matched job is still what was matched or has been
retried since. `DiskInv`: whatever a matched job has on disk is on the
prune's list or was written late; this is what leaves no orphan behind when the
rows go. What a transaction keeps of a job is stated once (`QueueKept`,
`TransactionKept`) and used by workers and prunes alike. Corollaries are `OutputInv`,
`RaisesOnlyWhenOverruled`, `SurvivorsIgnoreTerm` and `OnlyMatchesLoseFiles`.
`TailsAreEnds` is about `decode_tail` alone, for every stream of bytes and
every length.

`AnswersFit` compares rows that a report has kept with tables that have moved on.
Its proof has three parts. `ReadersUseTheStore` (`ReadersSpec => StoreSpec`) makes the
store's results available beside files and process groups: `DoneIsFinal`,
`ClosedAttemptsFrozen`, `LogInv` and `CountersMatchLog`. `AttemptsAreTold` proves
`HistorySafe`: the last attempt of a job is open while it runs and a success once
it is done, every other one has a reason, and a command that was run to its end
has its output or a prune took it. `ReportsAreSafe` proves `ReportInv`, what a
report may rely on between two SELECTs while its job is not pruned:

* its row was brought about by event number `seen`; if it says done the job still
  is, and if it says dead or canceled the job still is or `retried` comes after
  `seen` (`RowFits`);
* the attempts it read later end with the success of a done row, or with a
  closed attempt of a dead row unless retried since, contain a failure where the
  row owes a reason, and are no more than the claims in the log (`RowsFit`);
* what they say was captured is on disk or taken (`RowsKept`);
* `status` counted a dead job or the job died after the count (`CountsFit`).

`JobGoesOn` says once what any step of anybody leaves of a job, and each conjunct
follows from it (`StillFits`).

`EventStreamProofs` proves `StreamSpec => []StreamInv` for any number of readers
and jobs and every limit and filter, and from it `FollowerMissesNothing`,
`PollerMissesOnlyRaced`, `NeverTwice` and `InOrder`. `StreamInv` adds to the
types what holds of each reader between its steps (`ReadersGood`): everything
delivered comes before everything in hand or still to be fetched; the rows in
hand are above the cursor; a follower's rows contain every retained event between
the cursor and their last one; and at `mark` every wanted event after the cursor
is in the page, behind a truncated page, or raced. It is not true that what was
delivered is at or below the cursor: prune may take the high-water mark below
the page just read, and only ids that are never reused keep such a cursor from
delivering again.

Assumptions: NULL is not a number or a text (`NullAssumption`), and the constants
have the types of `TunablesAssumption`, `SpecsAssumption`, `CallersAssumption`,
`BoundsAssumption`, `ProcsAssumption`, `ReadersAssumption`, `RunnersAssumption`
(a command is alive when it is spawned), `BlobsAssumption`, `ReportsAssumption`,
`LimitsAssumption`, `DatabasesAssumption` and `CasesAssumption` (what the parser
hands over is what its types allow). `FoundAssumption` is more than a type: a file
with a version this code knows was completed by the spoolctl of that version, and
one without a version is what an interrupted script, of today's or of an older
spoolctl, left. `SchemaInv` and its companions are proved of every such file; their
exceptions are spelled out in `Mistaken` and `Broken`. TLC evaluates the assumptions in every run.

Only model-checked are the liveness properties (`OrphanRecovered`, `EveryJobSettles`,
`DrainTerminates`, `LostChildIsKilled`, `FollowerCatchesUp`, `EveryRunEnds`,
`WaitEnds`, `EveryCommandEnds`): liveness under fairness is out of the prover's
reach. The violations of section 3 are counterexamples TLC finds.

## 5. Not modelled

* SQLite itself: transactions are atomic, serial and durable. A busy database
  is a command that answers LOCKED or a worker that died.
* Clocks that run backwards or differ between processes: all processes are on
  one host and read one clock.
* Pids of other hosts: the database is local by design.
* `argparse`, beyond the kinds of lines it refuses, and everything about wording:
  envelopes, messages, suggestions by edit distance, human-readable layout.
* `contract.py` and `schemas.py`: tables that describe the command line and its
  JSON output and are printed as they are. Only the exit codes of
  `CODE_REGISTRY` and the check of `schema --verb` are in `Cli`; `doctor`'s
  comparison of the tables with each other depends on no state.
* `scripts/`: text processing at build time.
* A second job in `MCReaders`; interactions between jobs are `Store`'s.
* Disk full, and streams cut off while they are written.

## 6. Plan

Done: every component of section 1 except the static tables, and a proof of every
safety property of a passing run. What is left:

1. The liveness properties, should a prover for fairness and `ENABLED` become
   available. Their safety parts are there: `PassInv`, `StreamInv`, `OutputSafe`
   and `CommandInv` say where each process stands.
2. The same report over several jobs in one TLC instance; the theorems on reports
   already hold for any number of jobs.
