--------------------------------- MODULE Cli ---------------------------------
(***************************************************************************)
(* One command after the other on one queue: main and the cmd_* handlers   *)
(* of spoolctl/cli.py, with the error and exit code each path answers.  A  *)
(* command parses its line, resolves the configuration, opens the database *)
(* (Schema, shared with the other commands) and does its work; the work on *)
(* the queue itself is Store's and Worker's, here the job a command asks   *)
(* for may be in any state when its transaction runs.                      *)
(***************************************************************************)
EXTENDS Schema, Validation, Config, FiniteSetsExt

CONSTANT Cases      \* what the commands are given: their lines and the world

VARIABLES
    world,      \* settings and directories the commands find
    line,       \* the verb and the arguments of each process
    stage,      \* where a process is
    answer      \* the error code, exit code and ok of a process that ended

vars == <<schemaVars, world, line, stage, answer>>

EXIT_OK == 0
EXIT_INPUT == 1
EXIT_SAFETY == 2
EXIT_ENVIRONMENT == 3
EXIT_TRANSIENT == 4
EXIT_CONFLICT == 5
EXIT_JOB_FAILURE == 6

\* CODE_REGISTRY: the exit code published for each error code.
Registry ==
    [INVALID_INPUT |-> EXIT_INPUT, MISSING_REQUIRED |-> EXIT_INPUT,
     UNKNOWN_FLAG |-> EXIT_INPUT, UNKNOWN_COMMAND |-> EXIT_INPUT,
     NOT_FOUND |-> EXIT_INPUT, CONFLICT |-> EXIT_CONFLICT,
     IDEMPOTENCY_CONFLICT |-> EXIT_CONFLICT, SAFETY_BLOCK |-> EXIT_SAFETY,
     LOCKED |-> EXIT_TRANSIENT, TIMEOUT |-> EXIT_TRANSIENT,
     INTERNAL |-> EXIT_ENVIRONMENT]

\* _emit_failure: ok is false and the error list is not empty.
CliErrorWith(code, exit) == [code |-> code, exit |-> exit, ok |-> FALSE]

CliError(code) == CliErrorWith(code, EXIT_INPUT)

\* A VerbResult, and the one of events --follow, which prints no envelope.
VerbResult(exit) == [code |-> "none", exit |-> exit, ok |-> TRUE]

Silent(exit) == [code |-> "silent", exit |-> exit, ok |-> TRUE]

Internal == CliErrorWith("INTERNAL", EXIT_ENVIRONMENT)

\* Mutant: main reports a busy database with CliError's default exit code.
Locked_DefaultExit == CliError("LOCKED")

Locked == CliErrorWith("LOCKED", EXIT_TRANSIENT)

-----------------------------------------------------------------------------
(* The line                                                                *)

DatabaseVerbs ==
    {"add", "work", "wait", "status", "list", "show", "retry", "cancel", "prune",
     "output", "feedback", "events"}

\* Verbs that write once the database is open.
WritingVerbs == {"add", "work", "retry", "cancel", "prune"}

Integer(n) == [num |-> TRUE, n |-> n]

Decimal(n) == [num |-> TRUE, finite |-> TRUE, n |-> n]

Word == [size |-> "fits", shape |-> TRUE, printable |-> TRUE, nul |-> FALSE, padded |-> FALSE]

\* What build_parser fills in for the flags a line does not have, and the
\* arguments it must have; reals count half seconds.
Defaults(verb) ==
    CASE verb = "add" ->
           [shell_string |-> NULL, argv |-> "words", key |-> NULL, tag |-> <<>>,
            note |-> NULL, after |-> NULL, moment |-> NULL, priority |-> Integer(0),
            queue |-> Word, timeout |-> Integer(3), max_retries |-> Integer(3),
            max_crashes |-> NULL, cwd |-> NULL, env |-> <<>>]
      [] verb = "work" ->
           [once |-> FALSE, drain |-> FALSE, poll_interval |-> NULL, worker_id |-> NULL,
            queue |-> Word, slots |-> NULL, heartbeat_variable |-> NULL,
            reap_variable |-> NULL]
      [] verb = "wait" ->
           [ids |-> <<Integer(1)>>, timeout |-> NULL, poll_interval |-> Decimal(1)]
      [] verb = "status" -> [limit |-> Integer(2)]
      [] verb = "list" ->
           [state |-> NULL, tag |-> <<>>, queue |-> NULL, priority_min |-> NULL,
            limit |-> Integer(2)]
      [] verb = "show" -> [id |-> Integer(1)]
      [] verb = "retry" -> [id |-> Integer(1), force |-> FALSE]
      [] verb = "cancel" -> [id |-> Integer(1), running |-> FALSE, yes |-> FALSE]
      [] verb = "prune" ->
           [older_than |-> [num |-> TRUE, finite |-> TRUE, n |-> 1, unit |-> "d"],
            state |-> {"done"}, dry_run |-> FALSE, yes |-> FALSE]
      [] verb = "output" ->
           [id |-> Integer(1), stream |-> "both", raw |-> FALSE, attempt |-> NULL,
            json |-> FALSE]
      [] verb = "feedback" -> [id |-> Integer(1), tail_bytes |-> NULL]
      [] verb = "events" ->
           [job |-> NULL, since_id |-> NULL, limit |-> NULL, max_events |-> NULL,
            idle_timeout |-> NULL, wait |-> FALSE, wait_timeout |-> Decimal(4),
            follow |-> FALSE, poll_interval |-> Decimal(1)]
      [] verb = "schema" -> [schema_verb |-> NULL]
      [] OTHER -> [json |-> FALSE]

\* Lines argparse does not accept, or answers itself.
MalformedShapes ==
    {"empty", "json_only", "missing_argument", "missing_subcommand", "flags_only",
     "unknown_flag", "unknown_verb", "bad_choice", "stray_word", "flag_without_value",
     "help", "version"}

\* What the parser hands to a handler.
WellFormed(l) ==
    /\ l.verb = "malformed" => l.args.shape \in MalformedShapes
    /\ l.verb = "add" => /\ l.args.after # NULL => l.args.after.n \in Int
                         /\ l.args.moment # NULL => l.args.moment.n \in Int
    /\ l.verb = "prune" => /\ l.args.older_than.n \in Int
                           /\ l.args.yes \in BOOLEAN /\ l.args.dry_run \in BOOLEAN

\* The flag, the variable and the file that name the database, its directory,
\* and whether the path is a directory itself.  An unusable directory fails
\* with an error code that is not one of the five _connect_db expects.
Surroundings ==
    [flag : Paths \cup {NULL},
     variable : Paths \cup {NULL},
     config : ConfigFiles,
     parent : {"writable", "missing", "blocked", "readonly", "unusable"},
     directory : BOOLEAN]

ASSUME CasesAssumption ==
    \A c \in Cases : c.world \in Surroundings /\ \A p \in Procs : WellFormed(c.line[p])

\* _verbless_error and _parser_exit_to_error
UsageError(shape) ==
    CASE shape \in {"empty", "json_only", "missing_argument", "missing_subcommand"} ->
           CliError("MISSING_REQUIRED")
      [] shape \in {"flags_only", "unknown_flag"} -> CliError("UNKNOWN_FLAG")
      [] shape = "unknown_verb" -> CliError("UNKNOWN_COMMAND")
      [] shape \in {"bad_choice", "stray_word", "flag_without_value"} ->
           CliError("INVALID_INPUT")
      [] shape \in {"help", "version"} -> VerbResult(EXIT_OK)

\* The first check that fails decides.
Unless(ok, error) == [ok |-> ok, error |-> error]

Accepted == [code |-> "accepted", exit |-> EXIT_OK, ok |-> TRUE]

FirstFailure(checks) ==
    LET failed == {i \in DOMAIN checks : ~checks[i].ok}
    IN  IF failed = {} THEN Accepted ELSE checks[Min(failed)].error

Invalid(ok) == Unless(ok, CliError("INVALID_INPUT"))

\* argv: a command string, words, or both; a word that looks like a flag
\* needs the -- before it.
cmd_add(a) ==
    FirstFailure(<<
        Invalid(~(a.shell_string # NULL /\ a.argv # "none")),
        Unless(a.shell_string # "blank", CliError("MISSING_REQUIRED")),
        Invalid(a.argv # "flag_like"),
        Unless(a.shell_string # NULL \/ a.argv # "none", CliError("MISSING_REQUIRED")),
        Invalid(parse_int_bound(a.timeout, 1, SQLITE_INT64_MAX)),
        Invalid(parse_int_bound(a.max_retries, 0, SQLITE_INT64_MAX)),
        Invalid(OptionalInt(a.max_crashes, 0, SQLITE_INT64_MAX)),
        Invalid(~(a.after # NULL /\ a.moment # NULL)),
        Invalid(parse_priority(a.priority)),
        Invalid(parse_queue(a.queue)),
        Invalid(normalize_key(a.key)),
        Invalid(parse_add_tags(a.tag)),
        Invalid(parse_job_cwd(a.cwd)),
        Invalid(parse_job_env(a.env)),
        Invalid(a.note # "long"),
        Invalid(a.after # NULL => parse_duration_seconds(a.after)),
        Unless(a.moment # NULL => ~parse_at_raises(a.moment), Internal),
        Invalid(a.moment # NULL => parse_at(a.moment))>>)

\* When the job added at time now may run first.
next_run_at(a, now) ==
    CASE a.after # NULL -> now + duration_seconds(a.after)
      [] a.after = NULL /\ a.moment # NULL -> IF a.moment.n > now THEN a.moment.n ELSE now
      [] OTHER -> now

cmd_work(a) ==
    FirstFailure(<<
        Invalid(OptionalFloat(a.heartbeat_variable, MAX_WAIT_SECONDS)),
        Invalid(OptionalFloat(a.reap_variable, MAX_WAIT_SECONDS)),
        Invalid(OptionalFloat(a.poll_interval, MAX_POLL_INTERVAL_SECONDS)),
        Invalid(~(a.drain /\ a.once)),
        Invalid(parse_queue(a.queue)),
        Invalid(OptionalInt(a.slots, 1, SQLITE_INT64_MAX)),
        Invalid(parse_worker_id(a.worker_id))>>)

cmd_list(a) ==
    FirstFailure(<<
        Invalid(parse_states(a.state)),
        Invalid(parse_list_tags(a.tag)),
        Invalid(a.queue # NULL => parse_queue(a.queue)),
        Invalid(a.priority_min # NULL => parse_priority(a.priority_min)),
        Invalid(parse_int_bound(a.limit, 0, LIST_LIMIT_MAX))>>)

cmd_status(a) == FirstFailure(<<Invalid(parse_int_bound(a.limit, 0, STATUS_LIMIT_MAX))>>)

cmd_show(a) == FirstFailure(<<Invalid(job_id_arg(a.id))>>)

cmd_wait(a) ==
    FirstFailure(<<
        Invalid(\A i \in DOMAIN a.ids : job_id_arg(a.ids[i])),
        Invalid(OptionalFloat(a.timeout, MAX_WAIT_SECONDS)),
        Invalid(parse_positive_float(a.poll_interval, MAX_POLL_INTERVAL_SECONDS))>>)

cmd_cancel(a) ==
    FirstFailure(<<
        Invalid(job_id_arg(a.id)),
        Unless(a.running => a.yes, CliErrorWith("SAFETY_BLOCK", EXIT_SAFETY))>>)

cmd_prune(a) ==
    FirstFailure(<<
        Invalid(parse_duration_seconds(a.older_than)),
        Invalid(parse_prune_states(a.state)),
        Invalid(~(a.yes /\ a.dry_run)),
        Unless(a.yes \/ a.dry_run, CliErrorWith("SAFETY_BLOCK", EXIT_SAFETY))>>)

validate_events_args(a) ==
    FirstFailure(<<
        Invalid(OptionalInt(a.job, 1, SQLITE_INT64_MAX)),
        Invalid(OptionalInt(a.since_id, 0, SQLITE_INT64_MAX)),
        Invalid(OptionalInt(a.limit, 0, EVENT_LIMIT_MAX)),
        Invalid(OptionalInt(a.max_events, 1, EVENT_LIMIT_MAX)),
        Invalid(OptionalFloat(a.idle_timeout, MAX_WAIT_SECONDS)),
        Invalid(parse_positive_float(a.poll_interval, MAX_POLL_INTERVAL_SECONDS)),
        Invalid(parse_positive_float(a.wait_timeout, MAX_WAIT_SECONDS)),
        Invalid(~(a.follow /\ a.wait)),
        Invalid(~(a.follow /\ a.limit # NULL)),
        Invalid(a.max_events # NULL => a.follow),
        Invalid(a.idle_timeout # NULL => a.follow)>>)

cmd_output(a) ==
    FirstFailure(<<
        Invalid(job_id_arg(a.id)),
        Invalid(OptionalInt(a.attempt, 1, SQLITE_INT64_MAX)),
        Invalid(~(a.raw /\ a.json)),
        Invalid(~(a.raw /\ a.stream = "both"))>>)

cmd_feedback(a) ==
    FirstFailure(<<
        Invalid(job_id_arg(a.id)),
        Invalid(OptionalInt(a.tail_bytes, 1, FEEDBACK_TAIL_MAX))>>)

\* schema --verb NAME
build_schema(a) == FirstFailure(<<Invalid(a.schema_verb # "unknown")>>)

\* What the handler of a verb says of its arguments.
Judged(l) ==
    CASE l.verb = "add" -> cmd_add(l.args)
      [] l.verb = "work" -> cmd_work(l.args)
      [] l.verb = "list" -> cmd_list(l.args)
      [] l.verb = "status" -> cmd_status(l.args)
      [] l.verb \in {"show", "retry"} -> cmd_show(l.args)
      [] l.verb = "wait" -> cmd_wait(l.args)
      [] l.verb = "cancel" -> cmd_cancel(l.args)
      [] l.verb = "prune" -> cmd_prune(l.args)
      [] l.verb = "events" -> validate_events_args(l.args)
      [] l.verb = "output" -> cmd_output(l.args)
      [] l.verb = "feedback" -> cmd_feedback(l.args)
      [] l.verb = "schema" -> build_schema(l.args)
      [] OTHER -> Accepted

-----------------------------------------------------------------------------
(* The steps of a command                                                  *)

End(p, outcome) ==
    /\ stage' = [stage EXCEPT ![p] = "ended"]
    /\ answer' = [answer EXCEPT ![p] = outcome]

Go(p, next) ==
    /\ stage' = [stage EXCEPT ![p] = next]
    /\ UNCHANGED answer

\* An error code of the configuration as an answer.
Refused(code) == IF code = "INTERNAL" THEN Internal ELSE CliError(code)

Resolution == resolve_effective_config(world.flag, world.variable, world.config)

\* main up to the handler, and the handler up to the configuration.
Parse(p) ==
    /\ stage[p] = "start"
    /\ \/ line[p].verb = "malformed" /\ End(p, UsageError(line[p].args.shape))
       \/ /\ line[p].verb # "malformed"
          /\ Judged(line[p]) # Accepted
          /\ End(p, Judged(line[p]))
       \/ /\ line[p].verb # "malformed"
          /\ Judged(line[p]) = Accepted
          /\ Go(p, "resolve")
    /\ UNCHANGED <<schemaVars, world, line>>

\* The verbs that open the database; the ones that print what is built in.
Resolve(p) ==
    /\ stage[p] = "resolve"
    /\ \/ /\ line[p].verb \in DatabaseVerbs
          /\ IF Resolution.code = "ok" THEN Go(p, "open") ELSE End(p, Refused(Resolution.code))
       \/ /\ line[p].verb \in {"brief", "schema", "capabilities", "robot-docs"}
          /\ End(p, VerbResult(EXIT_OK))
    /\ UNCHANGED <<schemaVars, world, line>>

config_show(p) ==
    /\ stage[p] = "resolve"
    /\ line[p].verb = "config-show"
    /\ End(p, IF Resolution.code = "ok" THEN VerbResult(EXIT_OK) ELSE Refused(Resolution.code))
    /\ UNCHANGED <<schemaVars, world, line>>

\* A path on the line, or the file every command reads: here the latter.
config_validate(p) ==
    /\ stage[p] = "resolve"
    /\ line[p].verb = "config-validate"
    /\ LET code == validate_config_file(world.config)
       IN  End(p, IF code = "ok" THEN VerbResult(EXIT_OK) ELSE Refused(code))
    /\ UNCHANGED <<schemaVars, world, line>>

\* makedirs and sqlite3.connect: _connect_db translates what it expects of
\* them, and work nothing.
CannotOpen(p) ==
    IF line[p].verb = "work" \/ world.parent = "unusable"
      THEN Internal ELSE CliError("INVALID_INPUT")

OpenDb(p) ==
    /\ stage[p] = "open"
    /\ opener[p] = "idle"
    /\ \/ /\ world.parent \in {"writable", "missing"} /\ ~world.directory
          /\ MoveTo(p, "connect", 0)
          /\ world' = [world EXCEPT !.parent = "writable"]
          /\ UNCHANGED <<stage, answer>>
       \/ /\ world.parent \in {"blocked", "readonly", "unusable"} \/ world.directory
          /\ End(p, CannotOpen(p))
          /\ UNCHANGED <<opener, at, world>>
    /\ UNCHANGED <<found, db, misread, line>>

\* main's except clauses around a connect that failed.
OpenFailed(p) ==
    /\ stage[p] = "open"
    /\ opener[p] \in OpenEnds \ {"open"}
    /\ End(p, CASE opener[p] = "locked" -> Locked
                [] opener[p] = "refused" -> CannotOpen(p)
                [] opener[p] \in {"too_new", "failed"} -> Internal
                [] opener[p] = "dead" -> [code |-> "killed", exit |-> 137, ok |-> FALSE])
    /\ UNCHANGED <<schemaVars, world, line>>

-----------------------------------------------------------------------------
(* What a command answers once the database is open                        *)

\* The outcomes of store.cancel_job; raced: no longer running when looked at
\* again.
cancel_operation(a, job) ==
    CASE job = NULL -> {CliError("NOT_FOUND")}
      [] job = "queued" -> {VerbResult(EXIT_OK)}
      [] job = "running" /\ ~a.running -> {CliErrorWith("SAFETY_BLOCK", EXIT_SAFETY)}
      [] job = "running" /\ a.running ->
           {VerbResult(EXIT_OK), CliErrorWith("CONFLICT", EXIT_CONFLICT)}
      [] OTHER -> {CliErrorWith("CONFLICT", EXIT_CONFLICT)}

retry_operation(a, job) ==
    CASE job = NULL -> {CliError("NOT_FOUND")}
      [] job = "running" /\ ~a.force -> {CliErrorWith("SAFETY_BLOCK", EXIT_SAFETY)}
      [] job = "running" /\ a.force ->
           {VerbResult(EXIT_OK), CliErrorWith("CONFLICT", EXIT_CONFLICT)}
      [] job \in {"queued", "done"} -> {CliErrorWith("CONFLICT", EXIT_CONFLICT)}
      [] OTHER -> {VerbResult(EXIT_OK)}

\* A key may belong to an active job with another payload; the job is read
\* again after the COMMIT, and may be canceled and pruned by then.
add_operation(a, job) ==
    {IF job = NULL THEN Internal ELSE VerbResult(EXIT_OK)} \cup
    (IF a.key # NULL THEN {CliErrorWith("IDEMPOTENCY_CONFLICT", EXIT_CONFLICT)} ELSE {})

\* The loop that is not a drain prints nothing at its end.  A claim whose
\* job is pruned before it is read again, or whose output directory is
\* taken away, raises.
work_operation(a) ==
    {IF a.once \/ a.drain THEN VerbResult(EXIT_OK) ELSE Silent(EXIT_OK), Internal}

\* A job pruned after the first look is a None that has no state.
wait_operation(a, job) ==
    CASE job = NULL -> {CliError("NOT_FOUND"), Internal}
      [] job = "done" -> {VerbResult(EXIT_OK)}
      [] job \in ActiveStates ->
           IF a.timeout # NULL THEN {CliErrorWith("TIMEOUT", EXIT_TRANSIENT)} ELSE {}
      [] OTHER -> {VerbResult(EXIT_JOB_FAILURE)}

\* A follower reports a failing database as a frame and an exit code.
events_operation(a) ==
    IF a.follow THEN {Silent(EXIT_OK), Silent(EXIT_ENVIRONMENT)} ELSE {VerbResult(EXIT_OK)}

Outcomes(l, job) ==
    CASE l.verb = "cancel" -> cancel_operation(l.args, job)
      [] l.verb = "retry" -> retry_operation(l.args, job)
      [] l.verb = "add" -> add_operation(l.args, job)
      [] l.verb = "work" -> work_operation(l.args)
      [] l.verb = "wait" -> wait_operation(l.args, job)
      [] l.verb = "events" -> events_operation(l.args)
      [] l.verb \in {"show", "output", "feedback"} ->
           {IF job = NULL THEN CliError("NOT_FOUND") ELSE VerbResult(EXIT_OK)}
             \cup (IF l.verb = "output" /\ l.args.attempt # NULL
                     THEN {CliError("NOT_FOUND")} ELSE {})
      [] OTHER -> {VerbResult(EXIT_OK)}

Writes(l) == l.verb \in WritingVerbs /\ (l.verb = "prune" => l.args.yes)

\* The transactions of the command, with the job it names in any state.
Serve(p) ==
    /\ stage[p] = "open"
    /\ opener[p] = "open"
    /\ \/ ~(Writes(line[p]) /\ db.protected)
          /\ \E job \in JobStates \cup {NULL} :
               \E outcome \in Outcomes(line[p], job) : End(p, outcome)
       \/ Writes(line[p]) /\ db.protected /\ End(p, Internal)
    /\ UNCHANGED <<schemaVars, world, line>>

\* Commands that loop until a signal or until others have done something:
\* work without --once, wait without a timeout, and a follower that lacks
\* one of its two limits.
GoesOn(l) ==
    \/ l.verb = "work" /\ ~l.args.once
    \/ l.verb = "wait" /\ l.args.timeout = NULL
    \/ l.verb = "events" /\ l.args.follow
         /\ (l.args.max_events = NULL \/ l.args.idle_timeout = NULL)

Run(p) == ~GoesOn(line[p]) /\ Serve(p)

\* SIGINT or SIGTERM, a settled job, an event: nobody owes them to a loop.
LoopEnds(p) == GoesOn(line[p]) /\ Serve(p)

\* BEGIN IMMEDIATE gave up after BUSY_TIMEOUT_MS.
RunBusy(p) ==
    /\ stage[p] = "open"
    /\ opener[p] = "open"
    /\ Writes(line[p]) /\ ~db.protected
    /\ End(p, Locked)
    /\ UNCHANGED <<schemaVars, world, line>>

-----------------------------------------------------------------------------
(* doctor: it looks at the files and then reads the version, and raises    *)
(* only what says the flag is wrong                                        *)

NotReady == VerbResult(EXIT_ENVIRONMENT)

DoctorFiles(p) ==
    /\ stage[p] = "resolve"
    /\ line[p].verb = "doctor"
    /\ \/ Resolution.code = "INTERNAL" /\ End(p, Internal)
       \/ /\ Resolution.code = "INVALID_INPUT"
          /\ End(p, IF Resolution.source = "flag" THEN CliError("INVALID_INPUT") ELSE NotReady)
       \/ /\ Resolution.code = "ok"
          /\ world.parent # "writable" \/ ~db.file \/ world.directory
          /\ End(p, NotReady)
       \/ /\ Resolution.code = "ok"
          /\ world.parent = "writable" /\ db.file /\ ~world.directory
          /\ Go(p, "version")
    /\ UNCHANGED <<schemaVars, world, line>>

\* Mutant: a version that a command would migrate is good enough.
DoctorVersion_Older(p) ==
    /\ stage[p] = "version"
    /\ End(p, IF db.version # NULL /\ db.version <= SCHEMA_VERSION
                THEN VerbResult(EXIT_OK) ELSE NotReady)
    /\ UNCHANGED <<schemaVars, world, line>>

\* _read_schema_version_non_mutating
DoctorVersion(p) ==
    /\ stage[p] = "version"
    /\ End(p, IF db.version = SCHEMA_VERSION THEN VerbResult(EXIT_OK) ELSE NotReady)
    /\ UNCHANGED <<schemaVars, world, line>>

\* The SELECT failed: busy for a second, or no meta table.
DoctorBusy(p) ==
    /\ stage[p] = "version"
    /\ End(p, NotReady)
    /\ UNCHANGED <<schemaVars, world, line>>

\* An exception that no handler foresees, at any point: a full disk, a
\* corrupt file, a working directory that is gone, a number of thousands of
\* digits, a word SQLite cannot store.  main answers INTERNAL.
Unexpected(p) ==
    /\ stage[p] # "ended"
    /\ End(p, Internal)
    /\ UNCHANGED <<schemaVars, world, line>>

-----------------------------------------------------------------------------
(* Specification                                                           *)

Init ==
    \E c \in Cases :
        /\ SchemaInit
        /\ db = c.db
        /\ world = c.world
        /\ line = c.line
        /\ stage = [p \in Procs |-> "start"]
        /\ answer = [p \in Procs |-> Accepted]

Opening(p) == stage[p] = "open" /\ OpenStep(p) /\ UNCHANGED <<world, line, stage, answer>>

OpeningFails(p) == stage[p] = "open" /\ OpenFault(p) /\ UNCHANGED <<world, line, stage, answer>>

Step(p) ==
    \/ Parse(p) \/ Resolve(p) \/ config_show(p) \/ config_validate(p)
    \/ OpenDb(p) \/ Opening(p) \/ OpenFailed(p) \/ Run(p)
    \/ DoctorFiles(p) \/ DoctorVersion(p)

\* What happens to a command, or for it: nothing makes these happen.
Fault(p) ==
    OpeningFails(p) \/ RunBusy(p) \/ LoopEnds(p) \/ DoctorBusy(p) \/ Unexpected(p)

Next == \E p \in Procs : Step(p) \/ Fault(p)

\* A command that can take its next step takes it.
Fairness == \A p \in Procs : WF_vars(Step(p))

CliSpec == Init /\ [][Next]_vars /\ Fairness

-----------------------------------------------------------------------------
(* Properties                                                              *)

\* Stages and answers stay within their types.
CliTypeOK ==
    /\ stage \in [Procs -> {"start", "resolve", "open", "version", "ended"}]
    /\ \A p \in Procs : answer[p].exit \in 0..6 \cup {137} /\ answer[p].ok \in BOOLEAN

Ended(p) == stage[p] = "ended" /\ answer[p].code # "killed"

\* Whatever path an answer came from, parser, handler, configuration, open
\* or transaction, it carries the exit code CODE_REGISTRY publishes for its
\* error code; and an answer without an error exits non-zero only where
\* EXIT_CODES says so: wait (6), doctor (3), and a follower whose stream
\* broke (3).
PublishedExits ==
    \A p \in Procs : Ended(p) =>
        \/ answer[p].code \in DOMAIN Registry
             /\ ~answer[p].ok /\ answer[p].exit = Registry[answer[p].code]
        \/ answer[p].code \in {"none", "silent"}
             /\ answer[p].ok
             /\ \/ answer[p].exit = EXIT_OK
                \/ line[p].verb = "wait" /\ answer[p].exit = EXIT_JOB_FAILURE
                \/ line[p].verb = "doctor" /\ answer[p].exit = EXIT_ENVIRONMENT
                \/ answer[p].code = "silent" /\ answer[p].exit = EXIT_ENVIRONMENT

\* A command that reports success was served: its handler accepted its line,
\* a write did not go to a protected file, and the file is at the current
\* version and whole, now and from then on, unless it was mistaken.
SuccessIsServed ==
    \A p \in Procs : Ended(p) /\ answer[p].ok /\ line[p].verb \in DatabaseVerbs =>
        /\ Judged(line[p]) = Accepted
        /\ Writes(line[p]) => ~db.protected
        /\ Mistaken \/ (db.version = SCHEMA_VERSION /\ BuiltAs(SCHEMA_VERSION))

\* What every caller may rely on when it reads an exit code and an error code.
ErrorContract == CliTypeOK /\ PublishedExits /\ SuccessIsServed

Ready(p) == stage[p] = "ended" /\ line[p].verb = "doctor" /\ answer[p] = VerbResult(EXIT_OK)

\* doctor never speaks too soon: when it answers ready, also while others
\* are still creating or migrating the file, the tables are complete and
\* no later command is refused, except for a lock, a protected file, or rows
\* without their job.
ReadyIsTrue ==
    (\E p \in Procs : Ready(p)) =>
        /\ Mistaken \/ (db.version = SCHEMA_VERSION /\ BuiltAs(SCHEMA_VERSION))
        /\ ~world.directory /\ world.parent = "writable"
        /\ \A q \in Procs : opener[q] \in {"too_new", "failed", "refused"} =>
              Mistaken \/ db.protected \/ found.dangling

\* What a command line that is accepted may ask of the queue: the bounds the
\* transactions rely on (Store's assumptions on submissions, slots, delays
\* and prunable states), and the exclusions of the event stream.
Sound(l, now) ==
    CASE l.verb = "add" ->
           /\ l.args.timeout.n >= 1 /\ l.args.max_retries.n >= 0
           /\ l.args.max_crashes # NULL => l.args.max_crashes.n >= 0
           /\ next_run_at(l.args, now) >= now
      [] l.verb = "work" ->
           /\ l.args.slots # NULL => l.args.slots.n >= 1
           /\ ~(l.args.drain /\ l.args.once)
      [] l.verb = "prune" ->
           /\ l.args.state \subseteq PrunableStates
           /\ now - duration_seconds(l.args.older_than) <= now
           /\ l.args.yes # l.args.dry_run
      [] l.verb = "cancel" -> l.args.running => l.args.yes
      [] l.verb = "events" ->
           /\ l.args.follow => l.args.limit = NULL /\ ~l.args.wait
           /\ l.args.max_events # NULL => l.args.max_events.n >= 1
           /\ l.args.since_id # NULL => l.args.since_id.n >= 0
      [] l.verb \in {"show", "retry", "output", "feedback"} -> l.args.id.n >= 1
      [] l.verb = "wait" -> l.args.poll_interval.n > 0
      [] OTHER -> TRUE

\* No command that opened the database asks it for something the queue's
\* transactions are not written for.
AcceptedRequestsFit ==
    \A p \in Procs : stage[p] = "open" => Sound(line[p], 0)

\* A config file that config-validate accepts never makes another command
\* refuse it: what config-show refuses then is the flag or the variable.
ValidatedConfigResolves ==
    \A p, q \in Procs :
        /\ Ended(p) /\ line[p].verb = "config-validate" /\ answer[p].ok
        /\ Ended(q) /\ line[q].verb = "config-show" /\ answer[q].code = "INVALID_INPUT"
        => Resolution.source \in {"flag", "environment"}

\* Every command that is not a loop ends, whoever it races with for the file
\* and however often the others move it on.
EveryCommandEnds == \A p \in Procs : ~GoesOn(line[p]) ~> stage[p] = "ended"
=============================================================================
