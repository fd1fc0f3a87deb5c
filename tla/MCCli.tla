-------------------------------- MODULE MCCli --------------------------------
(* Small instances of Cli for TLC: every verb with every argument off its   *)
(* default, and pairs of commands on every kind of database and directory. *)
EXTENDS Cli

LowestPriority == -2

Verbs ==
    DatabaseVerbs \cup
    {"config-show", "config-validate", "doctor", "brief", "schema", "capabilities",
     "robot-docs"}

Plain(verb) == [verb |-> verb, args |-> Defaults(verb)]

-----------------------------------------------------------------------------
(* Lines                                                                   *)

Numbers(top) ==
    {Integer(n) : n \in {-1, 0, 1, top, top + 1}} \cup {[num |-> FALSE, n |-> 0]}

Reals(top) ==
    {Decimal(n) : n \in {-1, 0, top, top + 1}}
    \cup {[num |-> FALSE, finite |-> FALSE, n |-> 1], [num |-> TRUE, finite |-> FALSE, n |-> 1]}

Texts ==
    {[Word EXCEPT !.size = s] : s \in {"empty", "long"}}
    \cup {[Word EXCEPT !.shape = FALSE], [Word EXCEPT !.printable = FALSE],
          [Word EXCEPT !.nul = TRUE], [Word EXCEPT !.padded = TRUE]}

Spans ==
    {[num |-> TRUE, finite |-> TRUE, n |-> n, unit |-> u] :
        n \in {-1, 0, 1, 2}, u \in {"none", "s", "m", "h", "d", "w"}}
    \cup {[num |-> FALSE, finite |-> FALSE, n |-> 0, unit |-> "s"],
          [num |-> TRUE, finite |-> FALSE, n |-> 0, unit |-> "s"]}

Moments ==
    {[kind |-> k, n |-> n] : k \in {"epoch", "iso", "extreme", "neither"}, n \in {-100001, -1, 1, 100001}}

Pairs ==
    {[name |-> "k", key |-> Word, value |-> NULL],
     [name |-> "k", key |-> Word, value |-> [Word EXCEPT !.size = "long"]],
     [name |-> "k", key |-> Word, value |-> [Word EXCEPT !.nul = TRUE]],
     [name |-> "k", key |-> [Word EXCEPT !.shape = FALSE], value |-> Word]}

Good(name) == [name |-> name, key |-> Word, value |-> Word]

Lists == {<<x>> : x \in Pairs} \cup {<<Good("k"), Good("k")>>, <<Good("k"), Good("j")>>}

\* The values each flag is tried with, besides its default.
Tried(verb) ==
    CASE verb = "add" ->
           [shell_string |-> {"command", "blank"}, argv |-> {"none", "flag_like"},
            key |-> Texts \cup {Word}, tag |-> Lists, note |-> {"long"}, after |-> Spans,
            moment |-> Moments, priority |-> Numbers(PRIORITY_MAX) \cup {Integer(PRIORITY_MIN - 1)},
            queue |-> Texts, timeout |-> Numbers(SQLITE_INT64_MAX),
            max_retries |-> Numbers(SQLITE_INT64_MAX),
            max_crashes |-> Numbers(SQLITE_INT64_MAX), cwd |-> Texts, env |-> Lists]
      [] verb = "work" ->
           [once |-> {TRUE}, drain |-> {TRUE}, poll_interval |-> Reals(MAX_POLL_INTERVAL_SECONDS),
            worker_id |-> Texts, queue |-> Texts, slots |-> Numbers(SQLITE_INT64_MAX),
            heartbeat_variable |-> Reals(MAX_WAIT_SECONDS),
            reap_variable |-> Reals(MAX_WAIT_SECONDS)]
      [] verb = "wait" ->
           [ids |-> {<<Integer(1), i>> : i \in Numbers(SQLITE_INT64_MAX)},
            timeout |-> Reals(MAX_WAIT_SECONDS),
            poll_interval |-> Reals(MAX_POLL_INTERVAL_SECONDS)]
      [] verb = "status" -> [limit |-> Numbers(STATUS_LIMIT_MAX)]
      [] verb = "list" ->
           [state |-> {{"dead", "failed"}, {"lost"}}, tag |-> Lists, queue |-> Texts,
            priority_min |-> Numbers(PRIORITY_MAX), limit |-> Numbers(LIST_LIMIT_MAX)]
      [] verb = "show" -> [id |-> Numbers(SQLITE_INT64_MAX)]
      [] verb = "retry" -> [id |-> Numbers(SQLITE_INT64_MAX), force |-> {TRUE}]
      [] verb = "cancel" ->
           [id |-> Numbers(SQLITE_INT64_MAX), running |-> {TRUE}, yes |-> {TRUE}]
      [] verb = "prune" ->
           [older_than |-> Spans, state |-> {{"dead", "canceled"}, {"done", "running"}, {"failed"}},
            dry_run |-> {TRUE}, yes |-> {TRUE}]
      [] verb = "output" ->
           [id |-> Numbers(SQLITE_INT64_MAX), stream |-> {"stdout"}, raw |-> {TRUE},
            attempt |-> Numbers(SQLITE_INT64_MAX), json |-> {TRUE}]
      [] verb = "feedback" ->
           [id |-> Numbers(SQLITE_INT64_MAX), tail_bytes |-> Numbers(FEEDBACK_TAIL_MAX)]
      [] verb = "events" ->
           [job |-> Numbers(SQLITE_INT64_MAX), since_id |-> Numbers(SQLITE_INT64_MAX),
            limit |-> Numbers(EVENT_LIMIT_MAX), max_events |-> Numbers(EVENT_LIMIT_MAX),
            idle_timeout |-> Reals(MAX_WAIT_SECONDS), wait |-> {TRUE},
            wait_timeout |-> Reals(MAX_WAIT_SECONDS), follow |-> {TRUE},
            poll_interval |-> Reals(MAX_POLL_INTERVAL_SECONDS)]
      [] verb = "schema" -> [schema_verb |-> {"add", "unknown"}]
      [] OTHER -> [json |-> {TRUE}]

Varied(verb, args) ==
    UNION {{[args EXCEPT ![flag] = value] : value \in Tried(verb)[flag]} :
             flag \in DOMAIN Tried(verb)}

Switches ==
    {"once", "drain", "force", "running", "yes", "dry_run", "raw", "json", "wait", "follow"}

\* One switch of a verb on.
Switched(verb) ==
    {[Defaults(verb) EXCEPT ![flag] = TRUE] : flag \in DOMAIN Tried(verb) \cap Switches}

\* One flag off its default, or a switch and another flag: what the handlers
\* exclude together always has a switch in it, except in add.
Arguments(verb) ==
    {Defaults(verb)} \cup Varied(verb, Defaults(verb)) \cup
    IF verb = "add"
      THEN {[Defaults("add") EXCEPT !.shell_string = "command", !.argv = a] :
                a \in {"none", "words"}}
           \cup {[Defaults("add") EXCEPT !.shell_string = "blank", !.argv = "none"],
                 [Defaults("add") EXCEPT !.after = CHOOSE s \in Spans : s.num,
                                         !.moment = CHOOSE m \in Moments : TRUE]}
      ELSE UNION {Varied(verb, args) : args \in Switched(verb)}

\* The one follower that ends by itself.
BoundedFollow ==
    [verb |-> "events",
     args |-> [Defaults("events") EXCEPT !.follow = TRUE, !.max_events = Integer(1),
                                         !.idle_timeout = Decimal(2)]]

Lines ==
    {BoundedFollow}
    \cup UNION {{[verb |-> verb, args |-> args] : args \in Arguments(verb)} : verb \in Verbs}
    \cup {[verb |-> "malformed", args |-> [shape |-> s]] : s \in MalformedShapes}

-----------------------------------------------------------------------------
(* Databases and worlds                                                    *)

NoFile ==
    [file |-> FALSE, sqlite |-> TRUE, protected |-> FALSE, dangling |-> FALSE,
     objects |-> {}, version |-> NULL, columns |-> {}, seq |-> 0, kept |-> FALSE, history |-> <<>>, crashes |-> NULL, reasons |-> <<>>]

\* A file whose creator, of a version of spoolctl, died after statement n of
\* the script, maybe before the stamp.
HalfCreated(version, n) ==
    LET made == {Script[i] : i \in 1..n} \ (IF version < 3 THEN {"idx_jobs_key"} ELSE {})
    IN  [NoFile EXCEPT !.file = TRUE, !.objects = made,
                       !.columns = ScriptColumns(made) \cap (2..version)]

Histories ==
    {<<"failed", "reaped">>, <<"forced", "timed_out", "succeeded">>,
     <<"reaped", "retried", "reaped", "canceled">>}

\* What spoolctl of a version left behind: one job with a history, or ids of
\* jobs that were pruned since.
Left(version, history, kept, seq) ==
    [NoFile EXCEPT
        !.file = TRUE,
        !.objects = IF version < 3 THEN Objects \ {"idx_jobs_key"} ELSE Objects,
        !.version = version,
        !.columns = {c \in 2..SCHEMA_VERSION : c <= version},
        !.seq = seq,
        !.kept = kept,
        !.history = history,
        !.crashes = IF version >= 5 THEN 0 ELSE NULL]

Current == Left(SCHEMA_VERSION, <<>>, FALSE, 0)

OldDatabases ==
    {Left(v, h, TRUE, 3) : v \in 2..5, h \in Histories}
    \cup {Left(1, h, TRUE, 3) : h \in {<<"failed", "reaped">>, <<"timed_out", "succeeded">>}}
    \cup {Left(1, <<>>, FALSE, 3)}

OddDatabases ==
    {NoFile, Current, [NoFile EXCEPT !.file = TRUE, !.sqlite = FALSE]}
    \cup {HalfCreated(SCHEMA_VERSION, n) : n \in 0..Len(Script)}
    \cup {HalfCreated(2, 1), HalfCreated(2, 2), HalfCreated(3, Len(Script)),
          HalfCreated(5, Len(Script))}
    \cup {[Current EXCEPT !.version = 0], [Current EXCEPT !.version = SCHEMA_VERSION + 1],
          [Left(1, <<"failed", "reaped">>, TRUE, 3) EXCEPT !.dangling = TRUE]}

Protected == {[d EXCEPT !.protected = TRUE] : d \in {Current, Left(5, <<>>, FALSE, 1)}}

AllDatabases == OldDatabases \cup OddDatabases \cup Protected

NoConfig == [kind |-> "absent", version |-> "absent", db_path |-> NULL, unknown |-> FALSE]

Usual ==
    [flag |-> NULL, variable |-> NULL, config |-> NoConfig, parent |-> "writable",
     directory |-> FALSE]

Worlds ==
    {[Usual EXCEPT !.flag = f, !.variable = e] : f, e \in {NULL, "good", "empty", "long"}}
    \cup {[Usual EXCEPT !.config = c, !.flag = f] : c \in ConfigFiles, f \in {NULL, "good", "nul"}}
    \cup {[Usual EXCEPT !.directory = TRUE]}

Directories == {[Usual EXCEPT !.parent = x] : x \in {"missing", "blocked", "readonly", "unusable"}}

-----------------------------------------------------------------------------
(* Cases                                                                   *)

Case(world_, db_, first, second) ==
    [world |-> world_, db |-> db_, line |-> [p1 |-> first, p2 |-> second]]

MCProcs == {"p1", "p2"}

MCCases ==
    {Case(Usual, Current, l, Plain("brief")) : l \in Lines}
    \cup {Case(w, Current, Plain(first), Plain(second)) : w \in Worlds,
            first \in {"config-validate", "status", "doctor"}, second \in {"config-show"}}
    \cup {Case(w, NoFile, Plain(first), Plain("doctor")) : w \in Directories,
            first \in {"add", "work", "status"}}
    \cup {Case(Usual, d, Plain("add"), Plain(second)) : d \in AllDatabases,
            second \in {"add", "doctor"}}
    \cup {Case(Usual, d, Plain("status"), Plain("work")) : d \in OddDatabases \cup Protected}
=============================================================================
