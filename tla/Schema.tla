------------------------------- MODULE Schema -------------------------------
(***************************************************************************)
(* Opening the queue database: connect and _ensure_schema of               *)
(* spoolctl/store.py.  Several processes may open the same file at once,   *)
(* find it absent, half created, or written by an older or a newer         *)
(* spoolctl, and die or give up anywhere.  Every action is one statement   *)
(* or one transaction; the statements of executescript commit one by one.  *)
(*                                                                         *)
(* The file is one record.  columns holds the numbers of the migration     *)
(* steps whose columns and constraints its tables show; the queue in it is *)
(* one job, id 1, with the attempts its history tells.                     *)
(***************************************************************************)
EXTENDS Models, Sequences, FiniteSets

CONSTANTS
    Procs,          \* processes that open the database
    Databases,      \* what they may find
    MayMisread,     \* whose first SELECT may fail although meta is there
    MayDie          \* processes that may be killed

SCHEMA_VERSION == 6

\* How an attempt of the old queue ended; "retried" is a manual retry of the
\* job, a forced one ends the attempt it takes away.
Ends == {"succeeded", "failed", "timed_out", "reaped", "canceled", "forced", "retried"}

Objects ==
    {"jobs", "idx_jobs_claimable", "idx_jobs_key", "attempts", "job_events", "meta"}

Reasons == {"unknown", "timeout", "worker_crash", "canceled", NULL}

Database ==
    [file : BOOLEAN,
     sqlite : BOOLEAN,              \* what is there, if anything, is a database
     protected : BOOLEAN,           \* the file may only be read
     dangling : BOOLEAN,            \* rows refer to jobs that are not there
     objects : SUBSET Objects,
     version : Nat \cup {NULL},
     columns : SUBSET (2..SCHEMA_VERSION),
     seq : Nat,                     \* sqlite_sequence of jobs
     kept : BOOLEAN,                \* job 1 is still in jobs
     history : Seq(Ends),
     crashes : Nat \cup {NULL},     \* of job 1, once the column exists
     reasons : Seq(Reasons)]        \* of its attempts, once the column exists,
                                    \* NULL where history has a manual retry

ASSUME DatabasesAssumption ==
    /\ Databases \subseteq Database
    /\ MayMisread \subseteq Procs
    /\ MayDie \subseteq Procs

VARIABLES
    found,      \* the file as the first process found it
    db,         \* the file now
    opener,     \* where a process is in connect
    at,         \* statement of the script, or the version it migrates from
    misread     \* a process took a database with a version for a fresh one

schemaVars == <<found, db, opener, at, misread>>

OpenEnds == {"open", "locked", "too_new", "failed", "refused", "dead"}

MoveTo(p, pc, n) ==
    /\ opener' = [opener EXCEPT ![p] = pc]
    /\ at' = [at EXCEPT ![p] = n]

-----------------------------------------------------------------------------
(* A file without a version: executescript(SCHEMA_SQL), then the stamp     *)

\* Opening for writing creates the file and turns on WAL, unless there is
\* another file in its place ("file is not a database").
connect(p) ==
    /\ opener[p] = "connect"
    /\ \/ /\ db.sqlite
          /\ db' = [db EXCEPT !.file = TRUE]
          /\ MoveTo(p, "select", 0)
       \/ /\ ~db.sqlite
          /\ MoveTo(p, "failed", 0)
          /\ UNCHANGED db
    /\ UNCHANGED <<found, misread>>

\* No meta table, or no row in it: a fresh database.
SelectVersion(p) ==
    /\ opener[p] = "select"
    /\ IF db.version = NULL THEN MoveTo(p, "script", 1) ELSE MoveTo(p, "loop", 0)
    /\ UNCHANGED <<found, db, misread>>

\* Every OperationalError of that SELECT means "meta table absent".
SelectFails(p) ==
    /\ opener[p] = "select"
    /\ p \in MayMisread
    /\ db.version # NULL
    /\ MoveTo(p, "script", 1)
    /\ misread' = TRUE
    /\ UNCHANGED <<found, db>>

\* The third index, idx_jobs_finished, is on columns every jobs table has.
Script ==
    <<"jobs", "idx_jobs_claimable", "idx_jobs_key", "attempts", "job_events", "meta">>

\* The columns a table of the current schema is created with.
ColumnsOf(object) ==
    CASE object = "jobs" -> 2..5
      [] object = "attempts" -> {6}
      [] OTHER -> {}

\* What the script has built when it stops.
ScriptColumns(objects) == UNION {ColumnsOf(object) : object \in objects}

\* Tables show exactly the steps up to a version.
Complete(d, version) ==
    /\ Objects \ {"idx_jobs_key"} \subseteq d.objects
    /\ "idx_jobs_key" \in d.objects <=> version >= 3
    /\ d.columns = 2..version

\* A file with a version this code knows was completed by the spoolctl of
\* that version; one without is what an interrupted script left, of today
\* or of an older spoolctl; a file that is no database has neither.
ASSUME FoundAssumption ==
    \A d \in Databases :
        /\ d.version = NULL =>
             \E v \in 1..SCHEMA_VERSION : d.columns = ScriptColumns(d.objects) \cap (2..v)
        /\ d.version \in 1..SCHEMA_VERSION => Complete(d, d.version)
        /\ d.version \in 1..4 => d.crashes = NULL
        /\ ~d.sqlite => d.version = NULL /\ d.objects = {}

\* Older jobs tables do not have the columns of these indexes.
Creatable(object) ==
    /\ object = "idx_jobs_claimable" => 4 \in db.columns
    /\ object = "idx_jobs_key" => 3 \in db.columns

AfterScript(p) ==
    IF at[p] < Len(Script) THEN MoveTo(p, "script", at[p] + 1) ELSE MoveTo(p, "stamp", 0)

\* CREATE ... IF NOT EXISTS, one statement of the script.
RunScript(p) ==
    /\ opener[p] = "script"
    /\ Script[at[p]] \notin db.objects => ~db.protected
    /\ LET object == Script[at[p]]
       IN  \/ /\ object \in db.objects
              /\ AfterScript(p)
              /\ UNCHANGED db
           \/ /\ object \notin db.objects
              /\ Creatable(object)
              /\ db' = [db EXCEPT !.objects = @ \cup {object},
                                  !.columns = @ \cup ColumnsOf(object)]
              /\ AfterScript(p)
           \/ /\ object \notin db.objects
              /\ ~Creatable(object)
              /\ MoveTo(p, "failed", 0)
              /\ UNCHANGED db
    /\ UNCHANGED <<found, misread>>

\* INSERT OR REPLACE INTO meta
Stamp(p) ==
    /\ opener[p] = "stamp"
    /\ ~db.protected
    /\ db' = [db EXCEPT !.version = SCHEMA_VERSION]
    /\ MoveTo(p, "open", 0)
    /\ UNCHANGED <<found, misread>>

-----------------------------------------------------------------------------
(* A file with a version: one migration after the other                    *)

CheckVersion(p) ==
    /\ opener[p] = "loop"
    /\ \/ db.version > SCHEMA_VERSION /\ MoveTo(p, "too_new", 0)
       \/ db.version = SCHEMA_VERSION /\ MoveTo(p, "open", 0)
       \/ db.version \in 1..(SCHEMA_VERSION - 1) /\ MoveTo(p, "migrate", db.version)
       \/ db.version = 0 /\ MoveTo(p, "failed", 0)
    /\ UNCHANGED <<found, db, misread>>

\* Copying the rows leaves the largest copied id, or no entry, in
\* sqlite_sequence; _rebuild_table puts the old mark back.
RebuiltSeq(d) ==
    LET copied == IF d.kept THEN 1 ELSE 0
    IN  IF d.seq > copied THEN d.seq ELSE copied

\* The state and the error text of the attempts of a history, each under the
\* place where it ended: a manual retry has no row.
AttemptRow(end) ==
    CASE end = "reaped" -> [state |-> "abandoned", error |-> "worker died"]
      [] end = "forced" -> [state |-> "abandoned", error |-> "force-retried"]
      [] OTHER -> [state |-> end, error |-> NULL]

AttemptRows(d) ==
    LET ended == {i \in DOMAIN d.history : d.kept /\ d.history[i] # "retried"}
    IN  [i \in ended |-> AttemptRow(d.history[i])]

Rows(d, state, error) ==
    {i \in DOMAIN AttemptRows(d) : AttemptRows(d)[i] = [state |-> state, error |-> error]}

\* Mutant: every abandoned attempt counts as a crash.
BackfilledCrashes_AnyAbandoned(d) ==
    Cardinality(Rows(d, "abandoned", "worker died") \cup Rows(d, "abandoned", "force-retried"))

\* v4 -> v5: SELECT COUNT(*) ... state='abandoned' AND error='worker died'
BackfilledCrashes(d) == Cardinality(Rows(d, "abandoned", "worker died"))

\* v5 -> v6: the CASE over state and error.
BackfilledReason(row) ==
    CASE row.state = "timed_out" -> "timeout"
      [] row.state = "abandoned" /\ row.error = "worker died" -> "worker_crash"
      [] row.state = "abandoned" /\ row.error = "force-retried" -> "canceled"
      [] row.state = "canceled" -> "canceled"
      [] row.state = "failed" -> "unknown"
      [] OTHER -> NULL

BackfilledReasons(d) ==
    [i \in DOMAIN d.history |->
        IF i \in DOMAIN AttemptRows(d) THEN BackfilledReason(AttemptRows(d)[i]) ELSE NULL]

\* What the transaction of a step commits: the rebuild, new columns with
\* their defaults and backfills, the index of step 3, and the version.
Migrated(d, step) ==
    [d EXCEPT
        !.version = step,
        !.columns = @ \cup {step},
        !.objects = IF step = 3 THEN @ \cup {"idx_jobs_key"} ELSE @,
        !.seq = IF step = 2 THEN RebuiltSeq(d) ELSE @,
        !.crashes = IF step = 5 THEN BackfilledCrashes(d) ELSE @,
        !.reasons = IF step = 6 THEN BackfilledReasons(d) ELSE @]

\* Mutant: the version is not read again inside the transaction.
AlreadyDone_Never(step) == FALSE

\* Somebody else migrated between CheckVersion and BEGIN IMMEDIATE.
AlreadyDone(step) == db.version >= step

\* Mutant: a process that finds its step done does not look again which one
\* is next.
migrate_SameStep(p) ==
    /\ opener[p] = "migrate"
    /\ ~db.protected
    /\ IF AlreadyDone(at[p] + 1)
         THEN UNCHANGED <<db, opener, at>>
         ELSE db' = Migrated(db, at[p] + 1) /\ MoveTo(p, "loop", 0)
    /\ UNCHANGED <<found, misread>>

\* foreign_key_check after the COMMIT of the first step.
ReferencesFail(step) == step = 2 /\ db.dangling

\* _migrate_vN_to_vM: BEGIN IMMEDIATE ... COMMIT, or ROLLBACK when a column
\* is there already (a rebuild as version 2 has no room for later columns).
\* A check of the references that fails raises, but the step is committed.
migrate(p) ==
    /\ opener[p] = "migrate"
    /\ ~db.protected
    /\ LET step == at[p] + 1
           clash == IF step = 2 THEN db.columns # {} ELSE step \in db.columns
       IN  \/ /\ AlreadyDone(step)
              /\ MoveTo(p, "loop", 0)
              /\ UNCHANGED db
           \/ /\ ~AlreadyDone(step)
              /\ ~clash
              /\ db' = Migrated(db, step)
              /\ MoveTo(p, IF ReferencesFail(step) THEN "failed" ELSE "loop", 0)
           \/ /\ ~AlreadyDone(step)
              /\ clash
              /\ MoveTo(p, "failed", 0)
              /\ UNCHANGED db
    /\ UNCHANGED <<found, misread>>

\* The write lock was not free within BUSY_TIMEOUT_MS.
Busy(p) ==
    /\ opener[p] \in {"connect", "script", "stamp", "migrate"}
    /\ MoveTo(p, "locked", 0)
    /\ UNCHANGED <<found, db, misread>>

\* "attempt to write a readonly database"
Readonly(p) ==
    /\ db.protected
    /\ \/ opener[p] = "script" /\ Script[at[p]] \notin db.objects
       \/ opener[p] \in {"stamp", "migrate"}
    /\ MoveTo(p, "refused", 0)
    /\ UNCHANGED <<found, db, misread>>

\* SIGKILL, power loss; an open transaction is rolled back.
Die(p) ==
    /\ p \in MayDie
    /\ opener[p] \notin OpenEnds \cup {"idle"}
    /\ MoveTo(p, "dead", 0)
    /\ UNCHANGED <<found, db, misread>>

-----------------------------------------------------------------------------
(* Specification                                                           *)

SchemaInit ==
    /\ db \in Databases
    /\ found = db
    /\ opener = [p \in Procs |-> "idle"]
    /\ at = [p \in Procs |-> 0]
    /\ misread = FALSE

\* A step of connect by its process; the process began it from outside.
OpenStep(p) ==
    \/ connect(p)
    \/ SelectVersion(p)
    \/ RunScript(p)
    \/ Stamp(p)
    \/ CheckVersion(p)
    \/ migrate(p)
    \/ Readonly(p)

OpenFault(p) == SelectFails(p) \/ Busy(p) \/ Die(p)

-----------------------------------------------------------------------------
(* Properties                                                              *)

\* The file and the processes stay within their types.
SchemaTypeOK ==
    /\ db \in Database
    /\ found \in Databases
    /\ opener \in [Procs -> OpenEnds \cup
                     {"idle", "connect", "select", "script", "stamp", "loop", "migrate"}]
    /\ at \in [Procs -> 0..SCHEMA_VERSION]
    /\ misread \in BOOLEAN

\* The tables are those of a version.
BuiltAs(version) == Complete(db, version)

\* Left by the script of an older spoolctl that did not reach its stamp.
Leftover(d) == d.version = NULL /\ d.columns # ScriptColumns(d.objects)

\* What connect cannot see: it takes every file whose version it cannot read
\* for one that today's script began, the tables of an older script too, and
\* a current one whose SELECT failed for another reason than a missing table.
Mistaken == misread \/ Leftover(found)

\* The version in meta never promises more, or less, than the tables hold:
\* not between two steps, not after a process died in the middle, not when
\* several processes create or migrate the file at once; and whoever has
\* finished connect has the current schema.  Only a mistaken file breaks
\* this.
StampedAsBuilt ==
    \/ Mistaken
    \/ /\ db.version \in 1..SCHEMA_VERSION => BuiltAs(db.version)
       /\ (\E p \in Procs : opener[p] = "open") => db.version = SCHEMA_VERSION

\* No connect can make a queue of it: no database, a version nobody knows,
\* rows without their job.
Broken(d) == ~d.sqlite \/ d.version = 0 \/ d.dangling

\* A process that lost the race to create or to migrate goes on as if it had
\* won: connect fails only on a broken or a mistaken file, and refuses only
\* a newer or a protected one.
LosersCarryOn ==
    \A p \in Procs :
        /\ opener[p] = "failed" => Mistaken \/ Broken(found)
        /\ opener[p] = "too_new" => found.version > SCHEMA_VERSION
        /\ opener[p] = "refused" => db.protected

\* What every process that opens the file relies on, while others create,
\* migrate or die: the version tells the truth and a lost race is no error.
SchemaInv == SchemaTypeOK /\ StampedAsBuilt /\ LosersCarryOn

SinceRetry(h) ==
    {i \in DOMAIN h : \A k \in DOMAIN h : h[k] \in {"retried", "forced"} => k < i}

CrashesSince(h) == Cardinality({i \in SinceRetry(h) : h[i] = "reaped"})

CrashThenRetry(h) ==
    \E i, k \in DOMAIN h : i < k /\ h[i] = "reaped" /\ h[k] \in {"retried", "forced"}

\* What today's transactions record for an end; a failure could be either of
\* two reasons, which old rows do not tell apart.
ReasonOf(end) ==
    CASE end = "timed_out" -> "timeout"
      [] end = "reaped" -> "worker_crash"
      [] end \in {"canceled", "forced"} -> "canceled"
      [] end = "failed" -> "unknown"
      [] OTHER -> NULL

\* A migrated queue goes on where the old one stopped: ids of deleted jobs
\* are not given out again, each attempt has the reason today's code would
\* have recorded, and the crash counter is the number of crashes since the
\* last manual retry, unless the job crashed before that retry.
MigrationKeepsTheQueue ==
    /\ db.seq >= found.seq
    /\ db.kept = found.kept /\ db.history = found.history
    /\ db.kept /\ found.version \in 1..4 /\ db.crashes # NULL =>
         CrashThenRetry(db.history) \/ db.crashes = CrashesSince(db.history)
    /\ db.kept /\ found.version \in 1..5 /\ db.version = 6 /\ ~misread =>
         db.reasons = [i \in DOMAIN db.history |-> ReasonOf(db.history[i])]
=============================================================================
