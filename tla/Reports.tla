------------------------------- MODULE Reports -------------------------------
(***************************************************************************)
(* What the read-only commands compute from the rows they have read: the   *)
(* verdict of feedback, the failure reason of show, the page of list and   *)
(* the counts of status (spoolctl/operations.py over the SELECTs of        *)
(* spoolctl/store.py), and the tail of an output stream.                   *)
(***************************************************************************)
EXTENDS Store

CONSTANTS
    TAG_FILTER_SCAN_LIMIT,      \* rows a list with tags looks at
    LIST_LIMIT_MAX              \* longest page

ASSUME ReportsAssumption ==
    {TAG_FILTER_SCAN_LIMIT, LIST_LIMIT_MAX} \subseteq Nat \ {0}

-----------------------------------------------------------------------------
(* One job                                                                 *)

\* Mutant: wait and feedback do not know that a finished job is settled.
WaitTerminal_NoDone == {"dead", "canceled"}

\* models._WAIT_TERMINAL, which wait and feedback share.
WaitTerminal == {"done", "dead", "canceled"}

\* Mutant: the oldest failure is reported.
latest_failure_reason_Oldest(rows) ==
    LET failed == {n \in DOMAIN rows : /\ rows[n].state # "succeeded"
                                       /\ rows[n].failure_reason # NULL}
    IN  IF failed = {} THEN NULL ELSE rows[Min(failed)].failure_reason

latest_failure_reason(rows) ==
    LET failed == {n \in DOMAIN rows : /\ rows[n].state # "succeeded"
                                       /\ rows[n].failure_reason # NULL}
    IN  IF failed = {} THEN NULL ELSE rows[Max(failed)].failure_reason

\* last_failure_reason of show
current_job_failure_reason(row, rows) ==
    IF row.state \in {"done", "queued", "running"} THEN NULL ELSE latest_failure_reason(rows)

\* The verdict of feedback; succeeded is NULL while the job is not settled.
feedback(row, rows) ==
    [terminal |-> row.state \in WaitTerminal,
     succeeded |-> CASE row.state = "done" -> TRUE
                     [] row.state \in {"dead", "canceled"} -> FALSE
                     [] OTHER -> NULL,
     reason |-> CASE row.state \in {"done", "running"} -> NULL
                  [] row.state = "canceled" -> IF rows = <<>> THEN NULL ELSE "canceled"
                  [] row.state = "dead" \/ (row.state = "queued" /\ row.attempts > 0) ->
                       latest_failure_reason(rows)
                  [] OTHER -> NULL,
     latest |-> Len(rows)]

\* Mutant: every continuation at the cut is dropped, orphaned or not.
decode_tail_AllConts(blob, n) ==
    LET cut == IF Len(blob) > n THEN Len(blob) - n ELSE 0
        starts == {i \in (cut + 1)..Len(blob) : blob[i] # "cont"}
    IN  SubSeq(blob, IF cut = 0 THEN 1 ELSE Min(starts \cup {Len(blob) + 1}), Len(blob))

\* A stream as the kind of its bytes: "one" is a whole character, "lead"
\* starts a longer one and "cont" continues it.  The last n bytes without
\* the continuations the cut has orphaned, at most three of them.
decode_tail(blob, n) ==
    LET cut == IF Len(blob) > n THEN Len(blob) - n ELSE 0
        orphans == {d \in 0..3 : /\ cut + d <= Len(blob)
                                 /\ \A i \in (cut + 1)..(cut + d) : blob[i] = "cont"}
    IN  SubSeq(blob, cut + (IF cut = 0 THEN 0 ELSE Max(orphans)) + 1, Len(blob))

-----------------------------------------------------------------------------
(* The queue                                                               *)

\* ORDER BY id DESC LIMIT n
Newest(ids, n) == {j \in ids : Cardinality({i \in ids : i > j}) < n}

\* What list filters on in SQL.
ListedJobs(states, lane, priority_min) ==
    {j \in JobIds : /\ states # NULL => jobs[j].state \in states
                    /\ lane # NULL => jobs[j].spec.queue = lane
                    /\ priority_min # NULL => jobs[j].spec.priority >= priority_min}

\* Mutant: the page is fetched without the extra row that shows truncation.
FetchLimit_Exact(tagged, limit) == IF tagged # NULL THEN TAG_FILTER_SCAN_LIMIT ELSE limit

FetchLimit(tagged, limit) ==
    IF tagged # NULL THEN TAG_FILTER_SCAN_LIMIT + 1 ELSE limit + 1

\* --limit 0 is the longest page; tagged is the set of specs whose tags
\* match, NULL without --tag.
list_operation(matching, tagged, asked) ==
    LET limit == IF asked = 0 THEN LIST_LIMIT_MAX ELSE asked
        fetched == Newest(matching, FetchLimit(tagged, limit))
        capped == tagged # NULL /\ Cardinality(fetched) > TAG_FILTER_SCAN_LIMIT
        filtered == IF tagged = NULL THEN fetched
                    ELSE {j \in Newest(fetched, TAG_FILTER_SCAN_LIMIT) : jobs[j].spec \in tagged}
        page == Newest(filtered, limit)
    IN  [page |-> page,
         truncated |-> capped \/ Cardinality(filtered) > limit,
         warned |-> capped,
         cursor |-> Min(page \cup (IF page = {} THEN {0} ELSE {})),
         first_id |-> IF JobIds = {} THEN NULL ELSE Min(JobIds)]

\* Jobs per state and lane, and the queued ones that are not due yet.
status_counts(t) ==
    [counts |-> [s \in JobStates |-> Cardinality({j \in JobIds : jobs[j].state = s})],
     queues |-> [lane \in {jobs[j].spec.queue : j \in JobIds} |->
                   [s \in JobStates |->
                      Cardinality({j \in JobIds : jobs[j].spec.queue = lane
                                                  /\ jobs[j].state = s})]],
     scheduled |-> Cardinality({j \in JobIds : jobs[j].state = "queued"
                                               /\ jobs[j].next_run_at > t})]

\* Dead jobs, the most recently finished ones first.
recent_dead(limit) ==
    LET dead == {j \in JobIds : jobs[j].state = "dead"}
        later(i, j) == \/ jobs[i].finished_at > jobs[j].finished_at
                       \/ jobs[i].finished_at = jobs[j].finished_at /\ i > j
    IN  {j \in dead : Cardinality({i \in dead : later(i, j)}) < limit}

-----------------------------------------------------------------------------
(* Properties                                                              *)

\* A page of list says the truth about what it leaves out: when it is not
\* marked truncated it holds every job that was asked for, when it is it is
\* full or says that the scan was cut short, and nothing newer than its
\* oldest job is missing from it.
ListHonest ==
    \A filter \in {<<NULL, NULL>>, <<PrunableStates, NULL>>} \cup {<<NULL, {s}>> : s \in Specs},
       asked \in 0..LIST_LIMIT_MAX :
        LET tagged == filter[2]
            matching == ListedJobs(filter[1], NULL, NULL)
            wanted == IF tagged = NULL THEN matching
                      ELSE {j \in matching : jobs[j].spec \in tagged}
            answer == list_operation(matching, tagged, asked)
            full == IF asked = 0 THEN LIST_LIMIT_MAX ELSE asked
        IN  /\ answer.page \subseteq wanted
            /\ ~answer.truncated => answer.page = wanted
            /\ answer.truncated => Cardinality(answer.page) = full \/ answer.warned
            /\ \A j \in wanted \ answer.page : j < answer.cursor \/ answer.warned
=============================================================================
