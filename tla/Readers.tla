------------------------------- MODULE Readers -------------------------------
(***************************************************************************)
(* A report about a job while workers, clients and prune go on: wait,      *)
(* feedback, show, output and status of spoolctl/operations.py.  Each runs *)
(* several SELECTs outside a transaction and then opens files, so what it  *)
(* answers may be put together from different moments.                     *)
(***************************************************************************)
EXTENDS Output, Reports

CONSTANTS
    Blobs,          \* what a command may have written, as kinds of bytes
    MaxTail         \* bound: --tail-bytes

ASSUME BlobsAssumption ==
    /\ Blobs \subseteq Seq({"one", "lead", "cont"})
    /\ MaxTail \in Nat \ {0}

VARIABLE
    reader      \* the report that is being made, about one job

readerVars == <<storeVars, outputVars, reader>>

NoReport ==
    [op |-> NULL, pc |-> "idle", job |-> 0, row |-> NULL, seen |-> 0, rows |-> <<>>,
     events |-> <<>>, no |-> 0, missing |-> FALSE, answer |-> NULL]

Quiet == UNCHANGED <<storeVars, runner, fileVars, prune, historyVars>>

Starts ==
    /\ reader.pc = "idle"
    /\ left.reads > 0
    /\ \E op \in {"wait", "feedback", "show", "output", "status"}, j \in 1..MaxJobs :
         reader' = [NoReport EXCEPT !.op = op, !.pc = IF op = "status" THEN "counts" ELSE "job",
                                    !.job = j]
    /\ left' = [left EXCEPT !.reads = @ - 1]
    /\ Quiet

\* An error tells nothing of what was read before it.
Answer(answer) == reader' = [NoReport EXCEPT !.pc = "ended", !.answer = answer]

Here == reader.job \in JobIds

\* store.get_job
ReadJob ==
    /\ reader.pc = "job"
    /\ \/ ~Here /\ Answer("NOT_FOUND")
       \/ /\ Here
          /\ reader' = [reader EXCEPT
                          !.pc = IF reader.op = "wait" THEN "poll" ELSE "attempts",
                          !.row = IF reader.op \in {"wait", "output"} THEN NULL
                                  ELSE [state |-> jobs[reader.job].state,
                                        attempts |-> jobs[reader.job].attempts],
                          !.seen = IF reader.op \in {"wait", "output"} THEN 0
                                   ELSE Len(log[reader.job])]
    /\ Quiet /\ UNCHANGED left

\* store.get_attempts; a job that has just been pruned has none, and output
\* may be asked for an attempt the job never made.
ReadAttempts ==
    /\ reader.pc = "attempts"
    /\ LET rows == IF Here THEN attempts[reader.job] ELSE <<>>
       IN  \/ /\ rows = <<>> /\ reader.op # "show"
              /\ Answer("NO_ATTEMPTS_YET")
           \/ /\ rows # <<>> /\ reader.op = "output"
              /\ Answer("NOT_FOUND")
           \/ /\ rows # <<>> \/ reader.op = "show"
              /\ reader' = [reader EXCEPT
                              !.pc = IF reader.op = "show" THEN "events" ELSE "streams",
                              !.rows = rows]
    /\ Quiet /\ UNCHANGED left

\* store.get_events
ReadEvents ==
    /\ reader.pc = "events"
    /\ reader' = [reader EXCEPT !.pc = "ended", !.answer = "ok",
                                !.events = IF Here THEN log[reader.job] ELSE <<>>]
    /\ Quiet /\ UNCHANGED left

\* open() of a stream raises: missing to feedback, empty to output.
Missing(no) == <<reader.job, no>> \notin files

\* The files of the latest attempt, or of the one output was asked for.
ReadStreams ==
    /\ reader.pc = "streams"
    /\ \E no \in DOMAIN reader.rows :
         /\ reader.op = "output" \/ no = Len(reader.rows)
         /\ reader' = [reader EXCEPT !.pc = "ended", !.answer = "ok", !.no = no,
                                     !.missing = Missing(no)]
    /\ Quiet /\ UNCHANGED left

\* wait looks again, until the job is settled; a job pruned in between is
\* None, and None has no state.
Poll ==
    /\ reader.pc = "poll"
    /\ \/ /\ Here /\ jobs[reader.job].state \in WaitTerminal
          /\ reader' = [reader EXCEPT
                          !.pc = "ended", !.answer = "ok",
                          !.row = [state |-> jobs[reader.job].state,
                                   attempts |-> jobs[reader.job].attempts]]
       \/ ~Here /\ Answer("INTERNAL")
    /\ Quiet /\ UNCHANGED left

\* The deadline of wait --timeout, looked at after an unsettled poll.
WaitTimesOut ==
    /\ reader.pc = "poll"
    /\ Here /\ jobs[reader.job].state \notin WaitTerminal
    /\ Answer("TIMEOUT")
    /\ Quiet /\ UNCHANGED left

\* status: the counts, then the dead jobs.
ReadCounts ==
    /\ reader.pc = "counts"
    /\ reader' = [reader EXCEPT !.pc = "dead", !.row = status_counts(clock).counts,
                                !.seen = IF Here THEN Len(log[reader.job]) ELSE 0]
    /\ Quiet /\ UNCHANGED left

ReadDead ==
    /\ reader.pc = "dead"
    /\ reader' = [reader EXCEPT !.pc = "ended", !.answer = "ok",
                                !.events = recent_dead(LIST_LIMIT_MAX)]
    /\ Quiet /\ UNCHANGED left

-----------------------------------------------------------------------------
(* Specification                                                           *)

ReaderStep ==
    \/ ReadJob \/ ReadAttempts \/ ReadEvents \/ ReadStreams \/ Poll
    \/ ReadCounts \/ ReadDead

ReadersInit == OutputInit /\ reader = NoReport

ReadersNext ==
    \/ OutputNext /\ UNCHANGED reader
    \/ Starts \/ ReaderStep \/ WaitTimesOut

\* A worker goes on with its claim cycle, a report with its next SELECT.
ReadersFairness ==
    /\ \A r \in Runners : WF_readerVars(RunnerStep(r) /\ UNCHANGED reader)
    /\ WF_readerVars(ReaderStep)

ReadersSpec == ReadersInit /\ [][ReadersNext]_readerVars /\ ReadersFairness

-----------------------------------------------------------------------------
(* Properties                                                              *)

\* The report is at a known place and has a known answer.
ReadersTypeOK ==
    /\ reader.pc \in {"idle", "job", "attempts", "events", "streams", "poll", "counts", "dead",
                      "ended"}
    /\ reader.answer \in {NULL, "ok", "NOT_FOUND", "NO_ATTEMPTS_YET", "INTERNAL", "TIMEOUT"}

Told(op) == reader.pc = "ended" /\ reader.op = op /\ reader.answer = "ok"

\* Events of the job since the report read its row.
Since(event) ==
    \E i \in DOMAIN log[reader.job] : i > reader.seen /\ log[reader.job][i] = event

\* "done" is the one word of wait and feedback that stays true: whoever was
\* told that the job succeeded will never find it in another state.
SuccessStaysTrue ==
    /\ Told("wait") \/ Told("feedback")
    /\ reader.row.state = "done"
    /\ Here
    => jobs[reader.job].state = "done"

Verdict == feedback(reader.row, reader.rows)

LatestRow == reader.rows[Len(reader.rows)]

\* The verdict of feedback and the attempt whose output it shows belong
\* together: a failure is explained, a success is shown with the attempt
\* that succeeded, and a settled job with an attempt that has ended, unless
\* the job was retried between the two SELECTs.
FeedbackFits ==
    Told("feedback") /\ Here =>
        /\ reader.row.state = "done" => LatestRow.state = "succeeded"
        /\ reader.row.state \in {"dead", "canceled"} =>
             LatestRow.state # "running" \/ Since("retried")
        /\ reader.row.state = "dead" =>
             Verdict.reason # NULL
             /\ (Verdict.reason = LatestRow.failure_reason \/ Since("retried"))
        /\ reader.row.state = "queued" /\ reader.row.attempts > 0 => Verdict.reason # NULL
        /\ reader.row.state = "running" => ~Verdict.terminal /\ Verdict.succeeded = NULL

\* show never tells a state without the event that brought it, an attempt
\* without its claim, or a dead job without a reason, although it reads the three tables one after
\* the other; only a prune in between leaves it with the bare row.
ShowCovers ==
    Told("show") /\ reader.events # <<>> =>
        /\ reader.seen \in DOMAIN reader.events
        /\ reader.row.state = StateAfter(reader.events[reader.seen])
        /\ Len(reader.rows) <=
             Cardinality({i \in DOMAIN reader.events : reader.events[i] = "claimed"})
        /\ reader.row.state = "dead" =>
             current_job_failure_reason(reader.row, reader.rows) # NULL

\* A missing stream of an attempt that ran to its end was captured and
\* removed by a prune; other attempts may never have written one.
MissingMeansPruned ==
    /\ Told("feedback") \/ Told("output")
    /\ reader.missing
    /\ reader.rows[reader.no].state \in {"succeeded", "failed", "timed_out"}
    => <<reader.job, reader.no>> \in taken

\* status counts a job that it lists as dead, unless the job changed between
\* its two SELECTs.
StatusFits ==
    Told("status") /\ Here /\ reader.job \in reader.events =>
        reader.row["dead"] > 0 \/ Since("dead")

\* What a report has said fits together and fits the queue, whatever was
\* committed between its SELECTs: wait, feedback, show, output and status.
AnswersFit ==
    /\ ReadersTypeOK
    /\ SuccessStaysTrue /\ FeedbackFits /\ ShowCovers /\ MissingMeansPruned /\ StatusFits

\* Whatever the stream holds, the tail is the end of it, at most n bytes
\* and at most three short of them; only continuation bytes are left out,
\* and a tail that follows a whole character does not begin inside one.
TailKeepsOutput ==
    reader.pc = "streams" =>
        \A blob \in Blobs, n \in 1..MaxTail :
            LET tail == decode_tail(blob, n)
                cut == Len(blob) - Len(tail)
                dropped == IF Len(blob) > n THEN n - Len(tail) ELSE 0
            IN  /\ tail = SubSeq(blob, cut + 1, Len(blob))
                /\ Len(tail) <= n /\ dropped \in 0..3
                /\ Len(blob) <= n => tail = blob
                /\ \A i \in (cut - dropped + 1)..cut : blob[i] = "cont"
                /\ dropped < 3 /\ tail # <<>> /\ Len(blob) > n => tail[1] # "cont"

\* wait returns once the job has succeeded, whatever the others do.
WaitEnds ==
    (reader.pc = "poll" /\ Here /\ jobs[reader.job].state = "done") ~> reader.pc = "ended"
=============================================================================
