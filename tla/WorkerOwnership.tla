-------------------------- MODULE WorkerOwnership ---------------------------
(***************************************************************************)
(* The workers and the store implement JobOwnership.  The owner of a job   *)
(* is the incarnation that opened its last attempt, whatever the lock      *)
(* columns say; the tally is read off the attempts table.                  *)
(***************************************************************************)
EXTENDS Worker

PhaseOf(j) ==
    IF j > lastId THEN "new"
    ELSE IF j \notin JobIds THEN "gone"
    ELSE CASE jobs[j].state = "queued" -> "waiting"
           [] jobs[j].state = "running" -> "owned"
           [] jobs[j].state = "done" -> "done"
           [] OTHER -> "over"

OwnerOf(j) ==
    IF PhaseOf(j) = "owned"
    THEN CHOOSE p \in Procs : Holds(p, j, LastNo(j))
    ELSE NULL

\* What an attempt row says about the end of its claim.
CauseOf(row) ==
    IF row.state \in {"succeeded", "failed", "timed_out"} THEN "reported"
    ELSE CASE row.failure_reason = "worker_crash" -> "lost"
           [] row.failure_reason = "canceled" -> "revoked"
           [] OTHER -> "open"

EndedBy(j, cause) ==
    {no \in DOMAIN attempts[j] : CauseOf(attempts[j][no]) = cause}

TallyOf(j) ==
    [cause \in {"reported", "lost", "revoked"} |->
        IF j \in JobIds THEN Cardinality(EndedBy(j, cause)) ELSE 0]

Ownership ==
    INSTANCE JobOwnership WITH
        Jobs <- 1..MaxJobs,
        None <- NULL,
        phase <- [j \in 1..MaxJobs |-> PhaseOf(j)],
        owner <- [j \in 1..MaxJobs |-> OwnerOf(j)],
        tally <- [j \in 1..MaxJobs |-> TallyOf(j)],
        live <- {p \in Procs : Alive(p)},
        born <- {p \in Procs : pc[p] # "unborn"}

\* Every behaviour of workers, reapers and clients is one of JobOwnership:
\* ownership is exclusive, ends once and for one recorded cause, and is
\* taken from a live owner by an operator only.
ImplementsOwnership == Ownership!Spec
=============================================================================
