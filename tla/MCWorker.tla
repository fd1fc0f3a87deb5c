------------------------------ MODULE MCWorker ------------------------------
(* Small instances of Worker for TLC.                                      *)
EXTENDS WorkerOwnership, TLC

CONSTANTS w1, w2, w3, p1, p2

Submission(argv, priority, max_retries, max_crashes) ==
    [argv |-> argv, key |-> NULL, queue |-> "default", priority |-> priority,
     max_retries |-> max_retries, max_crashes |-> max_crashes]

OneSpec == {Submission("a", 0, 1, 1)}

\* w3 comes back with the pid and the worker_id of w1.
RecycledPids == (w1 :> p1) @@ (w2 :> p2) @@ (w3 :> p1)
TwoPids == (w1 :> p1) @@ (w2 :> p2)
DefaultIds == [p \in Procs |-> PidOf[p]]
OneLane == [p \in Procs |-> "default"]
=============================================================================
