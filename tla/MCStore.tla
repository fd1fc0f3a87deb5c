------------------------------ MODULE MCStore -------------------------------
(* Small instances of Store and Reports for TLC.                           *)
EXTENDS Reports

Submission(argv, key, priority, max_retries, max_crashes) ==
    [argv |-> argv, key |-> key, queue |-> "default", priority |-> priority,
     max_retries |-> max_retries, max_crashes |-> max_crashes]

\* Two payloads that claim the same key, one of them with unlimited crashes.
KeyedSpecs ==
    {Submission("a", "k", 0, 1, NULL), Submission("b", "k", 1, 0, 0)}
=============================================================================
