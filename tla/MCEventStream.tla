--------------------------- MODULE MCEventStream ----------------------------
(* Small instances of EventStream for TLC.                                 *)
EXTENDS EventStream

CONSTANTS f1, p1, j1

\* The paging client reads the whole ledger, the follower watches one job.
SmallFilter == [r \in {f1, p1} |-> IF r = p1 THEN AllJobs ELSE j1]
SmallLimit == [p \in {p1} |-> 1]
SmallMaxEvents == [f \in {f1} |-> 2]
=============================================================================
