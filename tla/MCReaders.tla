------------------------------ MODULE MCReaders ------------------------------
(* Small instances of Readers for TLC: one job, two workers, and a prune,  *)
(* a killed worker or a report that meets them.                            *)
EXTENDS Readers

OneSpec ==
    {[argv |-> "a", key |-> NULL, queue |-> "default", priority |-> 0, max_retries |-> 1,
      max_crashes |-> NULL]}

\* A helper that ignores SIGTERM, under a command that obeys it or does not.
DeafGroups ==
    {[live |-> {"leader", "helper"}, deaf |-> d] : d \in {{"helper"}, {"leader", "helper"}}}

\* Two workers with a prune and a death; one worker with two prunes, or with
\* a prune and a report, which does not see how a group ends.
OneOfEach ==
    LET alone == {CHOOSE r \in Runners : TRUE}
        obedient == {g \in DeafGroups : "leader" \notin g.deaf}
    IN  {[prunes |-> 1, deaths |-> 1, reads |-> 0, crew |-> Runners, groups |-> DeafGroups],
         [prunes |-> 2, deaths |-> 0, reads |-> 0, crew |-> alone, groups |-> DeafGroups],
         [prunes |-> 1, deaths |-> 0, reads |-> 1, crew |-> alone, groups |-> obedient]}

\* Text of characters of one to four bytes, text that starts in the middle
\* of one, and runs of continuation bytes that no text has.
ShortBlobs ==
    UNION {[1..n -> {"one", "cont"}] : n \in {2, 4}}
    \cup {<<"lead">> \o tail : tail \in [1..3 -> {"lead", "cont"}]}
    \cup {<<first, "cont", "cont", "cont", "cont">> : first \in {"one", "cont"}}
=============================================================================
