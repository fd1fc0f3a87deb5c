---------------------------- MODULE EventStream -----------------------------
(***************************************************************************)
(* The event ledger (job_events) and its readers: one-shot and long-poll   *)
(* queries that hand out a cursor, and events --follow.  Writers commit    *)
(* the events of a transaction together, prune deletes the events of a     *)
(* job.  Every SELECT is a statement of its own: between two of them of    *)
(* the same reader anything may be committed.                              *)
(***************************************************************************)
EXTENDS Naturals, FiniteSets, FiniteSetsExt

CONSTANTS
    Jobs,           \* jobs that write events
    Followers,      \* events --follow processes
    Pollers,        \* clients that page through events, one call after another
    Filter,         \* --job of a reader, or AllJobs
    AllJobs,        \* no --job
    Limit,          \* --limit of a poller, 0: unlimited
    LongPoll,       \* pollers that pass --wait
    MaxEvents,      \* --max-events of a follower, 0: unlimited
    IdleTimeout,    \* followers that pass --idle-timeout
    MaxId           \* bound: events ever written

Readers == Followers \cup Pollers

\* What the command line lets through: --follow excludes --wait and --limit,
\* and only --follow takes --max-events and --idle-timeout.
ValidArgs ==
    /\ Followers \cap Pollers = {}
    /\ Filter \in [Readers -> Jobs \cup {AllJobs}]
    /\ Limit \in [Pollers -> Nat]
    /\ MaxEvents \in [Followers -> Nat]
    /\ LongPoll \subseteq Pollers
    /\ IdleTimeout \subseteq Followers

ASSUME ReadersAssumption == ValidArgs /\ MaxId \in Nat

VARIABLES
    lastId,         \* sqlite_sequence of job_events: ids are never reused
    ledger,         \* the retained events: id |-> job
    pruned,         \* jobs whose rows are gone; they write no more
    pc,             \* where a reader is
    start,          \* the --since-id a reader began with
    cursor,         \* the id a reader resumes from
    rows,           \* ids its last SELECT returned and it has not handed out
    emitted,        \* events a follower printed since it started
    delivered,      \* ids a reader has handed to its consumer since start
    raced           \* ids committed between the two SELECTs of a page

readerVars == <<pc, start, cursor, rows, emitted, delivered>>
streamVars == <<lastId, ledger, pruned, pc, start, cursor, rows, emitted, delivered, raced>>

Ids == DOMAIN ledger

-----------------------------------------------------------------------------
(* The ledger                                                              *)

\* Mutant: without AUTOINCREMENT the id after the largest retained one is
\* given out again.
NextId_Reused == Max(Ids \cup {0}) + 1

\* The id of the next event (AUTOINCREMENT).
NextId == lastId + 1

\* A transaction commits its events together: one, or two when a failure
\* is the last one allowed ("failed" and "dead").
add_event(j, n) ==
    LET new == NextId..(NextId + n - 1)
    IN  /\ j \notin pruned
        /\ NextId + n - 1 <= MaxId
        /\ ledger' = [e \in Ids \cup new |-> IF e \in new THEN j ELSE ledger[e]]
        /\ lastId' = NextId + n - 1
        /\ raced' = [p \in Pollers |->
                       raced[p] \cup (IF pc[p] = "mark" THEN new ELSE {})]
        /\ UNCHANGED <<pruned, readerVars>>

prune(j) ==
    /\ j \notin pruned
    /\ pruned' = pruned \cup {j}
    /\ ledger' = [e \in {i \in Ids : ledger[i] # j} |-> ledger[e]]
    /\ UNCHANGED <<lastId, readerVars, raced>>

event_high_water == Max(Ids \cup {0})

Wanted(r, e) == Filter[r] \in {AllJobs, ledger[e]}

\* Mutant: the cursor is taken for the next id to read.
After_OffByOne(r) == {e \in Ids : e > cursor[r] + 1 /\ Wanted(r, e)}

\* The retained events a reader has still to see.
After(r) == {e \in Ids : e > cursor[r] /\ Wanted(r, e)}

\* P is what SELECT ... ORDER BY id LIMIT n returns from S.
IsFirst(P, S, n) ==
    /\ P \subseteq S
    /\ \A e \in P, f \in S : f < e => f \in P
    /\ P = S \/ Cardinality(P) = n
    /\ Cardinality(P) <= n

\* list_events; limit 0 means all.
list_events(r, P, limit) ==
    IF limit = 0 THEN P = After(r) ELSE IsFirst(P, After(r), limit)

-----------------------------------------------------------------------------
(* events: one page, and the cursor for the next                           *)

\* The consumer calls again with the cursor it has.
Call(p) ==
    /\ pc[p] = "idle"
    /\ pc' = [pc EXCEPT ![p] = IF p \in LongPoll THEN "probe" ELSE "list"]
    /\ UNCHANGED <<lastId, ledger, pruned, start, cursor, rows, emitted, delivered, raced>>

\* --wait ends when a record is there, or at its deadline.
Probe(p) ==
    /\ pc[p] = "probe"
    /\ After(p) # {}
    /\ pc' = [pc EXCEPT ![p] = "list"]
    /\ UNCHANGED <<lastId, ledger, pruned, start, cursor, rows, emitted, delivered, raced>>

ProbeTimesOut(p) ==
    /\ pc[p] = "probe"
    /\ After(p) = {}
    /\ pc' = [pc EXCEPT ![p] = "list"]
    /\ UNCHANGED <<lastId, ledger, pruned, start, cursor, rows, emitted, delivered, raced>>

\* The first SELECT of a page asks for one row more than the limit.
List(p) ==
    /\ pc[p] = "list"
    /\ \E P \in SUBSET After(p) :
          /\ list_events(p, P, IF Limit[p] = 0 THEN 0 ELSE Limit[p] + 1)
          /\ rows' = [rows EXCEPT ![p] = P]
    /\ pc' = [pc EXCEPT ![p] = "mark"]
    /\ UNCHANGED <<lastId, ledger, pruned, start, cursor, emitted, delivered, raced>>

Truncated(p) == Limit[p] > 0 /\ Cardinality(rows[p]) > Limit[p]

\* The events of the page: without the row too many.
PageEvents(p) == IF Truncated(p) THEN rows[p] \ {Max(rows[p])} ELSE rows[p]

\* Mutants: the cursor of a truncated page is the row too many; a pruned
\* ledger rewinds the cursor; the cursor is the next id to come.
PageCursor_RowTooMany(p) ==
    IF Truncated(p) THEN Max(rows[p]) ELSE Max({cursor[p], event_high_water})

PageCursor_Rewinds(p) ==
    IF Truncated(p) THEN Max(PageEvents(p)) ELSE event_high_water

\* A full page resumes after its last event, a last page at the high-water
\* mark of the whole ledger, which is read by another SELECT.
PageCursor(p) ==
    IF Truncated(p) THEN Max(PageEvents(p)) ELSE Max({cursor[p], event_high_water})

Mark(p) ==
    /\ pc[p] = "mark"
    /\ cursor' = [cursor EXCEPT ![p] = PageCursor(p)]
    /\ delivered' = [delivered EXCEPT ![p] = @ \cup PageEvents(p)]
    /\ rows' = [rows EXCEPT ![p] = {}]
    /\ pc' = [pc EXCEPT ![p] = "idle"]
    /\ UNCHANGED <<lastId, ledger, pruned, start, emitted, raced>>

\* The call dies before it answers; its consumer has what it had.
Abort(p) ==
    /\ pc[p] # "idle"
    /\ rows' = [rows EXCEPT ![p] = {}]
    /\ pc' = [pc EXCEPT ![p] = "idle"]
    /\ UNCHANGED <<lastId, ledger, pruned, start, cursor, emitted, delivered, raced>>

-----------------------------------------------------------------------------
(* events --follow                                                         *)

\* A follower starts at the high-water mark, or where --since-id says: at
\* the beginning, or at the last id its consumer has seen.
Follow(f) ==
    /\ pc[f] = "ended"
    /\ \/ \E since \in {0, event_high_water} :
             /\ start' = [start EXCEPT ![f] = since]
             /\ cursor' = [cursor EXCEPT ![f] = since]
             /\ delivered' = [delivered EXCEPT ![f] = {}]
       \/ UNCHANGED <<start, cursor, delivered>>
    /\ pc' = [pc EXCEPT ![f] = "fetch"]
    /\ emitted' = [emitted EXCEPT ![f] = 0]
    /\ UNCHANGED <<lastId, ledger, pruned, rows, raced>>

\* One poll; without rows the follower sleeps and polls again.
Fetch(f) ==
    /\ pc[f] = "fetch"
    /\ After(f) # {}
    /\ rows' = [rows EXCEPT ![f] = After(f)]
    /\ pc' = [pc EXCEPT ![f] = "emit"]
    /\ UNCHANGED <<lastId, ledger, pruned, start, cursor, emitted, delivered, raced>>

\* The cursor moves with each printed event.  After the last allowed one
\* the stream ends; after the last row it polls again.
Emit(f) ==
    /\ pc[f] = "emit"
    /\ \E e \in rows[f] :
          /\ \A i \in rows[f] : e <= i
          /\ cursor' = [cursor EXCEPT ![f] = e]
          /\ delivered' = [delivered EXCEPT ![f] = @ \cup {e}]
          /\ emitted' = [emitted EXCEPT ![f] = @ + 1]
          /\ IF MaxEvents[f] > 0 /\ emitted[f] + 1 >= MaxEvents[f]
             THEN /\ pc' = [pc EXCEPT ![f] = "ended"]
                  /\ rows' = [rows EXCEPT ![f] = {}]
             ELSE /\ pc' = [pc EXCEPT ![f] = IF rows[f] = {e} THEN "fetch" ELSE "emit"]
                  /\ rows' = [rows EXCEPT ![f] = @ \ {e}]
    /\ UNCHANGED <<lastId, ledger, pruned, start, raced>>

\* --idle-timeout ends a follower whose last poll found nothing.
IdleOut(f) ==
    /\ pc[f] = "fetch"
    /\ f \in IdleTimeout
    /\ After(f) = {}
    /\ pc' = [pc EXCEPT ![f] = "ended"]
    /\ UNCHANGED <<lastId, ledger, pruned, start, cursor, rows, emitted, delivered, raced>>

\* A signal, a closed pipe or a database error: the rows fetched but not
\* printed are dropped.
Interrupt(f) ==
    /\ pc[f] # "ended"
    /\ pc' = [pc EXCEPT ![f] = "ended"]
    /\ rows' = [rows EXCEPT ![f] = {}]
    /\ UNCHANGED <<lastId, ledger, pruned, start, cursor, emitted, delivered, raced>>

-----------------------------------------------------------------------------
(* Specification                                                           *)

StreamInit ==
    /\ lastId = 0
    /\ ledger = <<>>
    /\ pruned = {}
    /\ pc = [r \in Readers |-> IF r \in Followers THEN "ended" ELSE "idle"]
    /\ start = [r \in Readers |-> 0]
    /\ cursor = [r \in Readers |-> 0]
    /\ rows = [r \in Readers |-> {}]
    /\ emitted = [f \in Followers |-> 0]
    /\ delivered = [r \in Readers |-> {}]
    /\ raced = [p \in Pollers |-> {}]

LedgerNext == \E j \in Jobs : prune(j) \/ \E n \in 1..2 : add_event(j, n)

PollNext(p) ==
    Call(p) \/ Probe(p) \/ ProbeTimesOut(p) \/ List(p) \/ Mark(p) \/ Abort(p)

FollowNext(f) == Follow(f) \/ Fetch(f) \/ Emit(f) \/ IdleOut(f) \/ Interrupt(f)

StreamNext ==
    \/ LedgerNext
    \/ \E p \in Pollers : PollNext(p)
    \/ \E f \in Followers : FollowNext(f)

StreamSpec == StreamInit /\ [][StreamNext]_streamVars

\* A follower that is not interrupted polls and prints; nobody has to write.
FairStreamSpec == StreamSpec /\ \A f \in Followers : WF_streamVars(Fetch(f) \/ Emit(f))

-----------------------------------------------------------------------------
(* Properties                                                              *)

\* Ids come from the sequence, a follower prints only what it fetched.
StreamTypeOK ==
    /\ lastId \in Nat
    /\ Ids \subseteq 1..lastId
    /\ ledger \in [Ids -> Jobs]
    /\ pruned \subseteq Jobs
    /\ pc \in [Readers -> {"idle", "probe", "list", "mark", "ended", "fetch", "emit"}]
    /\ start \in [Readers -> 0..lastId]
    /\ cursor \in [Readers -> 0..lastId]
    /\ rows \in [Readers -> SUBSET (1..lastId)]
    /\ emitted \in [Followers -> Nat]
    /\ delivered \in [Readers -> SUBSET (1..lastId)]
    /\ raced \in [Pollers -> SUBSET (1..lastId)]

\* The retained events that r has passed over.
Missed(r) ==
    {e \in Ids : Wanted(r, e) /\ start[r] < e /\ e <= cursor[r] /\ e \notin delivered[r]}

\* A follower passes over no retained event, whatever is written or pruned
\* between its polls and however often it is interrupted and resumed
\* (_run_events_follow).
FollowerMissesNothing == \A f \in Followers : Missed(f) = {}

\* The only events a paging client can lose are those committed between
\* the two SELECTs of one page (_event_page): a full page loses nothing.
PollerMissesOnlyRaced == \A p \in Pollers : Missed(p) \subseteq raced[p]

\* No event is handed out twice: what a consumer has is neither fetched nor
\* still to be fetched, although prune may take the high-water mark below
\* the page just read (_event_page).
NeverTwice == \A r \in Readers : (rows[r] \cup After(r)) \cap delivered[r] = {}

\* While a stream runs, events come in the order of their ids and the
\* cursor never rewinds, even when prune empties the ledger (_event_page,
\* _run_events_follow).
InOrder ==
    [][\A r \in Readers :
          pc[r] # "ended" =>
              /\ cursor[r] <= cursor'[r]
              /\ \A d \in delivered[r], e \in delivered'[r] \ delivered[r] : d < e
      ]_streamVars

\* A follower that keeps running delivers every event of its stream that is
\* not pruned first.
FollowerCatchesUp ==
    \A f \in Followers : \A e \in 1..MaxId :
        (pc[f] # "ended" /\ e \in Ids /\ Wanted(f, e) /\ start[f] < e)
            ~> (e \in delivered[f] \/ e \notin Ids \/ pc[f] = "ended")

-----------------------------------------------------------------------------
(* What the documentation says and the code does not do                    *)

\* "The cursor is the event ID to resume from. It is stable across database
\* changes": a client that resumes from its cursor sees every retained event.
PollerMissesNothing == \A p \in Pollers : Missed(p) = {}
=============================================================================
