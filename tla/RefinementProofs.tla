-------------------------- MODULE RefinementProofs --------------------------
(***************************************************************************)
(* The workers and the store implement JobOwnership, for any number of     *)
(* jobs, workers and pids: every step of the system, seen through the      *)
(* mapping of WorkerOwnership, is a step of JobOwnership or changes none   *)
(* of its variables.  They implement StoreSpec as well, so the tables they *)
(* work on keep what LedgerProofs shows of the store.                      *)
(***************************************************************************)
EXTENDS WorkerOwnership, OwnershipProofs, LedgerProofs

\* The bound on job ids, which the mapping's domain needs.
IdBound == lastId <= MaxJobs

MappedInv == SystemInv /\ IdBound

\* The mapped variables.
Phase == [j \in 1..MaxJobs |-> PhaseOf(j)]
Owner == [j \in 1..MaxJobs |-> OwnerOf(j)]
Tally == [j \in 1..MaxJobs |-> TallyOf(j)]
Live == {p \in Procs : Alive(p)}
Born == {p \in Procs : pc[p] # "unborn"}

-----------------------------------------------------------------------------
(* The mapping of one job                                                  *)

StatePhase(state) ==
    CASE state = "queued" -> "waiting"
      [] state = "running" -> "owned"
      [] state = "done" -> "done"
      [] OTHER -> "over"

LEMMA StatePhases ==
    /\ StatePhase("queued") = "waiting"
    /\ StatePhase("running") = "owned"
    /\ StatePhase("done") = "done"
    /\ StatePhase("dead") = "over"
    /\ StatePhase("canceled") = "over"
  BY DEF StatePhase

\* The phase of an existing job is that of its state.
LEMMA PhaseIs ==
    ASSUME PassInv, NEW j \in JobIds
    PROVE  PhaseOf(j) = StatePhase(jobs[j].state)
<1>1. ~(j > lastId)
  BY DEF PassInv, StoreInv, TypeOK
<1> QED
  BY <1>1 DEF PhaseOf, StatePhase

LEMMA PhaseIsNext ==
    ASSUME PassInv', NEW j \in DOMAIN jobs'
    PROVE  PhaseOf(j)' = StatePhase(jobs'[j].state)
<1>1. ~(j > lastId')
  BY DEF PassInv, StoreInv, TypeOK, JobIds
<1> QED
  BY <1>1 DEF PhaseOf, StatePhase, JobIds

\* Only running jobs are owned.
LEMMA OwnedRuns ==
    ASSUME PassInv, NEW j \in 1..MaxJobs
    PROVE  PhaseOf(j) = "owned" <=> j \in JobIds /\ jobs[j].state = "running"
<1>1. CASE j \in JobIds
  BY <1>1, PhaseIs DEF StatePhase
<1>2. CASE j \notin JobIds
  BY <1>2 DEF PhaseOf
<1> QED
  BY <1>1, <1>2

LEMMA OwnedRunsNext ==
    ASSUME PassInv', NEW j \in 1..MaxJobs
    PROVE  PhaseOf(j)' = "owned" <=> j \in DOMAIN jobs' /\ jobs'[j].state = "running"
<1>1. CASE j \in DOMAIN jobs'
  BY <1>1, PhaseIsNext DEF StatePhase
<1>2. CASE j \notin DOMAIN jobs'
  BY <1>2 DEF PhaseOf, JobIds
<1> QED
  BY <1>1, <1>2

\* The owner of a running job is the one incarnation that holds its last
\* attempt.
LEMMA OwnerIs ==
    ASSUME PassInv, OwnershipInv, NEW j \in 1..MaxJobs, j \in JobIds,
           jobs[j].state = "running", NEW p \in Procs, Holds(p, j, LastNo(j))
    PROVE  OwnerOf(j) = p
<1>1. PhaseOf(j) = "owned"
  BY OwnedRuns
<1>2. held[p] # NoClaim
  BY TableFacts DEF Holds
<1>3. \A q \in Procs : Holds(q, j, LastNo(j)) <=> q = p
  BY <1>2 DEF OwnershipInv, ClaimInv, Holds
<1> QED
  BY <1>1, <1>3 DEF OwnerOf

LEMMA OwnerIsNext ==
    ASSUME PassInv', OwnershipInv', NEW j \in 1..MaxJobs, j \in DOMAIN jobs',
           jobs'[j].state = "running", NEW p \in Procs,
           held'[p] = <<j, Len(attempts'[j])>>
    PROVE  OwnerOf(j)' = p
<1>1. PhaseOf(j)' = "owned"
  BY OwnedRunsNext
<1>2. held'[p] # NoClaim
  BY DEF PassInv, StoreInv, TypeOK, JobIds, NoClaim
<1>3. \A q \in Procs : held'[q] = <<j, Len(attempts'[j])>> <=> q = p
  BY <1>2 DEF OwnershipInv, ClaimInv
<1> QED
  BY <1>1, <1>3 DEF OwnerOf, Holds, LastNo

\* A running job has an owner, a process.
LEMMA OwnerExists ==
    ASSUME PassInv, OwnershipInv, NEW j \in 1..MaxJobs, j \in JobIds,
           jobs[j].state = "running"
    PROVE  OwnerOf(j) \in Procs /\ Holds(OwnerOf(j), j, LastNo(j))
<1>1. PICK p \in Procs : Holds(p, j, LastNo(j))
  BY DEF OwnershipInv, AttemptsMatchJob
<1> QED
  BY <1>1, OwnerIs

\* A job that a step spares keeps its phase, its owner and its tally if it
\* keeps its state.
LEMMA SparedMaps ==
    ASSUME PassInv, OwnershipInv, PassInv', OwnershipInv', NEW i \in 1..MaxJobs,
           \/ /\ i \in JobIds /\ i \in DOMAIN jobs'
              /\ Spared(i) /\ jobs'[i].state = jobs[i].state
           \/ i \notin JobIds /\ i \notin DOMAIN jobs' /\ (i > lastId <=> i > lastId')
    PROVE  PhaseOf(i)' = PhaseOf(i) /\ OwnerOf(i)' = OwnerOf(i) /\ TallyOf(i)' = TallyOf(i)
<1>1. CASE i \notin JobIds
  BY <1>1 DEF PhaseOf, OwnerOf, TallyOf, JobIds
<1>2. CASE i \in JobIds
  <2>1. PhaseOf(i)' = PhaseOf(i)
    BY <1>2, PhaseIs, PhaseIsNext
  <2>2. OwnerOf(i)' = OwnerOf(i)
    <3>1. CASE jobs[i].state = "running"
      <4>1. PICK p \in Procs : Holds(p, i, LastNo(i)) /\ Holds(p, i, LastNo(i))'
        BY <1>2, <3>1 DEF Spared
      <4>2. OwnerOf(i) = p
        BY <1>2, <3>1, <4>1, OwnerIs
      <4>3. OwnerOf(i)' = p
        BY <1>2, <3>1, <4>1, OwnerIsNext DEF Holds, LastNo
      <4> QED
        BY <4>2, <4>3
    <3>2. CASE jobs[i].state # "running"
      BY <1>2, <2>1, <3>2, OwnedRuns DEF OwnerOf
    <3> QED
      BY <3>1, <3>2
  <2>3. TallyOf(i)' = TallyOf(i)
    BY <1>2 DEF TallyOf, EndedBy, JobIds, Spared
  <2> QED
    BY <2>1, <2>2, <2>3
<1> QED
  BY <1>1, <1>2

-----------------------------------------------------------------------------
(* The tally                                                               *)

\* Ending a claim adds its attempt to those that ended for its cause.
LEMMA EndTallies ==
    ASSUME PassInv, PassInv', OwnershipInv, NEW j \in JobIds, NEW to, NEW s, NEW r,
           Ends(j, to, s, r),
           NEW c \in {"reported", "lost", "revoked"},
           \A row : row.state = s /\ row.failure_reason = r => CauseOf(row) = c
    PROVE  TallyOf(j)' = [TallyOf(j) EXCEPT ![c] = @ + 1]
<1> DEFINE no == LastNo(j)
<1>1. /\ no \in DOMAIN attempts[j] /\ attempts[j] \in Seq(AttemptRow)
      /\ DOMAIN attempts[j] = 1..no /\ no \in Nat
      /\ jobs[j].state = "running"
  BY ClosingIsLast, TableFacts DEF Ends
<1>2. /\ DOMAIN attempts'[j] = DOMAIN attempts[j]
      /\ attempts'[j][no].state = s /\ attempts'[j][no].failure_reason = r
      /\ \A n \in DOMAIN attempts[j] \ {no} : attempts'[j][n] = attempts[j][n]
      /\ DOMAIN jobs' = JobIds
  BY <1>1 DEF Ends, Rewrites, CloseLast, AttemptRow
<1>3. CauseOf(attempts[j][no]) = "open"
  <2>1. /\ attempts[j][no].state = "running" /\ attempts[j][no].failure_reason = NULL
    BY <1>1 DEF OwnershipInv, AttemptsMatchJob, LiveInv
  <2> QED
    BY <2>1, NullAssumption DEF CauseOf, FailureReasons
<1>4. CauseOf(attempts'[j][no]) = c
  BY <1>2
<1>5. \A d \in {"reported", "lost", "revoked"} :
        /\ no \notin EndedBy(j, d)
        /\ EndedBy(j, d)' = IF d = c THEN EndedBy(j, d) \cup {no} ELSE EndedBy(j, d)
        /\ IsFiniteSet(EndedBy(j, d))
  <2> SUFFICES ASSUME NEW d \in {"reported", "lost", "revoked"}
               PROVE  /\ no \notin EndedBy(j, d)
                      /\ EndedBy(j, d)' = IF d = c THEN EndedBy(j, d) \cup {no}
                                                   ELSE EndedBy(j, d)
                      /\ IsFiniteSet(EndedBy(j, d))
    OBVIOUS
  <2>1. no \notin EndedBy(j, d)
    BY <1>3 DEF EndedBy
  <2>2. \A n : n \in EndedBy(j, d)' <=> n \in (IF d = c THEN EndedBy(j, d) \cup {no}
                                                        ELSE EndedBy(j, d))
    BY <1>1, <1>2, <1>3, <1>4 DEF EndedBy
  <2>3. IsFiniteSet(1..no)
    BY <1>1, FS_Interval
  <2>4. EndedBy(j, d) \in SUBSET (1..no)
    BY <1>1 DEF EndedBy
  <2>5. IsFiniteSet(EndedBy(j, d))
    BY <2>3, <2>4, FS_Subset
  <2> QED
    BY <2>1, <2>2, <2>5
<1>6. ASSUME NEW d \in {"reported", "lost", "revoked"}
      PROVE  Cardinality(EndedBy(j, d))' = IF d = c THEN Cardinality(EndedBy(j, d)) + 1
                                                    ELSE Cardinality(EndedBy(j, d))
  <2>1. CASE d = c
    <3>1. EndedBy(j, d)' = EndedBy(j, d) \cup {no} /\ no \notin EndedBy(j, d)
          /\ IsFiniteSet(EndedBy(j, d))
      BY <1>5, <2>1
    <3> QED
      BY <2>1, <3>1, FS_AddElement
  <2>2. CASE d # c
    BY <1>5, <2>2
  <2> QED
    BY <2>1, <2>2
<1> QED
  BY <1>2, <1>6 DEF TallyOf, JobIds

-----------------------------------------------------------------------------
(* Steps that change one job                                               *)

\* A step that rewrites one job and spares the others changes the mapping
\* there only.
LEMMA RewriteMaps ==
    ASSUME MappedInv, MappedInv', NEW j, NEW to, NEW rows, Rewrites(j, to, rows),
           \A i \in JobIds \ {j} : Spared(i)
    PROVE  /\ j \in 1..MaxJobs /\ j \in JobIds
           /\ Phase[j] = StatePhase(jobs[j].state)
           /\ Phase' = [Phase EXCEPT ![j] = StatePhase(to)]
           /\ Owner' = [Owner EXCEPT ![j] = OwnerOf(j)']
           /\ Tally' = [Tally EXCEPT ![j] = TallyOf(j)']
<1>1. PassInv /\ OwnershipInv /\ PassInv' /\ OwnershipInv'
  BY DEF MappedInv, SystemInv
<1>2. /\ j \in JobIds /\ DOMAIN jobs' = JobIds /\ jobs'[j].state = to /\ lastId' = lastId
      /\ \A i \in JobIds \ {j} : jobs'[i] = jobs[i]
  BY DEF Rewrites
<1>3. j \in 1..MaxJobs
  BY <1>1, <1>2, BoundsAssumption DEF MappedInv, IdBound, PassInv, StoreInv, TypeOK
<1>4. PhaseOf(j) = StatePhase(jobs[j].state) /\ PhaseOf(j)' = StatePhase(to)
  BY <1>1, <1>2, PhaseIs, PhaseIsNext
<1>5. \A i \in (1..MaxJobs) \ {j} :
        PhaseOf(i)' = PhaseOf(i) /\ OwnerOf(i)' = OwnerOf(i) /\ TallyOf(i)' = TallyOf(i)
  BY <1>1, <1>2, SparedMaps
<1>6. Phase[j] = StatePhase(jobs[j].state)
  BY <1>3, <1>4 DEF Phase
<1>7. Phase' = [Phase EXCEPT ![j] = StatePhase(to)]
  BY <1>3, <1>4, <1>5 DEF Phase
<1>8. Owner' = [Owner EXCEPT ![j] = OwnerOf(j)']
  BY <1>3, <1>5 DEF Owner
<1>9. Tally' = [Tally EXCEPT ![j] = TallyOf(j)']
  BY <1>3, <1>5 DEF Tally
<1> QED
  BY <1>2, <1>3, <1>6, <1>7, <1>8, <1>9

\* The processes that exist stay the same.
SameProcs == Live' = Live /\ Born' = Born

\* The end of a claim is a release, for the cause its attempt shows.
LEMMA EndMaps ==
    ASSUME MappedInv, MappedInv', SameProcs, NEW j \in JobIds, NEW to, NEW s, NEW r,
           Ends(j, to, s, r), NEW c \in {"reported", "lost", "revoked"},
           \A row : row.state = s /\ row.failure_reason = r => CauseOf(row) = c,
           \A q \in Procs : held'[q] = held[q] \/ Holds(q, j, LastNo(j))
    PROVE  /\ Ownership!Release(j, StatePhase(to), c)
           /\ j \in 1..MaxJobs
           /\ Owner[j] \in Procs /\ Holds(Owner[j], j, LastNo(j))
<1>1. PassInv /\ OwnershipInv /\ PassInv' /\ OwnershipInv'
  BY DEF MappedInv, SystemInv
<1>2. \A i \in JobIds \ {j} : Spared(i)
  <2> SUFFICES ASSUME NEW i \in JobIds, i # j PROVE Spared(i)
    OBVIOUS
  <2>1. jobs'[i] = jobs[i] /\ attempts'[i] = attempts[i] /\ LastNo(i)' = LastNo(i)
    BY DEF Ends, Rewrites, LastNo
  <2>2. \A q \in Procs : Holds(q, i, LastNo(i)) => held'[q] = held[q]
    BY DEF Holds
  <2> QED
    BY <1>1, <2>1, <2>2 DEF Spared, OwnershipInv, AttemptsMatchJob, Holds
<1>3. /\ jobs[j].state = "running" /\ to # "running"
      /\ jobs'[j].state = to /\ DOMAIN jobs' = JobIds
      /\ Rewrites(j, to, CloseLast(j, s, r))
  BY DEF Ends, Rewrites
<1>4. /\ j \in 1..MaxJobs
      /\ Phase[j] = StatePhase(jobs[j].state)
      /\ Phase' = [Phase EXCEPT ![j] = StatePhase(to)]
      /\ Owner' = [Owner EXCEPT ![j] = OwnerOf(j)']
      /\ Tally' = [Tally EXCEPT ![j] = TallyOf(j)']
  BY <1>2, <1>3, RewriteMaps
<1>5. TallyOf(j)' = [TallyOf(j) EXCEPT ![c] = @ + 1]
  BY <1>1, EndTallies
<1>6. OwnerOf(j)' = NULL
  <2>1. PhaseOf(j)' # "owned"
    BY <1>1, <1>3, <1>4, OwnedRunsNext
  <2> QED
    BY <2>1 DEF OwnerOf
<1>7. Owner[j] \in Procs /\ Holds(Owner[j], j, LastNo(j))
  BY <1>1, <1>3, <1>4, OwnerExists DEF Owner
<1>8. Phase[j] = "owned"
  BY <1>3, <1>4, StatePhases
<1>9. Tally[j] = TallyOf(j)
  BY <1>4 DEF Tally
<1>10. Tally' = [Tally EXCEPT ![j][c] = @ + 1]
  BY <1>4, <1>5, <1>9
<1>11. Ownership!Release(j, StatePhase(to), c)
  BY <1>4, <1>6, <1>8, <1>10
  DEF Ownership!Release, Phase, Owner, Tally, Live, Born, SameProcs
<1> QED
  BY <1>4, <1>7, <1>11

\* Attempt rows that end a claim show why it ended.
LEMMA CauseRows ==
    /\ \A s \in {"succeeded", "failed", "timed_out"} :
         \A row : row.state = s => CauseOf(row) = "reported"
    /\ \A row : row.state = "abandoned" /\ row.failure_reason = "worker_crash" =>
         CauseOf(row) = "lost"
    /\ \A s \in {"canceled", "abandoned"} :
         \A row : row.state = s /\ row.failure_reason = "canceled" =>
            CauseOf(row) = "revoked"
<1>1. ASSUME NEW row, row.state \in {"succeeded", "failed", "timed_out"}
      PROVE  CauseOf(row) = "reported"
  BY <1>1 DEF CauseOf
<1>2. ASSUME NEW row, row.state = "abandoned", row.failure_reason = "worker_crash"
      PROVE  CauseOf(row) = "lost"
  BY <1>2 DEF CauseOf
<1>3. ASSUME NEW row, row.state \in {"canceled", "abandoned"},
             row.failure_reason = "canceled"
      PROVE  CauseOf(row) = "revoked"
  BY <1>3 DEF CauseOf
<1> QED
  BY <1>1, <1>2, <1>3

\* A job that nobody owns moves.
LEMMA MoveMaps ==
    ASSUME MappedInv, MappedInv', SameProcs, NEW j \in JobIds, NEW from, NEW to,
           Moves(j, from, to), held' = held
    PROVE  /\ j \in 1..MaxJobs
           /\ \A S : StatePhase(jobs[j].state) \in S => Ownership!Move(j, S, StatePhase(to))
<1>1. PassInv /\ OwnershipInv /\ PassInv' /\ OwnershipInv'
  BY DEF MappedInv, SystemInv
<1>2. /\ jobs[j].state # "running" /\ to # "running" /\ jobs'[j].state = to
      /\ Rewrites(j, to, attempts[j]) /\ attempts'[j] = attempts[j] /\ DOMAIN jobs' = JobIds
      /\ \A i \in JobIds \ {j} : jobs'[i] = jobs[i] /\ attempts'[i] = attempts[i]
  BY DEF Moves, Rewrites
<1>3. \A i \in JobIds \ {j} : Spared(i)
  <2> SUFFICES ASSUME NEW i \in JobIds, i # j PROVE Spared(i)
    OBVIOUS
  <2>1. jobs'[i] = jobs[i] /\ attempts'[i] = attempts[i] /\ LastNo(i)' = LastNo(i)
    BY <1>2 DEF LastNo
  <2> QED
    BY <1>1, <2>1 DEF Spared, OwnershipInv, AttemptsMatchJob, Holds
<1>4. /\ j \in 1..MaxJobs
      /\ Phase[j] = StatePhase(jobs[j].state)
      /\ Phase' = [Phase EXCEPT ![j] = StatePhase(to)]
      /\ Owner' = [Owner EXCEPT ![j] = OwnerOf(j)']
      /\ Tally' = [Tally EXCEPT ![j] = TallyOf(j)']
  BY <1>2, <1>3, RewriteMaps
<1>5. OwnerOf(j)' = OwnerOf(j)
  BY <1>1, <1>2, <1>4, OwnedRuns, OwnedRunsNext DEF OwnerOf
<1>6. TallyOf(j)' = TallyOf(j)
  BY <1>2 DEF TallyOf, EndedBy, JobIds
<1>7. Owner' = Owner /\ Tally' = Tally
  BY <1>4, <1>5, <1>6 DEF Owner, Tally
<1> QED
  BY <1>4, <1>7 DEF Ownership!Move, Phase, Owner, Tally, Live, Born, SameProcs

\* A claim is an acquisition by a live process that owned nothing.
LEMMA OpenMaps ==
    ASSUME MappedInv, MappedInv', SameProcs, NEW p \in Procs, Claim(p)
    PROVE  \E j \in 1..MaxJobs : Ownership!Acquire(j, p)
<1>1. PassInv /\ OwnershipInv /\ PassInv' /\ OwnershipInv'
  BY DEF MappedInv, SystemInv
<1>2. PICK j \in JobIds : Opens(p, j)
  BY <1>1, ClaimKind
<1>3. /\ jobs[j].state = "queued" /\ jobs'[j].state = "running"
      /\ Rewrites(j, "running", attempts'[j]) /\ DOMAIN jobs' = JobIds
      /\ Len(attempts'[j]) = LastNo(j) + 1
      /\ \A n \in 1..LastNo(j) : attempts'[j][n] = attempts[j][n]
      /\ DOMAIN attempts'[j] = 1..(LastNo(j) + 1)
      /\ attempts'[j][LastNo(j) + 1].state = "running"
      /\ attempts'[j][LastNo(j) + 1].failure_reason = NULL
      /\ held' = [held EXCEPT ![p] = <<j, LastNo(j) + 1>>]
      /\ \A i \in JobIds \ {j} : jobs'[i] = jobs[i] /\ attempts'[i] = attempts[i]
  BY <1>2 DEF Opens, Rewrites
<1>4. held[p] = NoClaim /\ Alive(p)
  BY <1>1 DEF Claim, OwnershipInv, IdleInv, ExecutingAt, Alive, Absent
<1>5. /\ held'[p] = <<j, LastNo(j) + 1>>
      /\ \A q \in Procs \ {p} : held'[q] = held[q]
  <2>1. held \in [Procs -> Nat \X Nat]
    BY <1>1 DEF PassInv, WorkerTypeOK, LoopTypeOK
  <2> QED
    BY <1>3, <2>1
<1>6. \A i \in JobIds \ {j} : Spared(i)
  <2> SUFFICES ASSUME NEW i \in JobIds, i # j PROVE Spared(i)
    OBVIOUS
  <2>1. jobs'[i] = jobs[i] /\ attempts'[i] = attempts[i] /\ LastNo(i)' = LastNo(i)
    BY <1>3 DEF LastNo
  <2>2. \A q \in Procs : Holds(q, i, LastNo(i)) => held'[q] = held[q]
    BY <1>1, <1>4, <1>5, TableFacts DEF Holds
  <2> QED
    BY <1>1, <2>1, <2>2 DEF Spared, OwnershipInv, AttemptsMatchJob, Holds
<1>7. /\ j \in 1..MaxJobs
      /\ Phase[j] = StatePhase(jobs[j].state)
      /\ Phase' = [Phase EXCEPT ![j] = StatePhase("running")]
      /\ Owner' = [Owner EXCEPT ![j] = OwnerOf(j)']
      /\ Tally' = [Tally EXCEPT ![j] = TallyOf(j)']
  BY <1>3, <1>6, RewriteMaps
<1>8. OwnerOf(j)' = p
  BY <1>1, <1>3, <1>5, <1>7, OwnerIsNext
<1>9. TallyOf(j)' = TallyOf(j)
  <2>1. LastNo(j) \in Nat /\ DOMAIN attempts[j] = 1..LastNo(j)
    BY <1>1, TableFacts
  <2>2. CauseOf(attempts'[j][LastNo(j) + 1]) = "open"
    BY <1>3, NullAssumption DEF CauseOf, FailureReasons
  <2>3. \A d \in {"reported", "lost", "revoked"} :
          \A n : n \in EndedBy(j, d)' <=> n \in EndedBy(j, d)
    BY <1>3, <2>1, <2>2 DEF EndedBy
  <2>4. \A d \in {"reported", "lost", "revoked"} : EndedBy(j, d)' = EndedBy(j, d)
    BY <2>3
  <2> QED
    BY <1>3, <2>4 DEF TallyOf, JobIds
<1>10. Tally' = Tally
  BY <1>7, <1>9 DEF Tally
<1>11. \A i \in 1..MaxJobs : Owner[i] # p
  <2> SUFFICES ASSUME NEW i \in 1..MaxJobs PROVE OwnerOf(i) # p
    BY DEF Owner
  <2>1. CASE i \in JobIds /\ jobs[i].state = "running"
    BY <1>1, <1>4, <2>1, OwnerExists, TableFacts DEF Holds
  <2>2. CASE ~(i \in JobIds /\ jobs[i].state = "running")
    BY <1>1, <2>2, OwnedRuns, ProcsAssumption DEF OwnerOf
  <2> QED
    BY <2>1, <2>2
<1>12. Phase[j] = "waiting" /\ Phase' = [Phase EXCEPT ![j] = "owned"]
       /\ Owner' = [Owner EXCEPT ![j] = p]
  BY <1>3, <1>7, <1>8, StatePhases
<1>13. Ownership!Acquire(j, p)
  BY <1>4, <1>10, <1>11, <1>12
  DEF Ownership!Acquire, Phase, Owner, Tally, Live, Born, SameProcs
<1> QED
  BY <1>7, <1>13

-----------------------------------------------------------------------------
(* Steps that add, remove or leave alone                                   *)

\* A new job is submitted.
LEMMA AddMaps ==
    ASSUME MappedInv, MappedInv', SameProcs, Adds, held' = held
    PROVE  \E j \in 1..MaxJobs : Ownership!Submit(j)
<1>0. PICK new : new = lastId + 1
  OBVIOUS
<1>1. PassInv /\ OwnershipInv /\ PassInv' /\ OwnershipInv'
  BY DEF MappedInv, SystemInv
<1>2. /\ lastId \in Nat /\ JobIds \subseteq 1..lastId /\ lastId' = new
      /\ DOMAIN jobs' = JobIds \cup {new} /\ new <= MaxJobs
      /\ jobs'[new].state = "queued" /\ attempts'[new] = <<>>
      /\ \A i \in JobIds : jobs'[i] = jobs[i] /\ attempts'[i] = attempts[i]
  BY <1>0, <1>1 DEF Adds, PassInv, StoreInv, TypeOK
<1>3. new \in 1..MaxJobs /\ new \notin JobIds
  BY <1>0, <1>2, BoundsAssumption
<1>4. \A i \in JobIds : Spared(i)
  <2> SUFFICES ASSUME NEW i \in JobIds PROVE Spared(i)
    OBVIOUS
  <2>1. jobs'[i] = jobs[i] /\ attempts'[i] = attempts[i] /\ LastNo(i)' = LastNo(i)
    BY <1>2 DEF LastNo
  <2> QED
    BY <1>1, <2>1 DEF Spared, OwnershipInv, AttemptsMatchJob, Holds
<1>5. \A i \in (1..MaxJobs) \ {new} :
        PhaseOf(i)' = PhaseOf(i) /\ OwnerOf(i)' = OwnerOf(i) /\ TallyOf(i)' = TallyOf(i)
  <2> SUFFICES ASSUME NEW i \in 1..MaxJobs, i # new
               PROVE  PhaseOf(i)' = PhaseOf(i) /\ OwnerOf(i)' = OwnerOf(i)
                      /\ TallyOf(i)' = TallyOf(i)
    OBVIOUS
  <2>1. CASE i \in JobIds
    BY <1>1, <1>2, <1>4, <2>1, SparedMaps
  <2>2. CASE i \notin JobIds
    <3>1. i \notin DOMAIN jobs' /\ (i > lastId <=> i > lastId')
      BY <1>0, <1>2, <2>2
    <3> QED
      BY <1>1, <2>2, <3>1, SparedMaps
  <2> QED
    BY <2>1, <2>2
<1>6. PhaseOf(new) = "new" /\ PhaseOf(new)' = "waiting"
  <2>1. PhaseOf(new) = "new"
    BY <1>0, <1>2 DEF PhaseOf
  <2>2. PhaseOf(new)' = "waiting"
    BY <1>1, <1>2, PhaseIsNext, StatePhases
  <2> QED
    BY <2>1, <2>2
<1>7. OwnerOf(new)' = OwnerOf(new)
  BY <1>6 DEF OwnerOf
<1>8. TallyOf(new)' = TallyOf(new)
  <2>1. \A d : EndedBy(new, d)' = {}
    BY <1>2 DEF EndedBy
  <2> QED
    BY <1>2, <1>3, <2>1, FS_EmptySet DEF TallyOf, JobIds
<1>9. /\ Phase[new] = "new" /\ Phase' = [Phase EXCEPT ![new] = "waiting"]
      /\ Owner' = Owner /\ Tally' = Tally
  BY <1>3, <1>5, <1>6, <1>7, <1>8 DEF Phase, Owner, Tally
<1>10. Ownership!Submit(new)
  BY <1>9 DEF Ownership!Submit, Ownership!Move, Phase, Owner, Tally, Live, Born, SameProcs
<1> QED
  BY <1>3, <1>10

\* Removed jobs are forgotten.
LEMMA RemoveMaps ==
    ASSUME MappedInv, MappedInv', SameProcs, Removes, held' = held
    PROVE  \E S \in SUBSET (1..MaxJobs) : Ownership!Forget(S)
<1> DEFINE S == JobIds \ DOMAIN jobs'
<1>1. PassInv /\ OwnershipInv /\ PassInv' /\ OwnershipInv'
  BY DEF MappedInv, SystemInv
<1>2. /\ lastId \in Nat /\ JobIds \subseteq 1..lastId /\ lastId' = lastId
      /\ DOMAIN jobs' \subseteq JobIds
      /\ \A i \in S : jobs[i].state \in PrunableStates
      /\ \A i \in DOMAIN jobs' : jobs'[i] = jobs[i] /\ attempts'[i] = attempts[i]
  BY <1>1 DEF Removes, PassInv, StoreInv, TypeOK
<1>3. S \in SUBSET (1..MaxJobs)
  <2>1. MaxJobs \in Nat /\ lastId <= MaxJobs
    BY BoundsAssumption DEF MappedInv, IdBound
  <2>2. \A i \in JobIds : i \in 1..MaxJobs
    BY <1>2, <2>1
  <2> QED
    BY <2>2
<1>4. \A i \in (1..MaxJobs) \ S :
        PhaseOf(i)' = PhaseOf(i) /\ OwnerOf(i)' = OwnerOf(i) /\ TallyOf(i)' = TallyOf(i)
  <2> SUFFICES ASSUME NEW i \in 1..MaxJobs, i \notin S
               PROVE  PhaseOf(i)' = PhaseOf(i) /\ OwnerOf(i)' = OwnerOf(i)
                      /\ TallyOf(i)' = TallyOf(i)
    OBVIOUS
  <2>1. CASE i \in JobIds
    <3>1. /\ i \in DOMAIN jobs' /\ jobs'[i] = jobs[i] /\ attempts'[i] = attempts[i]
          /\ LastNo(i)' = LastNo(i)
      BY <1>2, <2>1 DEF LastNo
    <3>2. Spared(i)
      BY <1>1, <2>1, <3>1 DEF Spared, OwnershipInv, AttemptsMatchJob, Holds
    <3> QED
      BY <1>1, <2>1, <3>1, <3>2, SparedMaps
  <2>2. CASE i \notin JobIds
    BY <1>1, <1>2, <2>2, SparedMaps
  <2> QED
    BY <2>1, <2>2
<1>5. ASSUME NEW i \in S
      PROVE  /\ PhaseOf(i) \in {"over", "done"} /\ PhaseOf(i)' = "gone"
             /\ OwnerOf(i)' = OwnerOf(i)
             /\ TallyOf(i)' = [d \in {"reported", "lost", "revoked"} |-> 0]
  <2>1. PhaseOf(i) \in {"over", "done"}
    BY <1>1, <1>2, PhaseIs, StatePhases DEF PrunableStates
  <2>2. PhaseOf(i)' = "gone"
    <3>1. ~(i > lastId')
      BY <1>2
    <3> QED
      BY <3>1 DEF PhaseOf, JobIds
  <2>3. OwnerOf(i)' = OwnerOf(i)
    BY <2>1, <2>2 DEF OwnerOf
  <2>4. TallyOf(i)' = [d \in {"reported", "lost", "revoked"} |-> 0]
    BY DEF TallyOf, JobIds
  <2> QED
    BY <2>1, <2>2, <2>3, <2>4
<1> HIDE DEF S
<1>6. \A i \in S : Phase[i] \in {"over", "done"}
  BY <1>3, <1>5 DEF Phase
<1>7. Phase' = [j \in 1..MaxJobs |-> IF j \in S THEN "gone" ELSE Phase[j]]
  BY <1>3, <1>4, <1>5 DEF Phase
<1>8. Tally' = [j \in 1..MaxJobs |->
                  IF j \in S THEN [d \in {"reported", "lost", "revoked"} |-> 0] ELSE Tally[j]]
  BY <1>3, <1>4, <1>5 DEF Tally
<1>9. Owner' = Owner
  BY <1>3, <1>4, <1>5 DEF Owner
<1>10. Ownership!Forget(S)
  BY <1>6, <1>7, <1>8, <1>9
  DEF Ownership!Forget, Ownership!NoTally, Ownership!Causes, Phase, Owner, Tally, Live, Born,
      SameProcs
<1> QED
  BY <1>3, <1>10

\* A step that leaves the owners alone changes no phase, owner or tally.
LEMMA AloneMaps ==
    ASSUME MappedInv, MappedInv', LeavesAlone,
           \A q \in Procs :
              held'[q] = held[q] \/ ~Owns(held[q][1], WorkerIdOf[q], PidOf[q])
    PROVE  Phase' = Phase /\ Owner' = Owner /\ Tally' = Tally
<1>1. PassInv /\ OwnershipInv /\ PassInv' /\ OwnershipInv'
  BY DEF MappedInv, SystemInv
<1>2. \A i \in DOMAIN jobs' : i \in JobIds /\ Spared(i)
  BY <1>1, SparedByAll DEF LeavesAlone
<1>3. \A i \in 1..MaxJobs :
        PhaseOf(i)' = PhaseOf(i) /\ OwnerOf(i)' = OwnerOf(i) /\ TallyOf(i)' = TallyOf(i)
  BY <1>1, <1>2, SparedMaps DEF LeavesAlone
<1> QED
  BY <1>3 DEF Phase, Owner, Tally

-----------------------------------------------------------------------------
(* Processes that come and go                                              *)

\* p, alive, dies or ends by itself, and touches nothing.
Quits(p) ==
    /\ Alive(p)
    /\ \E at \in {"dead", "exited"} : pc' = [pc EXCEPT ![p] = at]
    /\ UNCHANGED <<storeVars, held>>

\* A step starts a process, ends one, or leaves the set of processes alone.
LEMMA ProcSteps ==
    ASSUME WorkerTypeOK, [Next]_vars
    PROVE  (\E p \in Procs : Start(p) \/ Quits(p)) \/ SameProcs
<1>0. pc \in [Procs -> Points]
  BY DEF WorkerTypeOK, LoopTypeOK
<1>1. ASSUME NEW p \in Procs, NEW at, pc' = [pc EXCEPT ![p] = at],
             pc[p] \notin Absent, at \notin Absent
      PROVE  SameProcs
  BY <1>0, <1>1 DEF SameProcs, Live, Born, Alive, Absent
<1>2. ASSUME pc' = pc
      PROVE  SameProcs
  BY <1>2 DEF SameProcs, Live, Born, Alive
<1>3. ASSUME NEW p \in Procs, Settle(p) \/ Stop(p) \/ Crash(p)
      PROVE  Quits(p) \/ SameProcs
  <2>1. CASE Stop(p) \/ Crash(p)
    BY <2>1 DEF Stop, Crash, Quits, Alive, Absent
  <2>2. CASE Settle(p)
    <3>1. pc[p] = "settling" /\ UNCHANGED <<storeVars, held>>
      BY <2>2 DEF Settle
    <3>2. pc' = [pc EXCEPT ![p] = "exited"] \/ pc' = [pc EXCEPT ![p] = "loop"]
      BY <2>2 DEF Settle
    <3>3. CASE pc' = [pc EXCEPT ![p] = "exited"]
      BY <3>1, <3>3 DEF Quits, Alive, Absent
    <3>4. CASE pc' = [pc EXCEPT ![p] = "loop"]
      BY <1>1, <3>1, <3>4 DEF Absent
    <3> QED
      BY <3>2, <3>3, <3>4
  <2> QED
    BY <1>3, <2>1, <2>2
<1>4. ASSUME NEW p \in Procs, LoopStep(p), ~Settle(p), ~Stop(p)
      PROVE  SameProcs
  <2>1. \E at \in Points \ Absent : pc' = [pc EXCEPT ![p] = at]
    BY <1>4 DEF LoopStep, ReapBegin, CheckOwner, ReapOne, DropFirst, AfterCands, Claim,
       ClaimNothing, Spawn, SpawnFails, Returns, Record, Points, Absent, ExecutingAt
  <2>2. pc[p] \notin Absent
    BY <1>4 DEF LoopStep, ReapBegin, CheckOwner, ReapOne, Claim,
       ClaimNothing, Spawn, SpawnFails, Record, Absent
  <2> QED
    BY <1>1, <2>1, <2>2
<1>5. ASSUME NEW p \in Procs, BeatStep(p) \/ Environment(p), ~Start(p), ~Crash(p)
      PROVE  SameProcs
  <2>1. CASE Beat(p) \/ Signal(p) \/ ThreadDies(p)
    BY <1>2, <2>1 DEF Beat, Signal, ThreadDies
  <2>2. CASE Hang(p)
    BY <1>1, <2>2 DEF Hang, Alive, Absent
  <2>3. CASE KillLost(p)
    <3>1. pc' = [pc EXCEPT ![p] = "recording"] /\ pc[p] \in {"spawning", "waiting"}
      BY <2>3 DEF KillLost, Returns, WorkerTypeOK
    <3> QED
      BY <1>1, <3>1 DEF Absent
  <2>4. CASE SignalAgain(p) \/ Timeout(p)
    BY <1>1, <2>4 DEF SignalAgain, Timeout, Returns, Absent
  <2>5. CASE ChildEnds(p)
    <3>1. \/ pc' = pc
          \/ pc[p] = "waiting" /\ pc' = [pc EXCEPT ![p] = "recording"]
      BY <2>5 DEF ChildEnds, Returns
    <3> QED
      BY <1>1, <1>2, <3>1 DEF Absent
  <2> QED
    BY <1>5, <2>1, <2>2, <2>3, <2>4, <2>5 DEF BeatStep, Environment
<1>6. CASE \E pid \in Pids : ForeignStart(pid) \/ ForeignExit(pid)
  BY <1>2, <1>6 DEF ForeignStart, ForeignExit
<1>7. CASE UNCHANGED workerVars
  BY <1>2, <1>7 DEF workerVars
<1> QED
  BY <1>3, <1>4, <1>5, <1>6, <1>7 DEF Next, vars, LoopStep, BeatStep, Environment

\* A process that starts joins, one that quits leaves.
LEMMA JoinLeaveMaps ==
    ASSUME MappedInv, MappedInv', NEW p \in Procs, Start(p) \/ Quits(p)
    PROVE  Ownership!Join(p) \/ Ownership!Leave(p)
<1>0. pc \in [Procs -> Points]
  BY DEF MappedInv, SystemInv, PassInv, WorkerTypeOK, LoopTypeOK
<1>1. UNCHANGED storeVars /\ held' = held
  BY DEF Start, Quits
<1>2. Phase' = Phase /\ Owner' = Owner /\ Tally' = Tally
  BY <1>1, IdleKind, AloneMaps
<1>3. CASE Start(p)
  <2>1. p \notin Born /\ Live' = Live \cup {p} /\ Born' = Born \cup {p}
    BY <1>0, <1>3 DEF Start, Live, Born, Alive, Absent
  <2> QED
    BY <1>2, <2>1 DEF Ownership!Join, Phase, Owner, Tally, Live, Born
<1>4. CASE Quits(p)
  <2>1. p \in Live /\ Live' = Live \ {p} /\ Born' = Born
    BY <1>0, <1>4 DEF Quits, Live, Born, Alive, Absent
  <2> QED
    BY <1>2, <2>1 DEF Ownership!Leave, Phase, Owner, Tally, Live, Born
<1> QED
  BY <1>3, <1>4

-----------------------------------------------------------------------------
(* The refinement                                                          *)

mappedVars == <<Phase, Owner, Tally, Live, Born>>

\* No step leaves the bound on job ids.
LEMMA BoundStep == MappedInv /\ [Next]_vars => MappedInv'
<1> SUFFICES ASSUME MappedInv, [Next]_vars PROVE MappedInv'
  OBVIOUS
<1>1. PassInv /\ OwnershipInv /\ SystemInv /\ SystemInv'
  BY SystemStep DEF MappedInv, SystemInv
<1>2. lastId' = lastId \/ (lastId' = lastId + 1 /\ lastId + 1 <= MaxJobs)
  <2>1. LeavesAlone => lastId' = lastId
    BY DEF LeavesAlone
  <2>2. \A j, to, rows : Rewrites(j, to, rows) => lastId' = lastId
    BY DEF Rewrites
  <2>3. (\E p \in Procs : Claim(p)) => lastId' = lastId
    BY <1>1, <2>2, ClaimKind DEF Opens
  <2>4. (\E p \in Procs : Record(p)) => lastId' = lastId
    BY <1>1, <2>1, <2>2, RecordKinds DEF RecordsOutcome, Ends
  <2>5. (\E p \in Procs : ReapOne(p)) => lastId' = lastId
    BY <1>1, <2>1, <2>2, ReapKinds DEF Ends
  <2>6. ClientNext => lastId' = lastId \/ (lastId' = lastId + 1 /\ lastId + 1 <= MaxJobs)
    BY <1>1, <2>2, ClientKinds DEF Adds, Removes, Moves, Ends
  <2> QED
    BY <1>1, <2>1, <2>3, <2>4, <2>5, <2>6, OtherKinds
<1>3. IdBound'
  BY <1>2 DEF MappedInv, IdBound
<1> QED
  BY <1>1, <1>3 DEF MappedInv

\* What a client does is a step of JobOwnership.
LEMMA ClientMaps ==
    ASSUME MappedInv, MappedInv', SameProcs, ClientNext, held' = held
    PROVE  Ownership!Next
<1>1. PassInv /\ OwnershipInv
  BY DEF MappedInv, SystemInv
<1>2. CASE Adds
  BY <1>2, AddMaps DEF Ownership!Next
<1>3. CASE Removes
  BY <1>3, RemoveMaps DEF Ownership!Next
<1>4. ASSUME NEW j \in JobIds, Moves(j, {"queued"}, "canceled")
      PROVE  Ownership!Next
  <2>1. StatePhase(jobs[j].state) \in {"waiting"} /\ StatePhase("canceled") = "over"
    BY <1>4, StatePhases DEF Moves
  <2>2. j \in 1..MaxJobs /\ Ownership!Withdraw(j)
    BY <1>4, <2>1, MoveMaps DEF Ownership!Withdraw
  <2> QED
    BY <2>2 DEF Ownership!Next
<1>5. ASSUME NEW j \in JobIds, Moves(j, {"canceled", "dead"}, "queued")
      PROVE  Ownership!Next
  <2>1. StatePhase(jobs[j].state) \in {"over"} /\ StatePhase("queued") = "waiting"
    BY <1>5, StatePhases DEF Moves
  <2>2. j \in 1..MaxJobs /\ Ownership!Reopen(j)
    BY <1>5, <2>1, MoveMaps DEF Ownership!Reopen
  <2> QED
    BY <2>2 DEF Ownership!Next
<1>6. ASSUME NEW j \in JobIds, NEW to \in {"canceled", "queued"},
             NEW s \in {"canceled", "abandoned"}, Ends(j, to, s, "canceled")
      PROVE  Ownership!Next
  <2>1. \A row : row.state = s /\ row.failure_reason = "canceled" => CauseOf(row) = "revoked"
    BY CauseRows
  <2>2. j \in 1..MaxJobs /\ Ownership!Release(j, StatePhase(to), "revoked")
    BY <1>6, <2>1, EndMaps
  <2>3. StatePhase(to) \in {"waiting", "over"}
    BY StatePhases
  <2> QED
    BY <2>2, <2>3 DEF Ownership!Next, Ownership!Revoke
<1> QED
  BY <1>1, <1>2, <1>3, <1>4, <1>5, <1>6, ClientKinds

\* Recording is reporting, by a live owner, or changes nothing.
LEMMA RecordMaps ==
    ASSUME MappedInv, MappedInv', SameProcs, NEW p \in Procs, Record(p)
    PROVE  Ownership!Next \/ UNCHANGED mappedVars
<1>1. PassInv /\ OwnershipInv
  BY DEF MappedInv, SystemInv
<1>2. \A q \in Procs : held'[q] = held[q] \/ q = p
  BY <1>1 DEF Record, PassInv, WorkerTypeOK, LoopTypeOK
<1>3. Alive(p)
  BY DEF Record, Alive, Absent
<1>4. CASE LeavesAlone /\ ~Owns(held[p][1], WorkerIdOf[p], PidOf[p])
  <2>1. Phase' = Phase /\ Owner' = Owner /\ Tally' = Tally
    BY <1>2, <1>4, AloneMaps
  <2> QED
    BY <2>1 DEF mappedVars, SameProcs
<1>5. ASSUME NEW j \in JobIds, RecordsOutcome(p, j)
      PROVE  Ownership!Next
  <2>1. Holds(p, j, LastNo(j)) /\ held[p] # NoClaim
    BY <1>1, <1>5, TableFacts DEF RecordsOutcome, Holds
  <2>2. PICK to \in {"done", "queued", "dead"}, s \in {"succeeded", "failed", "timed_out"} :
           \E r : Ends(j, to, s, r)
    BY <1>5 DEF RecordsOutcome, FailureKind
  <2>3. PICK r : Ends(j, to, s, r)
    BY <2>2
  <2>4. /\ j \in 1..MaxJobs /\ Ownership!Release(j, StatePhase(to), "reported")
        /\ Owner[j] \in Procs /\ Holds(Owner[j], j, LastNo(j))
    <3>1. \A row : row.state = s /\ row.failure_reason = r => CauseOf(row) = "reported"
      BY CauseRows
    <3> QED
      BY <1>2, <2>1, <2>3, <3>1, EndMaps
  <2>5. Owner[j] = p
    BY <1>1, <2>1, <2>4 DEF OwnershipInv, ClaimInv, Holds
  <2>6. Owner[j] \in Live
    BY <1>3, <2>5 DEF Live
  <2>7. StatePhase(to) \in {"waiting", "over", "done"}
    BY StatePhases
  <2>8. Ownership!Report(j, StatePhase(to))
    BY <2>4, <2>6 DEF Ownership!Report, Owner, Live
  <2> QED
    BY <2>4, <2>7, <2>8 DEF Ownership!Next
<1> QED
  BY <1>1, <1>4, <1>5, RecordKinds

\* Reaping is reclaiming from a process that is gone, or changes nothing.
LEMMA ReapMaps ==
    ASSUME MappedInv, MappedInv', SameProcs, NEW p \in Procs, ReapOne(p), [Next]_vars
    PROVE  Ownership!Next \/ UNCHANGED mappedVars
<1>1. PassInv /\ OwnershipInv
  BY DEF MappedInv, SystemInv
<1>2. held' = held
  BY DEF ReapOne
<1>3. CASE LeavesAlone
  <2>1. Phase' = Phase /\ Owner' = Owner /\ Tally' = Tally
    BY <1>2, <1>3, AloneMaps
  <2> QED
    BY <2>1 DEF mappedVars, SameProcs
<1>4. ASSUME NEW j \in JobIds, NEW to \in {"queued", "dead"},
             Ends(j, to, "abandoned", "worker_crash"),
             \A q \in Procs : Holds(q, j, LastNo(j)) => ~Alive(q)
      PROVE  Ownership!Next
  <2>1. \A row : row.state = "abandoned" /\ row.failure_reason = "worker_crash" =>
          CauseOf(row) = "lost"
    BY CauseRows
  <2>2. /\ j \in 1..MaxJobs /\ Ownership!Release(j, StatePhase(to), "lost")
        /\ Owner[j] \in Procs /\ Holds(Owner[j], j, LastNo(j))
    BY <1>2, <1>4, <2>1, EndMaps
  <2>3. Owner[j] \notin Live
    BY <1>4, <2>2 DEF Live
  <2>4. StatePhase(to) \in {"waiting", "over"}
    BY StatePhases
  <2>5. Ownership!Reclaim(j, StatePhase(to))
    BY <2>2, <2>3 DEF Ownership!Reclaim, Owner, Live
  <2> QED
    BY <2>2, <2>4, <2>5 DEF Ownership!Next
<1> QED
  BY <1>1, <1>3, <1>4, ReapKinds

\* Every step of the system is a step of JobOwnership or a stutter.
LEMMA NextMaps == MappedInv /\ MappedInv' /\ [Next]_vars => [Ownership!Next]_mappedVars
<1> SUFFICES ASSUME MappedInv, MappedInv', [Next]_vars
             PROVE  Ownership!Next \/ UNCHANGED mappedVars
  OBVIOUS
<1>1. PassInv /\ OwnershipInv /\ WorkerTypeOK
  BY DEF MappedInv, SystemInv, PassInv
<1>2. ASSUME NEW p \in Procs, Start(p) \/ Quits(p)
      PROVE  Ownership!Next
  BY <1>2, JoinLeaveMaps DEF Ownership!Next
<1>3. CASE SameProcs
  <2>1. ASSUME NEW p \in Procs, Claim(p)
        PROVE  Ownership!Next
    BY <1>3, <2>1, OpenMaps DEF Ownership!Next
  <2>2. ASSUME NEW p \in Procs, Record(p) \/ ReapOne(p)
        PROVE  Ownership!Next \/ UNCHANGED mappedVars
    BY <1>3, <2>2, RecordMaps, ReapMaps
  <2>3. ASSUME \A p \in Procs : ~Claim(p) /\ ~Record(p) /\ ~ReapOne(p)
        PROVE  Ownership!Next \/ UNCHANGED mappedVars
    <3>1. held' = held
      BY <1>1, <2>3, HeldStep
    <3>2. CASE LeavesAlone
      <4>1. Phase' = Phase /\ Owner' = Owner /\ Tally' = Tally
        BY <3>1, <3>2, AloneMaps
      <4> QED
        BY <1>3, <4>1 DEF mappedVars, SameProcs
    <3>3. CASE ClientNext
      BY <1>3, <3>1, <3>3, ClientMaps
    <3> QED
      BY <1>1, <2>3, <3>2, <3>3, OtherKinds
  <2> QED
    BY <2>1, <2>2, <2>3
<1> QED
  BY <1>1, <1>2, <1>3, ProcSteps

\* An empty database without workers is where JobOwnership starts.
LEMMA InitMaps == Init => Ownership!Init
<1> SUFFICES ASSUME Init PROVE Ownership!Init
  OBVIOUS
<1>1. jobs = <<>> /\ lastId = 0 /\ pc = [p \in Procs |-> "unborn"]
  BY DEF Init, StoreInit, WorkerInit
<1>2. \A j \in 1..MaxJobs : /\ PhaseOf(j) = "new" /\ OwnerOf(j) = NULL
                            /\ TallyOf(j) = [c \in {"reported", "lost", "revoked"} |-> 0]
  <2> SUFFICES ASSUME NEW j \in 1..MaxJobs
               PROVE  /\ PhaseOf(j) = "new" /\ OwnerOf(j) = NULL
                      /\ TallyOf(j) = [c \in {"reported", "lost", "revoked"} |-> 0]
    OBVIOUS
  <2>1. j > lastId /\ j \notin JobIds
    BY <1>1 DEF JobIds
  <2>2. PhaseOf(j) = "new"
    BY <2>1 DEF PhaseOf
  <2> QED
    BY <2>1, <2>2 DEF OwnerOf, TallyOf
<1>3. \A p \in Procs : ~Alive(p) /\ pc[p] = "unborn"
  BY <1>1 DEF Alive, Absent
<1> QED
  BY <1>2, <1>3 DEF Ownership!Init, Ownership!NoTally, Ownership!Causes

\* Every behaviour of workers, reapers and clients, for any number of them,
\* is a behaviour of JobOwnership.
THEOREM SystemImplementsOwnership == Spec => ImplementsOwnership
<1>1. Init => MappedInv
  BY SystemInit, BoundsAssumption DEF MappedInv, IdBound, Init, StoreInit
<1>2. MappedInv /\ MappedInv' /\ [Next]_vars =>
        [Ownership!Next]_<<[j \in 1..MaxJobs |-> PhaseOf(j)], [j \in 1..MaxJobs |-> OwnerOf(j)],
                          [j \in 1..MaxJobs |-> TallyOf(j)], {p \in Procs : Alive(p)},
                          {p \in Procs : pc[p] # "unborn"}>>
  BY NextMaps DEF mappedVars, Phase, Owner, Tally, Live, Born
<1> QED
  BY <1>1, <1>2, BoundStep, InitMaps, PTL DEF Spec, ImplementsOwnership, Ownership!Spec
-----------------------------------------------------------------------------
(* The ledger                                                              *)

\* The tables the workers work on keep their promises whoever crashes, hangs
\* or comes late: two active jobs share an idempotency key only after a manual
\* retry, no lane runs more jobs than it has slots, and the counters of every
\* job are what its event log says happened since its last retry.
THEOREM WorkersKeepTheLedger == Spec => [](KeyInv /\ SlotsInv /\ CountersMatchLog)
  BY SystemUsesTheStore, KeysAreUnique, SlotsAreRespected, CountersAreTheLog, PTL
=============================================================================
