---------------------------- MODULE JobOwnership ----------------------------
(***************************************************************************)
(* What spoolctl promises about who may run a job.  A job is owned by at   *)
(* most one process; the owner alone reports how its command ended; the    *)
(* job of an owner that is gone may be reclaimed, the job of a live owner  *)
(* only revoked, by an operator; what is done is never run again.  Each    *)
(* job keeps a tally of how its ownerships ended.                          *)
(***************************************************************************)
EXTENDS Integers

CONSTANTS Jobs, Procs, None

VARIABLES
    phase,      \* where each job is in its life
    owner,      \* the process that owns it
    tally,      \* how often ownership ended, by cause
    live,       \* processes that exist now
    born        \* processes that have ever existed

Phases == {"new", "waiting", "owned", "over", "done", "gone"}

\* Why ownership ends: its owner said how it went, its owner was gone, or an
\* operator took the job away.
Causes == {"reported", "lost", "revoked"}

NoTally == [cause \in Causes |-> 0]

Init ==
    /\ phase = [j \in Jobs |-> "new"]
    /\ owner = [j \in Jobs |-> None]
    /\ tally = [j \in Jobs |-> NoTally]
    /\ live = {}
    /\ born = {}

Join(p) ==
    /\ p \notin born
    /\ live' = live \cup {p}
    /\ born' = born \cup {p}
    /\ UNCHANGED <<phase, owner, tally>>

Leave(p) ==
    /\ p \in live
    /\ live' = live \ {p}
    /\ UNCHANGED <<phase, owner, tally, born>>

\* An ownerless job moves from one phase to another.
Move(j, from, to) ==
    /\ phase[j] \in from
    /\ phase' = [phase EXCEPT ![j] = to]
    /\ UNCHANGED <<owner, tally, live, born>>

Submit(j) == Move(j, {"new"}, "waiting")
Withdraw(j) == Move(j, {"waiting"}, "over")
Reopen(j) == Move(j, {"over"}, "waiting")

\* A process owns one job at a time.
Acquire(j, p) ==
    /\ phase[j] = "waiting"
    /\ p \in live
    /\ \A i \in Jobs : owner[i] # p
    /\ phase' = [phase EXCEPT ![j] = "owned"]
    /\ owner' = [owner EXCEPT ![j] = p]
    /\ UNCHANGED <<tally, live, born>>

Release(j, to, cause) ==
    /\ phase[j] = "owned"
    /\ phase' = [phase EXCEPT ![j] = to]
    /\ owner' = [owner EXCEPT ![j] = None]
    /\ tally' = [tally EXCEPT ![j][cause] = @ + 1]
    /\ UNCHANGED <<live, born>>

Report(j, to) == owner[j] \in live /\ Release(j, to, "reported")
Reclaim(j, to) == owner[j] \notin live /\ Release(j, to, "lost")
Revoke(j, to) == Release(j, to, "revoked")

Forget(S) ==
    /\ \A j \in S : phase[j] \in {"over", "done"}
    /\ phase' = [j \in Jobs |-> IF j \in S THEN "gone" ELSE phase[j]]
    /\ tally' = [j \in Jobs |-> IF j \in S THEN NoTally ELSE tally[j]]
    /\ UNCHANGED <<owner, live, born>>

Next ==
    \/ \E p \in Procs : Join(p) \/ Leave(p)
    \/ \E j \in Jobs :
          \/ Submit(j) \/ Withdraw(j) \/ Reopen(j)
          \/ \E p \in Procs : Acquire(j, p)
          \/ \E to \in {"waiting", "over", "done"} : Report(j, to)
          \/ \E to \in {"waiting", "over"} : Reclaim(j, to) \/ Revoke(j, to)
    \/ \E S \in SUBSET Jobs : Forget(S)

Spec == Init /\ [][Next]_<<phase, owner, tally, live, born>>
=============================================================================
