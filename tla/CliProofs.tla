------------------------------ MODULE CliProofs ------------------------------
(***************************************************************************)
(* Any number of commands on one database file, for every file they may    *)
(* find: opening it creates or migrates it so that its version never lies, *)
(* the queue in it survives, and what the commands answer keeps to the     *)
(* published contract.                                                     *)
(*                                                                         *)
(* The invariant of the file is FileInv: what the file is now, by what it  *)
(* was when it was found.  PlaceOk says what a process knows at its place  *)
(* in connect; it stays true when another process moves the file on        *)
(* (Advances), so a step is checked against the process that takes it.     *)
(***************************************************************************)
EXTENDS Cli, TLAPS, FiniteSetTheorems, SequenceTheorems, WellFoundedInduction

Places ==
    OpenEnds \cup {"idle", "connect", "select", "script", "stamp", "loop", "migrate"}

\* The file, by what it was when it was found.
FileInv ==
    /\ db \in Database
    /\ found \in Databases
    /\ misread \in BOOLEAN
    /\ db.sqlite = found.sqlite /\ db.dangling = found.dangling
    /\ ~found.sqlite => db.version = NULL
    /\ found.version # NULL => db.version # NULL
    /\ db.version # NULL /\ db.version > SCHEMA_VERSION => found.version = db.version
    /\ \/ Mistaken
       \/ /\ found.version = NULL => /\ db.version \in {NULL, SCHEMA_VERSION}
                                     /\ db.columns = ScriptColumns(db.objects)
          /\ found.version \in 1..SCHEMA_VERSION =>
               db.version \in found.version..SCHEMA_VERSION
          /\ found.version \in Nat \ 1..SCHEMA_VERSION => db.version = found.version
          /\ db.version \in 1..SCHEMA_VERSION => BuiltAs(db.version)

\* What a process at a place of connect knows of the file.
PlaceOk(pc, n) ==
    /\ pc \in Places
    /\ n \in 0..SCHEMA_VERSION
    /\ pc = "script" => n \in 1..6
    /\ pc \in {"loop", "migrate"} => db.version # NULL
    /\ pc = "migrate" => n \in 1..5
    /\ pc = "too_new" => found.version # NULL /\ found.version > SCHEMA_VERSION
    /\ pc = "refused" => db.protected
    /\ pc \in {"select", "script", "stamp", "loop", "migrate", "open"} => found.sqlite
    /\ pc = "failed" => Mistaken \/ Broken(found)
    /\ \/ Mistaken
       \/ /\ pc \in {"script", "stamp"} => found.version = NULL
          /\ pc = "script" => \A i \in 1..(n - 1) : Script[i] \in db.objects
          /\ pc = "stamp" => Objects \subseteq db.objects
          /\ pc = "migrate" => n <= db.version /\ db.version <= SCHEMA_VERSION
          /\ pc = "open" => db.version = SCHEMA_VERSION

PlacesInv ==
    /\ opener \in [Procs -> Places]
    /\ at \in [Procs -> 0..SCHEMA_VERSION]
    /\ \A p \in Procs : PlaceOk(opener[p], at[p])

\* The file only ever gains tables and goes up to the current version.
Advances ==
    /\ found' = found
    /\ misread => misread'
    /\ db'.protected = db.protected
    /\ db.objects \subseteq db'.objects
    /\ db.version # NULL => db'.version # NULL
    /\ \/ Mistaken'
       \/ db'.version = db.version
       \/ (db.version # NULL => db.version < db'.version) /\ db'.version <= SCHEMA_VERSION

-----------------------------------------------------------------------------
(* Opening the file                                                        *)

\* The fields of a file are of their types.
LEMMA FileFacts ==
    ASSUME FileInv
    PROVE  /\ db \in Database
           /\ db.version \in Nat \cup {NULL} /\ NULL \notin Nat /\ NULL \notin Int
           /\ found.version \in Nat \cup {NULL}
           /\ db.objects \subseteq Objects
           /\ db.columns \subseteq 2..SCHEMA_VERSION
           /\ db.seq \in Nat /\ found.seq \in Nat
           /\ db.history \in Seq(Ends)
           /\ db.protected \in BOOLEAN
<1>1. db \in Database /\ found \in Database
  BY DatabasesAssumption DEF FileInv
<1> QED
  BY <1>1, NullAssumption DEF Database

\* A mistake is never undone.
LEMMA MistakenStays ==
    ASSUME found' = found, misread => misread'
    PROVE  /\ Mistaken => Mistaken'
           /\ misread' = misread => Mistaken' = Mistaken
  BY DEF Mistaken, Leftover

\* What a process knows stays true while the file advances.
LEMMA PlacesStay ==
    ASSUME FileInv, FileInv', Advances, NEW pc, NEW n, PlaceOk(pc, n)
    PROVE  PlaceOk(pc, n)'
<1>1. /\ db.version \in Nat \cup {NULL} /\ NULL \notin Nat
      /\ misread \in BOOLEAN
  BY FileFacts DEF FileInv
<1>2. db'.version \in Nat \cup {NULL}
  BY DEF FileInv, Database
<1>3. /\ pc \in Places
      /\ n \in 0..SCHEMA_VERSION
      /\ pc = "script" => n \in 1..6
      /\ pc \in {"loop", "migrate"} => db'.version # NULL
      /\ pc = "migrate" => n \in 1..5
      /\ pc = "too_new" => found'.version # NULL /\ found'.version > SCHEMA_VERSION
      /\ pc = "refused" => db'.protected
      /\ pc \in {"select", "script", "stamp", "loop", "migrate", "open"} => found'.sqlite
  BY DEF PlaceOk, Advances
<1>6. pc = "failed" => (Mistaken \/ Broken(found))'
  BY MistakenStays DEF PlaceOk, Advances, Broken
<1>4. CASE Mistaken'
  BY <1>3, <1>4, <1>6 DEF PlaceOk
<1>5. CASE ~Mistaken'
  <2>1. ~Mistaken
    BY <1>1, <1>5, MistakenStays DEF Advances
  <2>2. /\ pc \in {"script", "stamp"} => found'.version = NULL
        /\ pc = "script" => \A i \in 1..(n - 1) : Script[i] \in db'.objects
        /\ pc = "stamp" => Objects \subseteq db'.objects
    BY <2>1 DEF PlaceOk, Advances
  <2>3. pc = "migrate" => n <= db'.version /\ db'.version <= SCHEMA_VERSION
    BY <1>1, <1>2, <1>3, <1>5, <2>1 DEF PlaceOk, Advances
  <2>4. pc = "open" => db'.version = SCHEMA_VERSION
    BY <1>1, <1>2, <1>5, <2>1 DEF PlaceOk, Advances, SCHEMA_VERSION
  <2> QED
    BY <1>3, <1>6, <2>2, <2>3, <2>4 DEF PlaceOk
<1> QED
  BY <1>4, <1>5

\* A step of one process: its new place is justified, the others' stay so.
LEMMA Moves ==
    ASSUME FileInv, PlacesInv, FileInv', Advances,
           NEW p \in Procs, NEW pc, NEW n, MoveTo(p, pc, n), PlaceOk(pc, n)'
    PROVE  PlacesInv'
<1>1. pc \in Places /\ n \in 0..SCHEMA_VERSION
  BY DEF PlaceOk
<1>2. /\ opener' \in [Procs -> Places] /\ at' \in [Procs -> 0..SCHEMA_VERSION]
      /\ \A q \in Procs : opener'[q] = IF q = p THEN pc ELSE opener[q]
      /\ \A q \in Procs : at'[q] = IF q = p THEN n ELSE at[q]
  BY <1>1 DEF MoveTo, PlacesInv
<1>3. ASSUME NEW q \in Procs PROVE PlaceOk(opener[q], at[q])'
  <2>1. CASE q = p
    <3>1. opener'[q] = pc /\ at'[q] = n
      BY <1>2, <2>1
    <3> QED
      BY <3>1 DEF PlaceOk
  <2>2. CASE q # p
    <3>1. PICK a, b : a = opener[q] /\ b = at[q]
      OBVIOUS
    <3>2. PlaceOk(a, b)
      BY <3>1 DEF PlacesInv
    <3>3. opener'[q] = a /\ at'[q] = b
      BY <1>2, <2>2, <3>1
    <3>4. PlaceOk(a, b)'
      BY <3>2, PlacesStay
    <3> QED
      BY <3>3, <3>4 DEF PlaceOk
  <2> QED
    BY <2>1, <2>2
<1> QED
  BY <1>2, <1>3 DEF PlacesInv

\* A step that does not touch the version advances the file.
LEMMA SameVersion ==
    ASSUME UNCHANGED found, misread => misread', db'.version = db.version,
           db'.protected = db.protected, db.objects \subseteq db'.objects
    PROVE  Advances
<1>1. db.version # NULL => db'.version # NULL
  OBVIOUS
<1>2. found' = found
  OBVIOUS
<1> QED
  BY <1>1, <1>2, Zenon DEF Advances

\* A step that leaves the file alone.
LEMMA MovesOnly ==
    ASSUME FileInv, PlacesInv, UNCHANGED <<found, db, misread>>,
           NEW p \in Procs, NEW pc, NEW n, MoveTo(p, pc, n), PlaceOk(pc, n)
    PROVE  FileInv' /\ PlacesInv'
<1>1. FileInv'
  BY MistakenStays DEF FileInv, BuiltAs
<1>2. Advances
  BY SameVersion
<1>3. PlaceOk(pc, n)'
  BY <1>1, <1>2, PlacesStay
<1> QED
  BY <1>1, <1>2, <1>3, Moves

\* The script of six statements, and what they build.
LEMMA ScriptFacts ==
    /\ Len(Script) = 6
    /\ \A i \in 1..6 : Script[i] \in Objects
    /\ \A o \in Objects : \E i \in 1..6 : Script[i] = o
    /\ Script[1] = "jobs"
    /\ \A i \in 1..6 : Script[i] \in {"idx_jobs_claimable", "idx_jobs_key"} => i > 1
<1>1. /\ Script[1] = "jobs" /\ Script[2] = "idx_jobs_claimable"
      /\ Script[3] = "idx_jobs_key" /\ Script[4] = "attempts"
      /\ Script[5] = "job_events" /\ Script[6] = "meta" /\ Len(Script) = 6
  BY DEF Script
<1>2. 1..6 = {1, 2, 3, 4, 5, 6}
  OBVIOUS
<1>3. \A i \in 1..6 : Script[i] \in Objects
  BY <1>1, <1>2 DEF Objects
<1>4. \A o \in Objects : \E i \in 1..6 : Script[i] = o
  BY <1>1, <1>2 DEF Objects
<1>5. \A i \in 1..6 : Script[i] \in {"idx_jobs_claimable", "idx_jobs_key"} => i > 1
  BY <1>1, <1>2
<1> QED
  BY <1>1, <1>3, <1>4, <1>5

\* Creating a table adds its columns; all tables have all columns.
LEMMA ScriptBuilds ==
    /\ \A objects, o : ScriptColumns(objects \cup {o}) = ScriptColumns(objects) \cup ColumnsOf(o)
    /\ ScriptColumns(Objects) = 2..SCHEMA_VERSION
    /\ \A objects : "jobs" \in objects => {3, 4} \subseteq ScriptColumns(objects)
    /\ \A o \in Objects : ColumnsOf(o) \subseteq 2..SCHEMA_VERSION
<1>1. \A objects, o : ScriptColumns(objects \cup {o}) = ScriptColumns(objects) \cup ColumnsOf(o)
  BY DEF ScriptColumns
<1>2. /\ ColumnsOf("jobs") = 2..5 /\ ColumnsOf("attempts") = {6}
      /\ ColumnsOf("idx_jobs_claimable") = {} /\ ColumnsOf("idx_jobs_key") = {}
      /\ ColumnsOf("job_events") = {} /\ ColumnsOf("meta") = {}
  BY DEF ColumnsOf
<1>3. \A o \in Objects : ColumnsOf(o) \subseteq 2..SCHEMA_VERSION
  BY <1>2 DEF Objects, SCHEMA_VERSION
<1>4. ScriptColumns(Objects) = 2..SCHEMA_VERSION
  <2>1. \A x : x \in ScriptColumns(Objects) <=> \E o \in Objects : x \in ColumnsOf(o)
    BY DEF ScriptColumns
  <2>2. \A x : (\E o \in Objects : x \in ColumnsOf(o)) <=> x \in 2..5 \cup {6}
    BY <1>2 DEF Objects
  <2>3. 2..5 \cup {6} = 2..SCHEMA_VERSION
    BY DEF SCHEMA_VERSION
  <2> QED
    BY <2>1, <2>2, <2>3
<1>5. \A objects : "jobs" \in objects => {3, 4} \subseteq ScriptColumns(objects)
  <2>1. 3 \in 2..5 /\ 4 \in 2..5
    OBVIOUS
  <2> QED
    BY <1>2, <2>1 DEF ScriptColumns
<1> QED
  BY <1>1, <1>3, <1>4, <1>5

\* connect creates the file, or finds that it is no database.
LEMMA ConnectKeeps ==
    ASSUME FileInv, PlacesInv, NEW p \in Procs, connect(p)
    PROVE  FileInv' /\ PlacesInv'
<1>1. CASE db.sqlite /\ db' = [db EXCEPT !.file = TRUE] /\ MoveTo(p, "select", 0)
  <2>1. /\ db' \in Database /\ db'.version = db.version /\ db'.objects = db.objects
        /\ db'.columns = db.columns /\ db'.protected = db.protected
        /\ db'.sqlite = db.sqlite /\ db'.dangling = db.dangling
        /\ UNCHANGED <<found, misread>>
    BY <1>1, FileFacts DEF connect, Database
  <2>2. FileInv'
    BY <2>1, MistakenStays DEF FileInv, BuiltAs, Complete
  <2>3. Advances
    BY <2>1, SameVersion
  <2>4. PlaceOk("select", 0)'
    <3>1. found'.sqlite
      BY <1>1, <2>1 DEF FileInv
    <3> QED
      BY <3>1 DEF PlaceOk, Places, SCHEMA_VERSION
  <2> QED
    BY <1>1, <2>2, <2>3, <2>4, Moves
<1>2. CASE ~db.sqlite /\ MoveTo(p, "failed", 0) /\ UNCHANGED db
  <2>1. UNCHANGED <<found, db, misread>>
    BY <1>2 DEF connect
  <2>2. Broken(found)
    BY <1>2 DEF FileInv, Broken
  <2>3. PlaceOk("failed", 0)
    BY <2>2 DEF PlaceOk, Places, OpenEnds, SCHEMA_VERSION
  <2> QED
    BY <1>2, <2>1, <2>3, MovesOnly
<1> QED
  BY <1>1, <1>2 DEF connect

\* The first SELECT sends a process to the script or to the migrations.
LEMMA SelectKeeps ==
    ASSUME FileInv, PlacesInv, NEW p \in Procs, SelectVersion(p)
    PROVE  FileInv' /\ PlacesInv'
<1>1. UNCHANGED <<found, db, misread>> /\ found.sqlite
  BY DEF SelectVersion, PlacesInv, PlaceOk
<1>2. CASE db.version = NULL
  <2>1. PlaceOk("script", 1)
    <3>1. \A i \in 1..(1 - 1) : Script[i] \in db.objects
      OBVIOUS
    <3>2. found.version = NULL
      BY <1>2 DEF FileInv
    <3> QED
      BY <1>1, <3>1, <3>2 DEF PlaceOk, Places, SCHEMA_VERSION
  <2>2. MoveTo(p, "script", 1)
    BY <1>2 DEF SelectVersion
  <2> QED
    BY <1>1, <2>1, <2>2, MovesOnly
<1>3. CASE db.version # NULL
  <2>1. PlaceOk("loop", 0)
    BY <1>1, <1>3 DEF PlaceOk, Places, SCHEMA_VERSION
  <2>2. MoveTo(p, "loop", 0)
    BY <1>3 DEF SelectVersion
  <2> QED
    BY <1>1, <2>1, <2>2, MovesOnly
<1> QED
  BY <1>2, <1>3

\* A SELECT that fails for another reason is remembered.
LEMMA SelectFailsKeeps ==
    ASSUME FileInv, PlacesInv, NEW p \in Procs, SelectFails(p)
    PROVE  FileInv' /\ PlacesInv'
<1>1. /\ UNCHANGED <<found, db>> /\ misread' = TRUE /\ MoveTo(p, "script", 1)
      /\ found.sqlite
  BY DEF SelectFails, PlacesInv, PlaceOk
<1>2. FileInv'
  BY <1>1 DEF FileInv, Mistaken
<1>3. Advances
  BY <1>1, SameVersion
<1>4. PlaceOk("script", 1)'
  BY <1>1 DEF PlaceOk, Places, SCHEMA_VERSION, Mistaken
<1> QED
  BY <1>1, <1>2, <1>3, <1>4, Moves

\* Once a statement's table is there, the next statement or the stamp.
LEMMA ScriptGoesOn ==
    ASSUME FileInv, PlacesInv, FileInv', Advances, UNCHANGED misread,
           NEW p \in Procs, opener[p] = "script", AfterScript(p),
           Script[at[p]] \in db'.objects
    PROVE  PlacesInv'
<1>1. PICK n : n = at[p]
  OBVIOUS
<1>2. n \in 1..6 /\ PlaceOk("script", n)
  BY <1>1 DEF PlacesInv, PlaceOk
<1>3. PlaceOk("script", n)'
  BY <1>2, PlacesStay
<1>4. Mistaken' \/ \A i \in 1..n : Script[i] \in db'.objects
  <2>1. \A i \in 1..n : i = n \/ i \in 1..(n - 1)
    BY <1>2
  <2> QED
    BY <1>1, <1>3, <2>1 DEF PlaceOk
<1>5. CASE n < 6
  <2>1. MoveTo(p, "script", n + 1)
    BY <1>1, <1>5, ScriptFacts DEF AfterScript
  <2>2. n + 1 \in 1..6 /\ n + 1 \in 0..SCHEMA_VERSION /\ (n + 1) - 1 = n
    BY <1>2, <1>5 DEF SCHEMA_VERSION
  <2>3. PlaceOk("script", n + 1)'
    BY <1>3, <1>4, <2>2 DEF PlaceOk
  <2> QED
    BY <2>1, <2>3, Moves
<1>6. CASE n = 6
  <2>1. MoveTo(p, "stamp", 0)
    BY <1>1, <1>6, ScriptFacts DEF AfterScript
  <2>2. Mistaken' \/ Objects \subseteq db'.objects
    BY <1>4, <1>6, ScriptFacts
  <2>3. PlaceOk("stamp", 0)'
    BY <1>3, <2>2 DEF PlaceOk, Places, SCHEMA_VERSION
  <2> QED
    BY <2>1, <2>3, Moves
<1> QED
  BY <1>2, <1>5, <1>6

\* A statement of the script adds its object and its columns, and the index
\* finds its column.
LEMMA ScriptKeeps ==
    ASSUME FileInv, PlacesInv, NEW p \in Procs, RunScript(p)
    PROVE  FileInv' /\ PlacesInv'
<1>1. PICK o : o = Script[at[p]]
  OBVIOUS
<1>2. PICK n : n = at[p]
  OBVIOUS
<1>3. /\ opener[p] = "script" /\ n \in 1..6 /\ PlaceOk("script", n)
      /\ UNCHANGED <<found, misread>>
      /\ o \in Objects
  BY <1>1, <1>2, ScriptFacts DEF RunScript, PlacesInv, PlaceOk
<1>4. CASE o \in db.objects
  <2>1. UNCHANGED db /\ AfterScript(p)
    BY <1>1, <1>4 DEF RunScript
  <2>2. FileInv' /\ Advances
    BY <1>3, <2>1, SameVersion, MistakenStays DEF FileInv, BuiltAs
  <2> QED
    BY <1>1, <1>3, <1>4, <2>1, <2>2, ScriptGoesOn
<1>5. CASE o \notin db.objects /\ Creatable(o)
  <2>1. /\ db' = [db EXCEPT !.objects = @ \cup {o}, !.columns = @ \cup ColumnsOf(o)]
        /\ AfterScript(p)
    BY <1>1, <1>5 DEF RunScript
  <2>2. /\ db.objects \cup {o} \subseteq Objects
        /\ db.columns \cup ColumnsOf(o) \subseteq 2..SCHEMA_VERSION
    BY <1>3, FileFacts, ScriptBuilds
  <2>3. /\ db' \in Database /\ db'.version = db.version /\ db'.protected = db.protected
        /\ db'.objects = db.objects \cup {o}
        /\ db'.columns = db.columns \cup ColumnsOf(o)
        /\ db'.sqlite = db.sqlite /\ db'.dangling = db.dangling
    BY <2>1, <2>2, FileFacts DEF Database
  <2>4. Mistaken \/ found.version = NULL
    BY <1>3 DEF PlaceOk
  <2>5. Mistaken \/ db.version = NULL \/ db.version = SCHEMA_VERSION
    BY <2>4 DEF FileInv
  <2>6. Mistaken \/ db.version # SCHEMA_VERSION
    <3>1. SCHEMA_VERSION \in 1..SCHEMA_VERSION /\ SCHEMA_VERSION >= 3
      BY DEF SCHEMA_VERSION
    <3>2. Mistaken \/ (db.version = SCHEMA_VERSION => Objects \subseteq db.objects)
      BY <3>1 DEF FileInv, BuiltAs, Complete, Objects
    <3> QED
      BY <1>3, <1>5, <3>2
  <2>7. Mistaken \/ db'.columns = ScriptColumns(db'.objects)
    BY <2>3, <2>4, ScriptBuilds DEF FileInv
  <2>8. NULL \notin 1..SCHEMA_VERSION /\ NULL \notin Nat
    BY NullAssumption DEF SCHEMA_VERSION
  <2>9. FileInv'
    <3>1. Mistaken' = Mistaken
      BY <1>3, MistakenStays
    <3> QED
      BY <1>3, <2>3, <2>4, <2>5, <2>6, <2>7, <2>8, <3>1 DEF FileInv
  <2>10. Advances
    BY <1>3, <2>3, SameVersion
  <2>11. Script[at[p]] \in db'.objects
    BY <1>1, <2>3
  <2> QED
    BY <1>3, <2>1, <2>9, <2>10, <2>11, ScriptGoesOn
<1>6. CASE o \notin db.objects /\ ~Creatable(o)
  <2>1. UNCHANGED db /\ MoveTo(p, "failed", 0)
    BY <1>1, <1>6 DEF RunScript
  <2>2. /\ o \in {"idx_jobs_claimable", "idx_jobs_key"}
        /\ ~({3, 4} \subseteq db.columns)
    BY <1>6 DEF Creatable
  <2>3. n > 1
    BY <1>1, <1>2, <1>3, <2>2, ScriptFacts
  <2>4. Mistaken \/ (found.version = NULL /\ "jobs" \in db.objects)
    <3>1. 1 \in 1..(n - 1)
      BY <1>3, <2>3
    <3> QED
      BY <1>3, <3>1, ScriptFacts DEF PlaceOk
  <2>5. Mistaken
    BY <2>2, <2>4, ScriptBuilds DEF FileInv
  <2>6. PlaceOk("failed", 0)
    BY <2>5 DEF PlaceOk, Places, OpenEnds, SCHEMA_VERSION
  <2> QED
    BY <1>3, <2>1, <2>6, MovesOnly
<1> QED
  BY <1>4, <1>5, <1>6

\* The stamp comes after every statement, so it tells the truth.
LEMMA StampKeeps ==
    ASSUME FileInv, PlacesInv, NEW p \in Procs, Stamp(p)
    PROVE  FileInv' /\ PlacesInv'
<1>1. PICK n : n = at[p]
  OBVIOUS
<1>2. /\ opener[p] = "stamp" /\ MoveTo(p, "open", 0)
      /\ UNCHANGED <<found, misread>>
      /\ db' = [db EXCEPT !.version = SCHEMA_VERSION]
  BY DEF Stamp
<1>3. PlaceOk("stamp", n)
  BY <1>1, <1>2 DEF PlacesInv
<1>4. SCHEMA_VERSION \in Nat /\ SCHEMA_VERSION = 6
  BY DEF SCHEMA_VERSION
<1>5. /\ db' \in Database /\ db'.version = SCHEMA_VERSION /\ db'.objects = db.objects
      /\ db'.columns = db.columns /\ db'.protected = db.protected
      /\ db'.sqlite = db.sqlite /\ db'.dangling = db.dangling
  BY <1>2, <1>4, FileFacts DEF Database
<1>6. Mistaken \/ (found.version = NULL /\ Objects \subseteq db.objects)
  BY <1>3 DEF PlaceOk
<1>12. found.sqlite /\ Mistaken' = Mistaken
  BY <1>2, <1>3, MistakenStays DEF PlaceOk
<1>7. /\ db.version \in Nat \cup {NULL} /\ NULL \notin Nat
      /\ db.objects \subseteq Objects
  BY FileFacts
<1>8. Mistaken \/ BuiltAs(SCHEMA_VERSION)'
  <2>1. Mistaken \/ db.columns = 2..SCHEMA_VERSION
    <3>1. Mistaken \/ db.objects = Objects
      BY <1>6, <1>7
    <3> QED
      BY <1>6, <3>1, ScriptBuilds DEF FileInv
  <2>2. SCHEMA_VERSION' = SCHEMA_VERSION
    BY DEF SCHEMA_VERSION
  <2>3. Mistaken \/ Complete(db', SCHEMA_VERSION)
    BY <1>4, <1>5, <1>6, <2>1 DEF Complete, Objects
  <2> QED
    BY <2>2, <2>3 DEF BuiltAs
<1>9. FileInv'
  <2>1. misread \in BOOLEAN /\ found \in Databases
    BY DEF FileInv
  <2>2. ~(db'.version > SCHEMA_VERSION) /\ db'.version # NULL
    BY <1>4, <1>5, <1>7
  <2>3. Mistaken \/ found.version \notin Nat
    BY <1>6, <1>7
  <2>4. Mistaken \/ (found.version = NULL => db'.columns = ScriptColumns(db'.objects))
    BY <1>5 DEF FileInv
  <2>5. 1..SCHEMA_VERSION \subseteq Nat
    BY <1>4
  <2>6. Mistaken \/ (db'.version \in 1..SCHEMA_VERSION => BuiltAs(db.version)')
    BY <1>5, <1>8 DEF BuiltAs
  <2> QED
    BY <1>2, <1>5, <1>12, <2>1, <2>2, <2>3, <2>4, <2>5, <2>6 DEF FileInv
<1>10. Advances
  <2>1. db.version # NULL => db'.version # NULL
    BY <1>4, <1>5, <1>7
  <2>2. Mistaken' \/ db'.version = db.version
        \/ ((db.version # NULL => db.version < db'.version) /\ db'.version <= SCHEMA_VERSION)
    <3>1. Mistaken \/ db.version = NULL \/ db.version = SCHEMA_VERSION
      BY <1>6 DEF FileInv
    <3> QED
      BY <1>4, <1>5, <1>12, <3>1
  <2>3. misread => misread'
    BY <1>2
  <2> QED
    BY <1>2, <1>5, <2>1, <2>2, <2>3, Zenon DEF Advances
<1>11. PlaceOk("open", 0)'
  BY <1>2, <1>5, <1>12 DEF PlaceOk, Places, OpenEnds, SCHEMA_VERSION
<1> QED
  BY <1>2, <1>9, <1>10, <1>11, Moves

\* The version decides where a process goes on.
LEMMA CheckKeeps ==
    ASSUME FileInv, PlacesInv, NEW p \in Procs, CheckVersion(p)
    PROVE  FileInv' /\ PlacesInv'
<1>1. UNCHANGED <<found, db, misread>>
  BY DEF CheckVersion
<1>2. /\ db.version \in Nat /\ NULL \notin Nat
      /\ found.version \in Nat \cup {NULL} /\ found.sqlite
  BY FileFacts DEF CheckVersion, PlacesInv, PlaceOk
<1>3. SCHEMA_VERSION = 6
  BY DEF SCHEMA_VERSION
<1>4. CASE db.version > SCHEMA_VERSION /\ MoveTo(p, "too_new", 0)
  <2>1. found.version # NULL /\ found.version > SCHEMA_VERSION
    BY <1>2, <1>4 DEF FileInv
  <2>2. PlaceOk("too_new", 0)
    BY <1>3, <2>1 DEF PlaceOk, Places, OpenEnds
  <2> QED
    BY <1>1, <1>4, <2>2, MovesOnly
<1>5. CASE db.version = SCHEMA_VERSION /\ MoveTo(p, "open", 0)
  <2>1. PlaceOk("open", 0)
    BY <1>2, <1>3, <1>5 DEF PlaceOk, Places, OpenEnds
  <2> QED
    BY <1>1, <1>5, <2>1, MovesOnly
<1>6. CASE db.version \in 1..(SCHEMA_VERSION - 1) /\ MoveTo(p, "migrate", db.version)
  <2>1. PICK n : n = db.version
    OBVIOUS
  <2>2. PlaceOk("migrate", n) /\ MoveTo(p, "migrate", n)
    BY <1>2, <1>3, <1>6, <2>1 DEF PlaceOk, Places
  <2> QED
    BY <1>1, <2>2, MovesOnly
<1>7. CASE db.version = 0 /\ MoveTo(p, "failed", 0)
  <2>1. Mistaken \/ found.version = 0
    <3>1. Mistaken \/ found.version # NULL
      BY <1>2, <1>3, <1>7 DEF FileInv
    <3>2. Mistaken \/ found.version \notin 1..SCHEMA_VERSION
      BY <1>2, <1>3, <1>7 DEF FileInv
    <3> QED
      BY <1>2, <1>7, <3>1, <3>2 DEF FileInv
  <2>2. PlaceOk("failed", 0)
    BY <1>3, <2>1 DEF PlaceOk, Places, OpenEnds, Broken
  <2> QED
    BY <1>1, <1>7, <2>2, MovesOnly
<1> QED
  BY <1>4, <1>5, <1>6, <1>7 DEF CheckVersion

\* A backfill counts rows and writes one reason per place.
LEMMA BackfillTypes ==
    ASSUME NEW d, d.history \in Seq(Ends)
    PROVE  BackfilledCrashes(d) \in Nat /\ BackfilledReasons(d) \in Seq(Reasons)
<1>1. Len(d.history) \in Nat /\ DOMAIN d.history = 1..Len(d.history)
  OBVIOUS
<1>2. BackfilledCrashes(d) \in Nat
  <2>1. Rows(d, "abandoned", "worker died") \in SUBSET (1..Len(d.history))
    BY <1>1 DEF Rows, AttemptRows
  <2>2. IsFiniteSet(1..Len(d.history))
    <3>1. 1 \in Int /\ Len(d.history) \in Int
      BY <1>1
    <3> QED
      BY <3>1, FS_Interval, Zenon
  <2>3. IsFiniteSet(Rows(d, "abandoned", "worker died"))
    BY <2>1, <2>2, FS_Subset
  <2> QED
    BY <2>3, FS_CardinalityType DEF BackfilledCrashes
<1>3. \A row : BackfilledReason(row) \in Reasons
  BY DEF BackfilledReason, Reasons
<1>4. NULL \in Reasons
  BY DEF Reasons
<1>5. BackfilledReasons(d) \in [1..Len(d.history) -> Reasons]
  BY <1>1, <1>3, <1>4 DEF BackfilledReasons
<1> QED
  BY <1>1, <1>2, <1>5, SeqDef

\* What a migration commits is a file of the next version.
LEMMA MigratedFile ==
    ASSUME NEW d \in Database, NEW step \in 2..6
    PROVE  /\ Migrated(d, step) \in Database
           /\ Migrated(d, step).version = step
           /\ Migrated(d, step).columns = d.columns \cup {step}
           /\ Migrated(d, step).objects =
                IF step = 3 THEN d.objects \cup {"idx_jobs_key"} ELSE d.objects
           /\ Migrated(d, step).protected = d.protected
           /\ Migrated(d, step).sqlite = d.sqlite /\ Migrated(d, step).dangling = d.dangling
           /\ Migrated(d, step).kept = d.kept /\ Migrated(d, step).history = d.history
           /\ Migrated(d, step).seq = IF step = 2 THEN RebuiltSeq(d) ELSE d.seq
           /\ Migrated(d, step).crashes = IF step = 5 THEN BackfilledCrashes(d) ELSE d.crashes
           /\ Migrated(d, step).reasons = IF step = 6 THEN BackfilledReasons(d) ELSE d.reasons
<1>1. /\ d.history \in Seq(Ends) /\ d.seq \in Nat /\ d.objects \subseteq Objects
      /\ d.columns \subseteq 2..SCHEMA_VERSION
      /\ d.crashes \in Nat \cup {NULL} /\ d.reasons \in Seq(Reasons)
  BY DEF Database
<1> DEFINE version == step
           columns == d.columns \cup {step}
           objects == IF step = 3 THEN d.objects \cup {"idx_jobs_key"} ELSE d.objects
           seq == IF step = 2 THEN RebuiltSeq(d) ELSE d.seq
           crashes == IF step = 5 THEN BackfilledCrashes(d) ELSE d.crashes
           reasons == IF step = 6 THEN BackfilledReasons(d) ELSE d.reasons
<1>2. /\ version \in Nat \cup {NULL}
      /\ columns \in SUBSET (2..SCHEMA_VERSION)
      /\ objects \in SUBSET Objects
  BY <1>1 DEF SCHEMA_VERSION, Objects
<1>3. seq \in Nat
  BY <1>1 DEF RebuiltSeq
<1>4. crashes \in Nat \cup {NULL} /\ reasons \in Seq(Reasons)
  BY <1>1, BackfillTypes
<1>5. Migrated(d, step) = [d EXCEPT !.version = version, !.columns = columns,
                                    !.objects = objects, !.seq = seq,
                                    !.crashes = crashes, !.reasons = reasons]
  BY DEF Migrated
<1> HIDE DEF version, columns, objects, seq, crashes, reasons
<1>6. /\ Migrated(d, step) \in Database
      /\ Migrated(d, step).version = version
      /\ Migrated(d, step).columns = columns /\ Migrated(d, step).objects = objects
      /\ Migrated(d, step).protected = d.protected
      /\ Migrated(d, step).sqlite = d.sqlite /\ Migrated(d, step).dangling = d.dangling
      /\ Migrated(d, step).kept = d.kept /\ Migrated(d, step).history = d.history
      /\ Migrated(d, step).seq = seq
      /\ Migrated(d, step).crashes = crashes /\ Migrated(d, step).reasons = reasons
  BY <1>2, <1>3, <1>4, <1>5 DEF Database
<1> QED
  BY <1>6 DEF version, columns, objects, seq, crashes, reasons

\* The two ends of a migration that commits.
LEMMA MigrateAdvances ==
    ASSUME FileInv, PlacesInv, NEW p \in Procs, NEW n,
           n = at[p], opener[p] = "migrate", ~AlreadyDone(n + 1),
           db' = Migrated(db, n + 1), UNCHANGED <<found, misread>>
    PROVE  FileInv' /\ Advances /\ PlaceOk("loop", 0)'
           /\ (ReferencesFail(n + 1) => PlaceOk("failed", 0)')
<1>1. n \in 1..5 /\ n + 1 \in 2..6 /\ SCHEMA_VERSION = 6 /\ PlaceOk("migrate", n)
  BY DEF PlacesInv, PlaceOk, SCHEMA_VERSION
<1>2. /\ db \in Database /\ db.version \in Nat /\ NULL \notin Nat
      /\ found.version \in Nat \cup {NULL} /\ found.sqlite
  BY <1>1, FileFacts DEF PlaceOk
<1>3. db.version < n + 1
  BY <1>1, <1>2 DEF AlreadyDone
<1>4. Mistaken \/ db.version = n
  BY <1>1, <1>2, <1>3 DEF PlaceOk
<1>5. /\ db' \in Database /\ db'.version = n + 1
      /\ db'.columns = db.columns \cup {n + 1}
      /\ db'.objects = IF n + 1 = 3 THEN db.objects \cup {"idx_jobs_key"} ELSE db.objects
      /\ db'.protected = db.protected
      /\ db'.sqlite = db.sqlite /\ db'.dangling = db.dangling
  <2>1. PICK step \in 2..6 : step = n + 1
    BY <1>1
  <2>2. PICK d \in Database : d = db
    BY <1>2
  <2>3. /\ Migrated(d, step) \in Database
        /\ Migrated(d, step).version = step
        /\ Migrated(d, step).columns = d.columns \cup {step}
        /\ Migrated(d, step).objects =
             IF step = 3 THEN d.objects \cup {"idx_jobs_key"} ELSE d.objects
        /\ Migrated(d, step).protected = d.protected
        /\ Migrated(d, step).sqlite = d.sqlite /\ Migrated(d, step).dangling = d.dangling
    <3>1. Migrated(d, step) \in Database /\ Migrated(d, step).version = step
      BY MigratedFile
    <3>2. Migrated(d, step).columns = d.columns \cup {step}
      BY MigratedFile
    <3>3. Migrated(d, step).objects =
            IF step = 3 THEN d.objects \cup {"idx_jobs_key"} ELSE d.objects
      BY MigratedFile
    <3>4. /\ Migrated(d, step).protected = d.protected
          /\ Migrated(d, step).sqlite = d.sqlite /\ Migrated(d, step).dangling = d.dangling
      BY MigratedFile
    <3> QED
      BY <3>1, <3>2, <3>3, <3>4
  <2>4. db' = Migrated(d, step)
    BY <2>1, <2>2
  <2> QED
    BY <2>1, <2>2, <2>3, <2>4
<1>6. db'.version \in 2..SCHEMA_VERSION /\ db'.version # NULL
  BY <1>1, <1>2, <1>5
<1>7. Mistaken \/ Complete(db', n + 1)
  <2>1. Mistaken \/ Complete(db, n)
    <3>1. n \in 1..SCHEMA_VERSION
      BY <1>1
    <3>2. Mistaken \/ (db.version \in 1..SCHEMA_VERSION => Complete(db, db.version))
      BY DEF FileInv, BuiltAs
    <3> QED
      BY <1>4, <3>1, <3>2
  <2>2. ASSUME Complete(db, n) PROVE Complete(db', n + 1)
    <3>1. db'.columns = 2..(n + 1)
      <4>1. db.columns = 2..n
        BY <2>2 DEF Complete
      <4>2. 2..n \cup {n + 1} = 2..(n + 1)
        BY <1>1
      <4> QED
        BY <1>5, <4>1, <4>2
    <3>2. Objects \ {"idx_jobs_key"} \subseteq db'.objects
      BY <1>5, <2>2 DEF Complete
    <3>3. "idx_jobs_key" \in db'.objects <=> n + 1 >= 3
      <4>1. "idx_jobs_key" \in db.objects <=> n >= 3
        BY <2>2 DEF Complete
      <4>2. CASE n = 2
        BY <1>5, <4>2
      <4>3. CASE n # 2
        <5>1. db'.objects = db.objects
          BY <1>1, <1>5, <4>3
        <5> QED
          BY <1>1, <4>1, <4>3, <5>1
      <4> QED
        BY <4>2, <4>3
    <3> QED
      BY <3>1, <3>2, <3>3 DEF Complete
  <2> QED
    BY <2>1, <2>2
<1>8. Mistaken \/ found.version \in 1..5
  <2>1. Mistaken \/ found.version # NULL
    BY <1>1, <1>2, <1>4 DEF FileInv
  <2> QED
    BY <1>1, <1>2, <1>4, <2>1 DEF FileInv
<1>9. FileInv'
  <2>1. ~(db'.version > SCHEMA_VERSION)
    BY <1>1, <1>6
  <2>2. Mistaken \/ found.version <= n
    BY <1>1, <1>4, <1>8 DEF FileInv
  <2>3. Mistaken \/ db'.version \in found.version..SCHEMA_VERSION
    BY <1>1, <1>5, <1>8, <2>2
  <2>4. Mistaken \/ (found.version # NULL /\ found.version \notin Nat \ 1..SCHEMA_VERSION)
    BY <1>1, <1>2, <1>8
  <2>5. Mistaken \/ BuiltAs(db.version)'
    BY <1>5, <1>7 DEF BuiltAs
  <2>6. misread \in BOOLEAN /\ found \in Databases
    BY DEF FileInv
  <2>7. Mistaken' = Mistaken
    BY MistakenStays
  <2> QED
    BY <1>2, <1>5, <1>6, <2>1, <2>3, <2>4, <2>5, <2>6, <2>7 DEF FileInv
<1>10. Advances
  <2>1. db.version < db'.version /\ db'.version <= SCHEMA_VERSION
    BY <1>1, <1>2, <1>3, <1>5
  <2>2. db.objects \subseteq db'.objects
    BY <1>5
  <2>3. found' = found /\ (misread => misread')
    OBVIOUS
  <2> QED
    BY <1>5, <1>6, <2>1, <2>2, <2>3, Zenon DEF Advances
<1>11. PlaceOk("loop", 0)'
  BY <1>1, <1>2, <1>6 DEF PlaceOk, Places
<1>12. ReferencesFail(n + 1) => PlaceOk("failed", 0)'
  <2>1. ReferencesFail(n + 1) => Broken(found)'
    BY DEF ReferencesFail, Broken, FileInv
  <2> QED
    BY <1>1, <2>1 DEF PlaceOk, Places, OpenEnds
<1> QED
  BY <1>9, <1>10, <1>11, <1>12

\* A migration commits the next version or finds it done; it clashes with no
\* column, because the version told the truth.
LEMMA MigrateKeeps ==
    ASSUME FileInv, PlacesInv, NEW p \in Procs, migrate(p)
    PROVE  FileInv' /\ PlacesInv'
<1>1. PICK n : n = at[p]
  OBVIOUS
<1> DEFINE clash == IF n + 1 = 2 THEN db.columns # {} ELSE n + 1 \in db.columns
<1>2. opener[p] = "migrate" /\ UNCHANGED <<found, misread>>
  BY DEF migrate
<1>3. n \in 1..5 /\ SCHEMA_VERSION = 6 /\ PlaceOk("migrate", n)
  BY <1>1, <1>2 DEF PlacesInv, PlaceOk, SCHEMA_VERSION
<1>7. found.sqlite
  BY <1>3 DEF PlaceOk
<1>4. CASE AlreadyDone(n + 1) /\ MoveTo(p, "loop", 0) /\ UNCHANGED db
  <2>1. PlaceOk("loop", 0)
    BY <1>3, <1>7 DEF PlaceOk, Places
  <2> QED
    BY <1>2, <1>4, <2>1, MovesOnly
<1>5. CASE /\ ~AlreadyDone(n + 1) /\ db' = Migrated(db, n + 1)
           /\ MoveTo(p, IF ReferencesFail(n + 1) THEN "failed" ELSE "loop", 0)
  <2>1. /\ FileInv' /\ Advances /\ PlaceOk("loop", 0)'
        /\ ReferencesFail(n + 1) => PlaceOk("failed", 0)'
    BY <1>1, <1>2, <1>5, MigrateAdvances
  <2>2. CASE ReferencesFail(n + 1)
    BY <1>5, <2>1, <2>2, Moves
  <2>3. CASE ~ReferencesFail(n + 1)
    BY <1>5, <2>1, <2>3, Moves
  <2> QED
    BY <2>2, <2>3
<1>6. CASE ~AlreadyDone(n + 1) /\ clash /\ MoveTo(p, "failed", 0) /\ UNCHANGED db
  <2>1. db.version \in Nat
    BY <1>3, FileFacts DEF PlaceOk
  <2>2. Mistaken \/ db.version = n
    BY <1>3, <1>6, <2>1 DEF PlaceOk, AlreadyDone
  <2>3. Mistaken \/ db.columns = 2..n
    BY <1>3, <2>2 DEF FileInv, BuiltAs, Complete
  <2>4. Mistaken
    BY <1>3, <1>6, <2>3
  <2>5. PlaceOk("failed", 0)
    BY <1>3, <2>4 DEF PlaceOk, Places, OpenEnds
  <2> QED
    BY <1>2, <1>6, <2>5, MovesOnly
<1> QED
  BY <1>1, <1>4, <1>5, <1>6 DEF migrate

\* Giving up and dying leave the file as it is.
LEMMA GivingUpKeeps ==
    ASSUME FileInv, PlacesInv, NEW p \in Procs, Busy(p) \/ Readonly(p) \/ Die(p)
    PROVE  FileInv' /\ PlacesInv'
<1>1. UNCHANGED <<found, db, misread>>
  BY DEF Busy, Readonly, Die
<1>2. PlaceOk("locked", 0) /\ PlaceOk("dead", 0) /\ (db.protected => PlaceOk("refused", 0))
  BY DEF PlaceOk, Places, OpenEnds, SCHEMA_VERSION
<1>3. \/ MoveTo(p, "locked", 0) \/ MoveTo(p, "dead", 0)
      \/ db.protected /\ MoveTo(p, "refused", 0)
  BY DEF Busy, Readonly, Die
<1> QED
  BY <1>1, <1>2, <1>3, MovesOnly

\* Every step of connect keeps the file and the processes in order.
LEMMA OpenKeeps ==
    ASSUME FileInv, PlacesInv, NEW p \in Procs, OpenStep(p) \/ OpenFault(p)
    PROVE  FileInv' /\ PlacesInv'
  BY ConnectKeeps, SelectKeeps, SelectFailsKeeps, ScriptKeeps, StampKeeps, CheckKeeps,
     MigrateKeeps, GivingUpKeeps
  DEF OpenStep, OpenFault

\* Steps of the commands that are not steps of connect start it or leave its
\* state alone.
LEMMA SchemaView ==
    ASSUME NEW p \in Procs, Step(p) \/ Fault(p)
    PROVE  \/ UNCHANGED schemaVars
           \/ opener[p] = "idle" /\ MoveTo(p, "connect", 0) /\ UNCHANGED <<found, db, misread>>
           \/ OpenStep(p) \/ OpenFault(p)
<1>1. OpenDb(p) =>
        \/ UNCHANGED schemaVars
        \/ opener[p] = "idle" /\ MoveTo(p, "connect", 0) /\ UNCHANGED <<found, db, misread>>
  BY DEF OpenDb, schemaVars
<1>2. Opening(p) \/ OpeningFails(p) => OpenStep(p) \/ OpenFault(p)
  BY DEF Opening, OpeningFails
<1>3. Parse(p) \/ Resolve(p) \/ config_show(p) \/ config_validate(p) \/ OpenFailed(p)
      \/ Run(p) \/ DoctorFiles(p) \/ DoctorVersion(p) \/ RunBusy(p) \/ LoopEnds(p)
      \/ DoctorBusy(p) \/ Unexpected(p)
      => UNCHANGED schemaVars
  BY DEF Parse, Resolve, config_show, config_validate, OpenFailed, Serve, Run, LoopEnds,
         DoctorFiles, DoctorVersion, RunBusy, DoctorBusy, Unexpected
<1> QED
  BY <1>1, <1>2, <1>3 DEF Step, Fault

\* FileInv and PlacesInv hold in every state of every run of commands.
LEMMA FileIsSound == CliSpec => [](FileInv /\ PlacesInv)
<1>1. Init => FileInv /\ PlacesInv
  <2> SUFFICES ASSUME Init PROVE FileInv /\ PlacesInv
    OBVIOUS
  <2>1. /\ db \in Databases /\ found = db /\ misread = FALSE
        /\ opener = [p \in Procs |-> "idle"] /\ at = [p \in Procs |-> 0]
    BY DEF Init, SchemaInit
  <2>2. db \in Database
    BY <2>1, DatabasesAssumption
  <2>3. db.version \in Nat \cup {NULL} /\ NULL \notin Nat
    BY <2>2, NullAssumption DEF Database
  <2>7. /\ db.version = NULL => Mistaken \/ db.columns = ScriptColumns(db.objects)
        /\ db.version \in 1..SCHEMA_VERSION => BuiltAs(db.version)
        /\ ~db.sqlite => db.version = NULL
    BY <2>1, FoundAssumption DEF BuiltAs, Mistaken, Leftover
  <2>8. db.version \in 1..SCHEMA_VERSION => db.version \in db.version..SCHEMA_VERSION
    BY DEF SCHEMA_VERSION
  <2>4. FileInv
    BY <2>1, <2>2, <2>7, <2>8 DEF FileInv
  <2>5. PlaceOk("idle", 0)
    BY DEF PlaceOk, Places, SCHEMA_VERSION
  <2>6. PlacesInv
    BY <2>1, <2>5 DEF PlacesInv, Places, SCHEMA_VERSION
  <2> QED
    BY <2>4, <2>6
<1>2. FileInv /\ PlacesInv /\ [Next]_vars => FileInv' /\ PlacesInv'
  <2> SUFFICES ASSUME FileInv, PlacesInv, [Next]_vars PROVE FileInv' /\ PlacesInv'
    OBVIOUS
  <2>1. CASE UNCHANGED schemaVars
    BY <2>1, MistakenStays DEF schemaVars, FileInv, PlacesInv, BuiltAs, PlaceOk
  <2>2. ASSUME NEW p \in Procs, Step(p) \/ Fault(p) PROVE FileInv' /\ PlacesInv'
    <3>1. PlaceOk("connect", 0)
      BY DEF PlaceOk, Places, SCHEMA_VERSION
    <3> QED
      BY <2>1, <2>2, <3>1, SchemaView, OpenKeeps, MovesOnly
  <2> QED
    BY <2>1, <2>2 DEF Next, vars
<1> QED
  BY <1>1, <1>2, PTL DEF CliSpec

\* Whoever opens the file, in whatever order and dying wherever they like:
\* the version in meta never promises more or less than the tables hold,
\* and losing the race to create or migrate is no error (_ensure_schema).
THEOREM VersionTellsTheTruth == CliSpec => []SchemaInv
<1>1. FileInv /\ PlacesInv => SchemaInv
  <2> SUFFICES ASSUME FileInv, PlacesInv PROVE SchemaInv
    OBVIOUS
  <2>1. SchemaTypeOK
    BY DEF FileInv, PlacesInv, SchemaTypeOK, Places
  <2>2. StampedAsBuilt
    BY DEF FileInv, PlacesInv, PlaceOk, StampedAsBuilt
  <2>3. LosersCarryOn
    BY DEF FileInv, PlacesInv, PlaceOk, LosersCarryOn
  <2> QED
    BY <2>1, <2>2, <2>3 DEF SchemaInv
<1> QED
  BY <1>1, FileIsSound, PTL
-----------------------------------------------------------------------------
(* The queue in the file                                                   *)

\* What the migrations made of the queue that was found.
QueueInv ==
    /\ db.seq >= found.seq
    /\ db.kept = found.kept /\ db.history = found.history
    /\ found.version \in 1..4 /\ db.crashes # NULL => db.crashes = BackfilledCrashes(db)
    /\ found.version \in 1..5 /\ db.version = 6 /\ ~misread =>
         db.reasons = BackfilledReasons(db)

\* The backfills look at the attempts of the job and at nothing else.
LEMMA BackfillsAgree ==
    ASSUME NEW d, NEW e, d.kept = e.kept, d.history = e.history
    PROVE  /\ BackfilledCrashes(d) = BackfilledCrashes(e)
           /\ BackfilledReasons(d) = BackfilledReasons(e)
  BY DEF BackfilledCrashes, BackfilledReasons, Rows, AttemptRows

\* What a step of connect does to the queue in the file: nothing, or what a
\* migration does.
QueueStays ==
    /\ db'.seq = db.seq /\ db'.kept = db.kept /\ db'.history = db.history
    /\ db'.crashes = db.crashes /\ db'.reasons = db.reasons
    /\ \/ db'.version = db.version
       \/ db'.version = SCHEMA_VERSION /\ (misread' \/ found.version = NULL)

LEMMA QueueSteps ==
    ASSUME FileInv, PlacesInv, NEW p \in Procs, OpenStep(p) \/ OpenFault(p)
    PROVE  /\ found' = found /\ (misread => misread') /\ db'.protected = db.protected
           /\ \/ QueueStays
              \/ \E step \in 2..6 : ~AlreadyDone(step) /\ db' = Migrated(db, step)
                                    /\ misread' = misread
<1>1. db \in Database
  BY DEF FileInv
<1>2. CASE UNCHANGED db /\ found' = found /\ (misread => misread')
  BY <1>2 DEF QueueStays
<1>3. CASE connect(p)
  BY <1>1, <1>3 DEF connect, Database, QueueStays
<1>4. CASE RunScript(p)
  <2>1. found' = found /\ misread' = misread
    BY <1>4 DEF RunScript
  <2>2. UNCHANGED db \/ \E o, c : db' = [db EXCEPT !.objects = o, !.columns = c]
    BY <1>4 DEF RunScript
  <2>3. QueueStays /\ db'.protected = db.protected
    BY <1>1, <2>2 DEF Database, QueueStays
  <2> QED
    BY <2>1, <2>3
<1>5. CASE Stamp(p)
  <2>1. found' = found /\ misread' = misread /\ db' = [db EXCEPT !.version = SCHEMA_VERSION]
    BY <1>5 DEF Stamp
  <2>2. PlaceOk("stamp", at[p])
    BY <1>5 DEF Stamp, PlacesInv
  <2>3. misread \/ found.version = NULL
    BY <2>2 DEF PlaceOk, Mistaken, Leftover
  <2>4. QueueStays /\ db'.protected = db.protected
    BY <1>1, <2>1, <2>3 DEF Database, QueueStays
  <2> QED
    BY <2>1, <2>4
<1>6. CASE migrate(p)
  <2>1. found' = found /\ misread' = misread
    BY <1>6 DEF migrate
  <2>2. UNCHANGED db \/ (~AlreadyDone(at[p] + 1) /\ db' = Migrated(db, at[p] + 1))
    BY <1>6 DEF migrate
  <2>3. PlaceOk("migrate", at[p])
    BY <1>6 DEF migrate, PlacesInv
  <2>4. at[p] + 1 \in 2..6
    BY <2>3 DEF PlaceOk
  <2>5. ASSUME NEW step \in 2..6, db' = Migrated(db, step) PROVE db'.protected = db.protected
    <3>1. PICK d \in Database : d = db
      BY <1>1
    <3>2. Migrated(d, step).protected = d.protected
      BY MigratedFile
    <3> QED
      BY <2>5, <3>1, <3>2
  <2> QED
    BY <1>2, <2>1, <2>2, <2>4, <2>5
<1>7. CASE SelectVersion(p) \/ CheckVersion(p) \/ Readonly(p) \/ SelectFails(p) \/ Busy(p) \/ Die(p)
  <2>1. UNCHANGED db /\ found' = found
    BY <1>7 DEF SelectVersion, CheckVersion, Readonly, SelectFails, Busy, Die
  <2>2. misread' = misread \/ misread'
    BY <1>7 DEF SelectVersion, CheckVersion, Readonly, SelectFails, Busy, Die
  <2> QED
    BY <1>2, <2>1, <2>2
<1> QED
  BY <1>3, <1>4, <1>5, <1>6, <1>7 DEF OpenStep, OpenFault

\* A migration keeps the queue, and backfills what its columns need.
LEMMA QueueMigrates ==
    ASSUME FileInv, QueueInv, NEW step \in 2..6,
           ~AlreadyDone(step), db' = Migrated(db, step), found' = found, misread' = misread
    PROVE  QueueInv'
<1>1. PICK d \in Database : d = db
  BY DEF FileInv
<1>2. PICK e : e = db'
  OBVIOUS
<1>3. e = Migrated(d, step)
  BY <1>1, <1>2
<1>4. e.version = step
  BY <1>3, MigratedFile
<1>5. e.kept = d.kept /\ e.history = d.history
  BY <1>3, MigratedFile
<1>6. e.seq >= d.seq
  <2>1. e.seq = IF step = 2 THEN RebuiltSeq(d) ELSE d.seq
    BY <1>3, MigratedFile
  <2>2. d.seq \in Nat
    BY DEF Database
  <2> QED
    BY <2>1, <2>2 DEF RebuiltSeq
<1>7. e.crashes = IF step = 5 THEN BackfilledCrashes(d) ELSE d.crashes
  BY <1>3, MigratedFile
<1>8. e.reasons = IF step = 6 THEN BackfilledReasons(d) ELSE d.reasons
  BY <1>3, MigratedFile
<1>9. BackfilledCrashes(e) = BackfilledCrashes(d) /\ BackfilledReasons(e) = BackfilledReasons(d)
  BY <1>5, BackfillsAgree
<1>10. e.seq >= found.seq
  <2>1. d.seq >= found.seq
    BY <1>1 DEF QueueInv
  <2>2. d.seq \in Nat /\ found.seq \in Nat
    BY <1>1, FileFacts
  <2>3. e.seq \in Nat
    BY <1>3, MigratedFile DEF Database
  <2> QED
    BY <1>6, <2>1, <2>2, <2>3
<1>11. found.version \in 1..4 /\ e.crashes # NULL => e.crashes = BackfilledCrashes(e)
  BY <1>1, <1>7, <1>9 DEF QueueInv
<1>12. found.version \in 1..5 /\ e.version = 6 => e.reasons = BackfilledReasons(e)
  BY <1>4, <1>8, <1>9
<1>13. e.kept = found.kept /\ e.history = found.history
  BY <1>1, <1>5 DEF QueueInv
<1> QED
  BY <1>2, <1>10, <1>11, <1>12, <1>13 DEF QueueInv

\* QueueInv holds in every state.
LEMMA QueueIsKept == CliSpec => []QueueInv
<1>1. Init => QueueInv
  <2> SUFFICES ASSUME Init PROVE QueueInv
    OBVIOUS
  <2>1. found = db /\ db \in Databases
    BY DEF Init, SchemaInit
  <2>2. db.seq \in Nat
    BY <2>1, DatabasesAssumption DEF Database
  <2>3. found.version \in 1..4 => db.crashes = NULL
    BY <2>1, FoundAssumption
  <2>4. db.version = 6 => found.version \notin 1..5
    BY <2>1
  <2> QED
    BY <2>1, <2>2, <2>3, <2>4 DEF QueueInv
<1>2. FileInv /\ PlacesInv /\ QueueInv /\ [Next]_vars => QueueInv'
  <2> SUFFICES ASSUME FileInv, PlacesInv, QueueInv, [Next]_vars PROVE QueueInv'
    OBVIOUS
  <2>1. CASE found' = found /\ (misread => misread') /\ QueueStays
    <3>1. PICK d, e : d = db /\ e = db'
      OBVIOUS
    <3>2. /\ e.seq = d.seq /\ e.kept = d.kept /\ e.history = d.history
          /\ e.crashes = d.crashes /\ e.reasons = d.reasons
          /\ e.version = d.version \/ misread' \/ found.version = NULL
      BY <2>1, <3>1 DEF QueueStays
    <3>3. BackfilledCrashes(e) = BackfilledCrashes(d) /\ BackfilledReasons(e) = BackfilledReasons(d)
      BY <3>2, BackfillsAgree
    <3>4. found.version = NULL => found.version \notin 1..5
      BY NullAssumption
    <3>5. found.version \in 1..5 /\ e.version = 6 /\ ~misread' =>
            e.reasons = BackfilledReasons(e)
      BY <2>1, <3>1, <3>2, <3>3, <3>4 DEF QueueInv
    <3> QED
      BY <2>1, <3>1, <3>2, <3>3, <3>5 DEF QueueInv
  <2>2. CASE UNCHANGED <<found, db, misread>>
    BY <2>1, <2>2 DEF QueueStays
  <2>3. ASSUME NEW p \in Procs, OpenStep(p) \/ OpenFault(p) PROVE QueueInv'
    BY <2>1, <2>3, QueueSteps, QueueMigrates
  <2> QED
    BY <2>2, <2>3, SchemaView DEF Next, vars, schemaVars
<1> QED
  BY <1>1, <1>2, FileIsSound, PTL DEF CliSpec

\* A queue that an older spoolctl left goes on where it stopped, however many
\* processes migrate it and wherever they die: no id is given out again, and
\* the reasons and crash counters the backfills write are those today's code
\* would have recorded (_migrate_v4_to_v5 and _migrate_v5_to_v6).
THEOREM QueueSurvivesMigration == CliSpec => []MigrationKeepsTheQueue
<1>1. FileInv /\ QueueInv => MigrationKeepsTheQueue
  <2> SUFFICES ASSUME FileInv, QueueInv PROVE MigrationKeepsTheQueue
    OBVIOUS
  <2>1. PICK d \in Database : d = db
    BY DEF FileInv
  <2>2. PICK h \in Seq(Ends) : h = d.history
    BY DEF Database
  <2>3. \A i \in DOMAIN h : h[i] \in Ends
    BY <2>2
  <2>4. ASSUME d.kept, d.crashes = BackfilledCrashes(d), ~CrashThenRetry(h)
        PROVE  d.crashes = CrashesSince(h)
    <3>1. Rows(d, "abandoned", "worker died") = {i \in DOMAIN h : h[i] = "reaped"}
      <4>1. DOMAIN AttemptRows(d) = {i \in DOMAIN h : h[i] # "retried"}
        BY <2>2, <2>4 DEF AttemptRows
      <4>2. \A i \in DOMAIN AttemptRows(d) : AttemptRows(d)[i] = AttemptRow(h[i])
        BY <2>2, <2>4 DEF AttemptRows
      <4>3. \A i \in DOMAIN h : h[i] = "reaped" <=>
                AttemptRow(h[i]) = [state |-> "abandoned", error |-> "worker died"]
        BY <2>3, NullAssumption DEF AttemptRow, Ends
      <4> QED
        BY <4>1, <4>2, <4>3 DEF Rows
    <3>2. {i \in SinceRetry(h) : h[i] = "reaped"} = {i \in DOMAIN h : h[i] = "reaped"}
      <4>1. ASSUME NEW i \in DOMAIN h, h[i] = "reaped", NEW k \in DOMAIN h,
                   h[k] \in {"retried", "forced"}
            PROVE  k < i
        <5>1. i \in Nat /\ k \in Nat /\ ~(i < k)
          BY <2>4, <4>1 DEF CrashThenRetry
        <5>2. i # k
          BY <4>1
        <5> QED
          BY <5>1, <5>2
      <4> QED
        BY <4>1 DEF SinceRetry
    <3> QED
      BY <2>4, <3>1, <3>2 DEF BackfilledCrashes, CrashesSince
  <2>5. ASSUME d.kept, d.reasons = BackfilledReasons(d)
        PROVE  d.reasons = [i \in DOMAIN h |-> ReasonOf(h[i])]
    <3>1. ASSUME NEW i \in DOMAIN h
          PROVE  (IF i \in DOMAIN AttemptRows(d) THEN BackfilledReason(AttemptRows(d)[i]) ELSE NULL)
                    = ReasonOf(h[i])
      <4>1. CASE h[i] = "retried"
        <5>1. i \notin DOMAIN AttemptRows(d)
          BY <2>2, <4>1 DEF AttemptRows
        <5>2. ReasonOf(h[i]) = NULL
          BY <4>1 DEF ReasonOf
        <5> QED
          BY <5>1, <5>2
      <4>2. CASE h[i] # "retried"
        <5>1. i \in DOMAIN AttemptRows(d) /\ AttemptRows(d)[i] = AttemptRow(h[i])
          BY <2>2, <2>5, <4>2 DEF AttemptRows
        <5>2. h[i] \in Ends
          BY <2>3
        <5>3. BackfilledReason(AttemptRow(h[i])) = ReasonOf(h[i])
          BY <4>2, <5>2, NullAssumption DEF Ends, AttemptRow, BackfilledReason, ReasonOf
        <5> QED
          BY <5>1, <5>3
      <4> QED
        BY <4>1, <4>2
    <3> QED
      BY <2>2, <2>5, <3>1 DEF BackfilledReasons
  <2> QED
    BY <2>1, <2>2, <2>4, <2>5 DEF QueueInv, MigrationKeepsTheQueue
<1> QED
  BY <1>1, FileIsSound, QueueIsKept, PTL

-----------------------------------------------------------------------------
(* Command lines                                                           *)

\* A set of naturals that is not empty has a minimum.
LEMMA MinIsIn ==
    ASSUME NEW T, T \subseteq Nat, T # {}
    PROVE  Min(T) \in T
<1>1. PICK x \in T : \A y \in T : ~(<<y, x>> \in OpToRel(<, Nat))
  BY WFMin, NatLessThanWellFounded, Zenon
<1>2. \A y \in T : ~(y < x)
  BY <1>1 DEF OpToRel
<1>3. \A y \in T : x <= y
  BY <1>2
<1> QED
  BY <1>3 DEF Min

\* What a handler refuses a line with.
Refusals ==
    {CliError("INVALID_INPUT"), CliError("MISSING_REQUIRED"),
     CliErrorWith("SAFETY_BLOCK", EXIT_SAFETY), Internal}

\* A list of checks answers with one of its errors, or with none because all
\* of them are satisfied.
LEMMA ChecksDecide ==
    ASSUME NEW checks, DOMAIN checks \subseteq Nat,
           \A i \in DOMAIN checks : checks[i].error \in Refusals
    PROVE  /\ FirstFailure(checks) \in Refusals \cup {Accepted}
           /\ FirstFailure(checks) = Accepted => \A i \in DOMAIN checks : checks[i].ok
<1> DEFINE failed == {i \in DOMAIN checks : ~checks[i].ok}
<1>1. CASE failed = {}
  BY <1>1 DEF FirstFailure
<1>2. CASE failed # {}
  <2>1. Min(failed) \in failed
    BY <1>2, MinIsIn
  <2>2. FirstFailure(checks) = checks[Min(failed)].error
    BY <1>2 DEF FirstFailure
  <2>3. Accepted \notin Refusals
    BY DEF Accepted, Refusals, Internal, CliError, CliErrorWith
  <2> QED
    BY <2>1, <2>2, <2>3
<1> QED
  BY <1>1, <1>2

\* What add accepts has bounds the queue can keep, and a delay or a moment
\* it understands (cmd_add).
LEMMA AddChecks ==
    ASSUME NEW a
    PROVE  /\ cmd_add(a) \in Refusals \cup {Accepted}
           /\ cmd_add(a) = Accepted =>
                /\ parse_int_bound(a.timeout, 1, SQLITE_INT64_MAX)
                /\ parse_int_bound(a.max_retries, 0, SQLITE_INT64_MAX)
                /\ OptionalInt(a.max_crashes, 0, SQLITE_INT64_MAX)
                /\ ~(a.after # NULL /\ a.moment # NULL)
                /\ a.after # NULL => parse_duration_seconds(a.after)
                /\ a.moment # NULL => parse_at(a.moment)
<1> DEFINE checks == <<
        Invalid(~(a.shell_string # NULL /\ a.argv # "none")),
        Unless(a.shell_string # "blank", CliError("MISSING_REQUIRED")),
        Invalid(a.argv # "flag_like"),
        Unless(a.shell_string # NULL \/ a.argv # "none", CliError("MISSING_REQUIRED")),
        Invalid(parse_int_bound(a.timeout, 1, SQLITE_INT64_MAX)),
        Invalid(parse_int_bound(a.max_retries, 0, SQLITE_INT64_MAX)),
        Invalid(OptionalInt(a.max_crashes, 0, SQLITE_INT64_MAX)),
        Invalid(~(a.after # NULL /\ a.moment # NULL)),
        Invalid(parse_priority(a.priority)),
        Invalid(parse_queue(a.queue)),
        Invalid(normalize_key(a.key)),
        Invalid(parse_add_tags(a.tag)),
        Invalid(parse_job_cwd(a.cwd)),
        Invalid(parse_job_env(a.env)),
        Invalid(a.note # "long"),
        Invalid(a.after # NULL => parse_duration_seconds(a.after)),
        Unless(a.moment # NULL => ~parse_at_raises(a.moment), Internal),
        Invalid(a.moment # NULL => parse_at(a.moment))>>
<1>1. DOMAIN checks = 1..18
  OBVIOUS
<1>2. \A i \in DOMAIN checks : checks[i].error \in Refusals
  BY <1>1 DEF Invalid, Unless, Refusals
<1>3. cmd_add(a) = FirstFailure(checks)
  BY DEF cmd_add
<1>4. /\ checks[5].ok <=> parse_int_bound(a.timeout, 1, SQLITE_INT64_MAX)
      /\ checks[6].ok <=> parse_int_bound(a.max_retries, 0, SQLITE_INT64_MAX)
      /\ checks[7].ok <=> OptionalInt(a.max_crashes, 0, SQLITE_INT64_MAX)
      /\ checks[8].ok <=> ~(a.after # NULL /\ a.moment # NULL)
      /\ checks[16].ok <=> (a.after # NULL => parse_duration_seconds(a.after))
      /\ checks[18].ok <=> (a.moment # NULL => parse_at(a.moment))
  BY DEF Invalid, Unless
<1> HIDE DEF checks
<1>5. /\ FirstFailure(checks) \in Refusals \cup {Accepted}
      /\ FirstFailure(checks) = Accepted => \A i \in 1..18 : checks[i].ok
  BY <1>1, <1>2, ChecksDecide
<1> QED
  BY <1>3, <1>4, <1>5

\* work runs a positive number of slots, and not both --drain and --once.
LEMMA WorkChecks ==
    ASSUME NEW a
    PROVE  /\ cmd_work(a) \in Refusals \cup {Accepted}
           /\ cmd_work(a) = Accepted =>
                /\ ~(a.drain /\ a.once)
                /\ OptionalInt(a.slots, 1, SQLITE_INT64_MAX)
<1> DEFINE checks == <<
        Invalid(OptionalFloat(a.heartbeat_variable, MAX_WAIT_SECONDS)),
        Invalid(OptionalFloat(a.reap_variable, MAX_WAIT_SECONDS)),
        Invalid(OptionalFloat(a.poll_interval, MAX_POLL_INTERVAL_SECONDS)),
        Invalid(~(a.drain /\ a.once)),
        Invalid(parse_queue(a.queue)),
        Invalid(OptionalInt(a.slots, 1, SQLITE_INT64_MAX)),
        Invalid(parse_worker_id(a.worker_id))>>
<1>1. DOMAIN checks = 1..7
  OBVIOUS
<1>2. \A i \in DOMAIN checks : checks[i].error \in Refusals
  BY <1>1 DEF Invalid, Unless, Refusals
<1>3. cmd_work(a) = FirstFailure(checks)
  BY DEF cmd_work
<1>4. /\ checks[4].ok <=> ~(a.drain /\ a.once)
      /\ checks[6].ok <=> OptionalInt(a.slots, 1, SQLITE_INT64_MAX)
  BY DEF Invalid, Unless
<1> HIDE DEF checks
<1>5. /\ FirstFailure(checks) \in Refusals \cup {Accepted}
      /\ FirstFailure(checks) = Accepted => \A i \in 1..7 : checks[i].ok
  BY <1>1, <1>2, ChecksDecide
<1> QED
  BY <1>3, <1>4, <1>5

\* list refuses a line or accepts it.
LEMMA ListChecks ==
    ASSUME NEW a
    PROVE  cmd_list(a) \in Refusals \cup {Accepted}
<1> DEFINE checks == <<
        Invalid(parse_states(a.state)),
        Invalid(parse_list_tags(a.tag)),
        Invalid(a.queue # NULL => parse_queue(a.queue)),
        Invalid(a.priority_min # NULL => parse_priority(a.priority_min)),
        Invalid(parse_int_bound(a.limit, 0, LIST_LIMIT_MAX))>>
<1>1. DOMAIN checks = 1..5
  OBVIOUS
<1>2. \A i \in DOMAIN checks : checks[i].error \in Refusals
  BY <1>1 DEF Invalid, Unless, Refusals
<1>3. cmd_list(a) = FirstFailure(checks)
  BY DEF cmd_list
<1> HIDE DEF checks
<1>4. /\ FirstFailure(checks) \in Refusals \cup {Accepted}
      /\ FirstFailure(checks) = Accepted => \A i \in 1..5 : checks[i].ok
  BY <1>1, <1>2, ChecksDecide
<1> QED
  BY <1>3, <1>4

\* status refuses a line or accepts it.
LEMMA StatusChecks ==
    ASSUME NEW a
    PROVE  cmd_status(a) \in Refusals \cup {Accepted}
<1> DEFINE checks == <<
        Invalid(parse_int_bound(a.limit, 0, STATUS_LIMIT_MAX))>>
<1>1. DOMAIN checks = 1..1
  OBVIOUS
<1>2. \A i \in DOMAIN checks : checks[i].error \in Refusals
  BY <1>1 DEF Invalid, Unless, Refusals
<1>3. cmd_status(a) = FirstFailure(checks)
  BY DEF cmd_status
<1> HIDE DEF checks
<1>4. /\ FirstFailure(checks) \in Refusals \cup {Accepted}
      /\ FirstFailure(checks) = Accepted => \A i \in 1..1 : checks[i].ok
  BY <1>1, <1>2, ChecksDecide
<1> QED
  BY <1>3, <1>4

\* show and retry name a job.
LEMMA ShowChecks ==
    ASSUME NEW a
    PROVE  /\ cmd_show(a) \in Refusals \cup {Accepted}
           /\ cmd_show(a) = Accepted =>
                /\ job_id_arg(a.id)
<1> DEFINE checks == <<
        Invalid(job_id_arg(a.id))>>
<1>1. DOMAIN checks = 1..1
  OBVIOUS
<1>2. \A i \in DOMAIN checks : checks[i].error \in Refusals
  BY <1>1 DEF Invalid, Unless, Refusals
<1>3. cmd_show(a) = FirstFailure(checks)
  BY DEF cmd_show
<1>4. /\ checks[1].ok <=> job_id_arg(a.id)
  BY DEF Invalid, Unless
<1> HIDE DEF checks
<1>5. /\ FirstFailure(checks) \in Refusals \cup {Accepted}
      /\ FirstFailure(checks) = Accepted => \A i \in 1..1 : checks[i].ok
  BY <1>1, <1>2, ChecksDecide
<1> QED
  BY <1>3, <1>4, <1>5

\* wait polls with a positive interval.
LEMMA WaitChecks ==
    ASSUME NEW a
    PROVE  /\ cmd_wait(a) \in Refusals \cup {Accepted}
           /\ cmd_wait(a) = Accepted =>
                /\ parse_positive_float(a.poll_interval, MAX_POLL_INTERVAL_SECONDS)
<1> DEFINE checks == <<
        Invalid(\A i \in DOMAIN a.ids : job_id_arg(a.ids[i])),
        Invalid(OptionalFloat(a.timeout, MAX_WAIT_SECONDS)),
        Invalid(parse_positive_float(a.poll_interval, MAX_POLL_INTERVAL_SECONDS))>>
<1>1. DOMAIN checks = 1..3
  OBVIOUS
<1>2. \A i \in DOMAIN checks : checks[i].error \in Refusals
  BY <1>1 DEF Invalid, Unless, Refusals
<1>3. cmd_wait(a) = FirstFailure(checks)
  BY DEF cmd_wait
<1>4. /\ checks[3].ok <=> parse_positive_float(a.poll_interval, MAX_POLL_INTERVAL_SECONDS)
  BY DEF Invalid, Unless
<1> HIDE DEF checks
<1>5. /\ FirstFailure(checks) \in Refusals \cup {Accepted}
      /\ FirstFailure(checks) = Accepted => \A i \in 1..3 : checks[i].ok
  BY <1>1, <1>2, ChecksDecide
<1> QED
  BY <1>3, <1>4, <1>5

\* cancel --running is confirmed.
LEMMA CancelChecks ==
    ASSUME NEW a
    PROVE  /\ cmd_cancel(a) \in Refusals \cup {Accepted}
           /\ cmd_cancel(a) = Accepted =>
                /\ a.running => a.yes
<1> DEFINE checks == <<
        Invalid(job_id_arg(a.id)),
        Unless(a.running => a.yes, CliErrorWith("SAFETY_BLOCK", EXIT_SAFETY))>>
<1>1. DOMAIN checks = 1..2
  OBVIOUS
<1>2. \A i \in DOMAIN checks : checks[i].error \in Refusals
  BY <1>1 DEF Invalid, Unless, Refusals
<1>3. cmd_cancel(a) = FirstFailure(checks)
  BY DEF cmd_cancel
<1>4. /\ checks[2].ok <=> (a.running => a.yes)
  BY DEF Invalid, Unless
<1> HIDE DEF checks
<1>5. /\ FirstFailure(checks) \in Refusals \cup {Accepted}
      /\ FirstFailure(checks) = Accepted => \A i \in 1..2 : checks[i].ok
  BY <1>1, <1>2, ChecksDecide
<1> QED
  BY <1>3, <1>4, <1>5

\* prune has an age, terminal states, and either --yes or --dry-run.
LEMMA PruneChecks ==
    ASSUME NEW a
    PROVE  /\ cmd_prune(a) \in Refusals \cup {Accepted}
           /\ cmd_prune(a) = Accepted =>
                /\ parse_duration_seconds(a.older_than)
                /\ parse_prune_states(a.state)
                /\ ~(a.yes /\ a.dry_run)
                /\ a.yes \/ a.dry_run
<1> DEFINE checks == <<
        Invalid(parse_duration_seconds(a.older_than)),
        Invalid(parse_prune_states(a.state)),
        Invalid(~(a.yes /\ a.dry_run)),
        Unless(a.yes \/ a.dry_run, CliErrorWith("SAFETY_BLOCK", EXIT_SAFETY))>>
<1>1. DOMAIN checks = 1..4
  OBVIOUS
<1>2. \A i \in DOMAIN checks : checks[i].error \in Refusals
  BY <1>1 DEF Invalid, Unless, Refusals
<1>3. cmd_prune(a) = FirstFailure(checks)
  BY DEF cmd_prune
<1>4. /\ checks[1].ok <=> parse_duration_seconds(a.older_than)
      /\ checks[2].ok <=> parse_prune_states(a.state)
      /\ checks[3].ok <=> ~(a.yes /\ a.dry_run)
      /\ checks[4].ok <=> (a.yes \/ a.dry_run)
  BY DEF Invalid, Unless
<1> HIDE DEF checks
<1>5. /\ FirstFailure(checks) \in Refusals \cup {Accepted}
      /\ FirstFailure(checks) = Accepted => \A i \in 1..4 : checks[i].ok
  BY <1>1, <1>2, ChecksDecide
<1> QED
  BY <1>3, <1>4, <1>5

\* events follows without a limit and without --wait.
LEMMA EventsChecks ==
    ASSUME NEW a
    PROVE  /\ validate_events_args(a) \in Refusals \cup {Accepted}
           /\ validate_events_args(a) = Accepted =>
                /\ OptionalInt(a.since_id, 0, SQLITE_INT64_MAX)
                /\ OptionalInt(a.max_events, 1, EVENT_LIMIT_MAX)
                /\ ~(a.follow /\ a.wait)
                /\ ~(a.follow /\ a.limit # NULL)
<1> DEFINE checks == <<
        Invalid(OptionalInt(a.job, 1, SQLITE_INT64_MAX)),
        Invalid(OptionalInt(a.since_id, 0, SQLITE_INT64_MAX)),
        Invalid(OptionalInt(a.limit, 0, EVENT_LIMIT_MAX)),
        Invalid(OptionalInt(a.max_events, 1, EVENT_LIMIT_MAX)),
        Invalid(OptionalFloat(a.idle_timeout, MAX_WAIT_SECONDS)),
        Invalid(parse_positive_float(a.poll_interval, MAX_POLL_INTERVAL_SECONDS)),
        Invalid(parse_positive_float(a.wait_timeout, MAX_WAIT_SECONDS)),
        Invalid(~(a.follow /\ a.wait)),
        Invalid(~(a.follow /\ a.limit # NULL)),
        Invalid(a.max_events # NULL => a.follow),
        Invalid(a.idle_timeout # NULL => a.follow)>>
<1>1. DOMAIN checks = 1..11
  OBVIOUS
<1>2. \A i \in DOMAIN checks : checks[i].error \in Refusals
  BY <1>1 DEF Invalid, Unless, Refusals
<1>3. validate_events_args(a) = FirstFailure(checks)
  BY DEF validate_events_args
<1>4. /\ checks[2].ok <=> OptionalInt(a.since_id, 0, SQLITE_INT64_MAX)
      /\ checks[4].ok <=> OptionalInt(a.max_events, 1, EVENT_LIMIT_MAX)
      /\ checks[8].ok <=> ~(a.follow /\ a.wait)
      /\ checks[9].ok <=> ~(a.follow /\ a.limit # NULL)
  BY DEF Invalid, Unless
<1> HIDE DEF checks
<1>5. /\ FirstFailure(checks) \in Refusals \cup {Accepted}
      /\ FirstFailure(checks) = Accepted => \A i \in 1..11 : checks[i].ok
  BY <1>1, <1>2, ChecksDecide
<1> QED
  BY <1>3, <1>4, <1>5

\* output names a job.
LEMMA OutputChecks ==
    ASSUME NEW a
    PROVE  /\ cmd_output(a) \in Refusals \cup {Accepted}
           /\ cmd_output(a) = Accepted =>
                /\ job_id_arg(a.id)
<1> DEFINE checks == <<
        Invalid(job_id_arg(a.id)),
        Invalid(OptionalInt(a.attempt, 1, SQLITE_INT64_MAX)),
        Invalid(~(a.raw /\ a.json)),
        Invalid(~(a.raw /\ a.stream = "both"))>>
<1>1. DOMAIN checks = 1..4
  OBVIOUS
<1>2. \A i \in DOMAIN checks : checks[i].error \in Refusals
  BY <1>1 DEF Invalid, Unless, Refusals
<1>3. cmd_output(a) = FirstFailure(checks)
  BY DEF cmd_output
<1>4. /\ checks[1].ok <=> job_id_arg(a.id)
  BY DEF Invalid, Unless
<1> HIDE DEF checks
<1>5. /\ FirstFailure(checks) \in Refusals \cup {Accepted}
      /\ FirstFailure(checks) = Accepted => \A i \in 1..4 : checks[i].ok
  BY <1>1, <1>2, ChecksDecide
<1> QED
  BY <1>3, <1>4, <1>5

\* feedback names a job.
LEMMA FeedbackChecks ==
    ASSUME NEW a
    PROVE  /\ cmd_feedback(a) \in Refusals \cup {Accepted}
           /\ cmd_feedback(a) = Accepted =>
                /\ job_id_arg(a.id)
<1> DEFINE checks == <<
        Invalid(job_id_arg(a.id)),
        Invalid(OptionalInt(a.tail_bytes, 1, FEEDBACK_TAIL_MAX))>>
<1>1. DOMAIN checks = 1..2
  OBVIOUS
<1>2. \A i \in DOMAIN checks : checks[i].error \in Refusals
  BY <1>1 DEF Invalid, Unless, Refusals
<1>3. cmd_feedback(a) = FirstFailure(checks)
  BY DEF cmd_feedback
<1>4. /\ checks[1].ok <=> job_id_arg(a.id)
  BY DEF Invalid, Unless
<1> HIDE DEF checks
<1>5. /\ FirstFailure(checks) \in Refusals \cup {Accepted}
      /\ FirstFailure(checks) = Accepted => \A i \in 1..2 : checks[i].ok
  BY <1>1, <1>2, ChecksDecide
<1> QED
  BY <1>3, <1>4, <1>5

\* schema refuses a line or accepts it.
LEMMA SchemaChecks ==
    ASSUME NEW a
    PROVE  build_schema(a) \in Refusals \cup {Accepted}
<1> DEFINE checks == <<
        Invalid(a.schema_verb # "unknown")>>
<1>1. DOMAIN checks = 1..1
  OBVIOUS
<1>2. \A i \in DOMAIN checks : checks[i].error \in Refusals
  BY <1>1 DEF Invalid, Unless, Refusals
<1>3. build_schema(a) = FirstFailure(checks)
  BY DEF build_schema
<1> HIDE DEF checks
<1>4. /\ FirstFailure(checks) \in Refusals \cup {Accepted}
      /\ FirstFailure(checks) = Accepted => \A i \in 1..1 : checks[i].ok
  BY <1>1, <1>2, ChecksDecide
<1> QED
  BY <1>3, <1>4

\* Whatever the verb, a handler answers a line it does not accept with one of
\* the refusals.
LEMMA JudgedIs ==
    ASSUME NEW l
    PROVE  Judged(l) \in Refusals \cup {Accepted}
<1>1. PICK a : a = l.args
  OBVIOUS
<1>2. {cmd_add(a), cmd_work(a), cmd_list(a), cmd_status(a), cmd_show(a), cmd_wait(a)}
        \subseteq Refusals \cup {Accepted}
  BY AddChecks, WorkChecks, ListChecks, StatusChecks, ShowChecks, WaitChecks
<1>3. {cmd_cancel(a), cmd_prune(a), validate_events_args(a), cmd_output(a), cmd_feedback(a),
       build_schema(a)} \subseteq Refusals \cup {Accepted}
  BY CancelChecks, PruneChecks, EventsChecks, OutputChecks, FeedbackChecks, SchemaChecks
<1> QED
  BY <1>1, <1>2, <1>3 DEF Judged

\* A span that parses is no negative number of seconds.
LEMMA DurationIsNat ==
    ASSUME NEW raw, raw.n \in Int, parse_duration_seconds(raw)
    PROVE  duration_seconds(raw) \in Nat
<1>1. raw.n \in Nat
  BY DEF parse_duration_seconds
<1>2. Multiplier(raw.unit) \in {1, 60, 3600, 86400}
  BY DEF Multiplier
<1> QED
  BY <1>1, <1>2 DEF duration_seconds

\* A line that its handler accepts is one the queue's transactions are
\* written for.
LEMMA AcceptedIsSound ==
    ASSUME NEW l, WellFormed(l), Judged(l) = Accepted
    PROVE  Sound(l, 0)
<1>1. PICK a : a = l.args
  OBVIOUS
<1>2. CASE l.verb = "add"
  <2>1. cmd_add(a) = Accepted
    BY <1>1, <1>2 DEF Judged
  <2>2. /\ parse_int_bound(a.timeout, 1, SQLITE_INT64_MAX)
        /\ parse_int_bound(a.max_retries, 0, SQLITE_INT64_MAX)
        /\ OptionalInt(a.max_crashes, 0, SQLITE_INT64_MAX)
    BY <2>1, AddChecks
  <2>3. /\ ~(a.after # NULL /\ a.moment # NULL)
        /\ a.after # NULL => parse_duration_seconds(a.after)
    BY <2>1, AddChecks
  <2>4. /\ a.after # NULL => a.after.n \in Int
        /\ a.moment # NULL => a.moment.n \in Int
    BY <1>1, <1>2 DEF WellFormed
  <2>5. a.timeout.n >= 1 /\ a.max_retries.n >= 0 /\ (a.max_crashes # NULL => a.max_crashes.n >= 0)
    BY <2>2 DEF parse_int_bound, OptionalInt
  <2>6. next_run_at(a, 0) >= 0
    <3>1. CASE a.after # NULL
      <4>1. duration_seconds(a.after) \in Nat
        BY <2>3, <2>4, <3>1, DurationIsNat
      <4>2. next_run_at(a, 0) = 0 + duration_seconds(a.after)
        BY <2>3, <3>1 DEF next_run_at
      <4> QED
        BY <4>1, <4>2
    <3>2. CASE a.after = NULL
      BY <2>4, <3>2 DEF next_run_at
    <3> QED
      BY <3>1, <3>2
  <2> QED
    BY <1>1, <1>2, <2>5, <2>6 DEF Sound
<1>3. CASE l.verb = "work"
  <2>1. cmd_work(a) = Accepted
    BY <1>1, <1>3 DEF Judged
  <2>2. ~(a.drain /\ a.once) /\ OptionalInt(a.slots, 1, SQLITE_INT64_MAX)
    BY <2>1, WorkChecks
  <2> QED
    BY <1>1, <1>3, <2>2 DEF Sound, OptionalInt, parse_int_bound
<1>4. CASE l.verb = "prune"
  <2>1. cmd_prune(a) = Accepted
    BY <1>1, <1>4 DEF Judged
  <2>2. parse_duration_seconds(a.older_than) /\ parse_prune_states(a.state)
    BY <2>1, PruneChecks
  <2>3. ~(a.yes /\ a.dry_run) /\ (a.yes \/ a.dry_run)
    BY <2>1, PruneChecks
  <2>4. a.older_than.n \in Int /\ a.yes \in BOOLEAN /\ a.dry_run \in BOOLEAN
    BY <1>1, <1>4 DEF WellFormed
  <2>5. duration_seconds(a.older_than) \in Nat
    BY <2>2, <2>4, DurationIsNat
  <2>6. 0 - duration_seconds(a.older_than) <= 0
    BY <2>5
  <2>7. a.yes # a.dry_run
    BY <2>3, <2>4
  <2>8. a.state \subseteq PrunableStates
    BY <2>2 DEF parse_prune_states
  <2> QED
    BY <1>1, <1>4, <2>6, <2>7, <2>8 DEF Sound
<1>5. CASE l.verb = "cancel"
  <2>1. cmd_cancel(a) = Accepted
    BY <1>1, <1>5 DEF Judged
  <2>2. a.running => a.yes
    BY <2>1, CancelChecks
  <2> QED
    BY <1>1, <1>5, <2>2 DEF Sound
<1>6. CASE l.verb = "events"
  <2>1. validate_events_args(a) = Accepted
    BY <1>1, <1>6 DEF Judged
  <2>2. /\ OptionalInt(a.since_id, 0, SQLITE_INT64_MAX)
        /\ OptionalInt(a.max_events, 1, EVENT_LIMIT_MAX)
        /\ ~(a.follow /\ a.wait) /\ ~(a.follow /\ a.limit # NULL)
    BY <2>1, EventsChecks
  <2> QED
    BY <1>1, <1>6, <2>2 DEF Sound, OptionalInt, parse_int_bound
<1>7. CASE l.verb \in {"show", "retry", "output", "feedback"}
  <2>1. cmd_show(a) = Accepted \/ cmd_output(a) = Accepted \/ cmd_feedback(a) = Accepted
    BY <1>1, <1>7 DEF Judged
  <2>2. job_id_arg(a.id)
    BY <2>1, ShowChecks, OutputChecks, FeedbackChecks
  <2> QED
    BY <1>1, <1>7, <2>2 DEF Sound, job_id_arg, parse_int_bound
<1>8. CASE l.verb = "wait"
  <2>1. cmd_wait(a) = Accepted
    BY <1>1, <1>8 DEF Judged
  <2>2. parse_positive_float(a.poll_interval, MAX_POLL_INTERVAL_SECONDS)
    BY <2>1, WaitChecks
  <2> QED
    BY <1>1, <1>8, <2>2 DEF Sound, parse_positive_float
<1> QED
  BY <1>2, <1>3, <1>4, <1>5, <1>6, <1>7, <1>8 DEF Sound

-----------------------------------------------------------------------------
(* What the commands answer                                                *)

Stages == {"start", "resolve", "open", "version", "ended"}

\* The exit code of an answer is the published one.
Published(l, o) ==
    \/ o.code \in DOMAIN Registry /\ ~o.ok /\ o.exit = Registry[o.code]
    \/ /\ o.code \in {"none", "silent"} /\ o.ok
       /\ \/ o.exit = EXIT_OK
          \/ l.verb = "wait" /\ o.exit = EXIT_JOB_FAILURE
          \/ l.verb = "doctor" /\ o.exit = EXIT_ENVIRONMENT
          \/ o.code = "silent" /\ o.exit = EXIT_ENVIRONMENT

\* What stands behind a success: an accepted line, a file that may be written
\* if it was, and the current version, now and from then on.
Served(l) ==
    /\ Judged(l) = Accepted
    /\ Writes(l) => ~db.protected
    /\ Mistaken \/ db.version = SCHEMA_VERSION

\* What an answer o to a line l says of the file and the settings, then and
\* from then on.
LastWord(l, o) ==
    /\ o.code # "killed" => Published(l, o)
    /\ l.verb \in DatabaseVerbs /\ o.ok => Served(l)
    /\ l.verb = "doctor" /\ o = VerbResult(EXIT_OK) =>
         db.version = SCHEMA_VERSION /\ world.parent = "writable" /\ ~world.directory
    /\ l.verb = "config-validate" /\ o.ok => validate_config_file(world.config) = "ok"
    /\ l.verb = "config-show" /\ o.code = "INVALID_INPUT" => Resolution.code # "ok"

\* What a command at a stage has behind it.
CommandOk(l, now, o) ==
    /\ o.exit \in 0..6 \cup {137} /\ o.ok \in BOOLEAN
    /\ now \in {"resolve", "open"} => l.verb # "malformed" /\ Judged(l) = Accepted
    /\ now = "open" => l.verb \in DatabaseVerbs
    /\ now = "version" => l.verb = "doctor" /\ world.parent = "writable" /\ ~world.directory
    /\ now = "ended" => LastWord(l, o)

CommandInv ==
    /\ world \in Surroundings
    /\ stage \in [Procs -> Stages]
    /\ DOMAIN answer = Procs
    /\ \A p \in Procs : WellFormed(line[p]) /\ CommandOk(line[p], stage[p], answer[p])

\* What a step of any command leaves to the others.
Later ==
    /\ found' = found /\ (misread => misread') /\ db'.protected = db.protected
    /\ db.version = SCHEMA_VERSION => db'.version = SCHEMA_VERSION
    /\ line' = line
    /\ \/ world' = world
       \/ /\ world.parent \in {"writable", "missing"}
          /\ world' = [world EXCEPT !.parent = "writable"]

\* The settings stay, and a directory that is there stays there.
LEMMA WorldStays ==
    ASSUME world \in Surroundings, Later
    PROVE  /\ world' \in Surroundings
           /\ world'.directory = world.directory /\ world'.config = world.config
           /\ Resolution' = Resolution
           /\ world.parent = "writable" => world'.parent = "writable"
<1>1. CASE world' = world
  BY <1>1 DEF Resolution
<1>2. CASE /\ world.parent \in {"writable", "missing"}
           /\ world' = [world EXCEPT !.parent = "writable"]
  <2>1. /\ world' \in Surroundings /\ world'.parent = "writable"
        /\ world'.directory = world.directory /\ world'.config = world.config
        /\ world'.flag = world.flag /\ world'.variable = world.variable
    BY <1>2 DEF Surroundings
  <2>2. Resolution' = Resolution
    BY <2>1 DEF Resolution
  <2> QED
    BY <1>2, <2>1, <2>2
<1> QED
  BY <1>1, <1>2 DEF Later

\* An answer stays true, and what a command relies on stays so.
LEMMA AnswersStay ==
    ASSUME world \in Surroundings, Later, NEW l, NEW now, NEW o, CommandOk(l, now, o)
    PROVE  CommandOk(l, now, o)'
<1>1. /\ world'.directory = world.directory /\ world'.config = world.config
      /\ Resolution' = Resolution
      /\ world.parent = "writable" => world'.parent = "writable"
  BY WorldStays
<1>2. Served(l) => Served(l)'
  BY MistakenStays DEF Served, Later, Writes, SCHEMA_VERSION
<1>3. LastWord(l, o) => LastWord(l, o)'
  BY <1>1, <1>2 DEF LastWord, Later
<1> QED
  BY <1>1, <1>3 DEF CommandOk

\* Steps that let a command go on, and steps that end it.
LEMMA Goes ==
    ASSUME CommandInv, Later, NEW p \in Procs, NEW next \in Stages, Go(p, next),
           CommandOk(line[p], next, answer[p])
    PROVE  CommandInv'
<1>1. world' \in Surroundings
  BY WorldStays DEF CommandInv
<1>2. stage' \in [Procs -> Stages] /\ stage' = [stage EXCEPT ![p] = next] /\ answer' = answer
  BY DEF Go, CommandInv
<1>3. line' = line
  BY DEF Later
<1>4. ASSUME NEW q \in Procs
      PROVE  WellFormed(line[q])' /\ CommandOk(line[q], stage[q], answer[q])'
  <2>1. PICK l, now, o : l = line[q] /\ now = stage'[q] /\ o = answer[q]
    OBVIOUS
  <2>2. WellFormed(l) /\ CommandOk(l, now, o)
    BY <1>2, <2>1 DEF CommandInv
  <2>3. CommandOk(l, now, o)'
    BY <2>2, AnswersStay DEF CommandInv
  <2> QED
    BY <1>2, <1>3, <2>1, <2>2, <2>3
<1> QED
  BY <1>1, <1>2, <1>4 DEF CommandInv

LEMMA Finishes ==
    ASSUME CommandInv, Later, NEW p \in Procs, NEW o, End(p, o), CommandOk(line[p], "ended", o)
    PROVE  CommandInv'
<1>1. world' \in Surroundings
  BY WorldStays DEF CommandInv
<1>2. /\ stage' \in [Procs -> Stages] /\ stage' = [stage EXCEPT ![p] = "ended"]
      /\ answer' = [answer EXCEPT ![p] = o] /\ DOMAIN answer' = Procs
  BY DEF End, CommandInv, Stages
<1>3. line' = line
  BY DEF Later
<1>4. ASSUME NEW q \in Procs
      PROVE  WellFormed(line[q])' /\ CommandOk(line[q], stage[q], answer[q])'
  <2>1. PICK l, now, a : l = line[q] /\ now = stage'[q] /\ a = answer'[q]
    OBVIOUS
  <2>2. WellFormed(l) /\ CommandOk(l, now, a)
    BY <1>2, <2>1 DEF CommandInv
  <2>3. CommandOk(l, now, a)'
    BY <2>2, AnswersStay DEF CommandInv
  <2> QED
    BY <1>3, <2>1, <2>2, <2>3
<1> QED
  BY <1>1, <1>2, <1>4 DEF CommandInv

\* The errors a command may answer whatever the state, each with the exit
\* code of the registry.
Errors ==
    Refusals \cup
    {CliError("UNKNOWN_FLAG"), CliError("UNKNOWN_COMMAND"), CliError("NOT_FOUND"),
     CliErrorWith("CONFLICT", EXIT_CONFLICT), CliErrorWith("IDEMPOTENCY_CONFLICT", EXIT_CONFLICT),
     CliErrorWith("TIMEOUT", EXIT_TRANSIENT), Locked}

LEMMA ErrorsArePublished ==
    ASSUME NEW l, NEW o \in Errors,
           l.verb = "config-show" /\ o.code = "INVALID_INPUT" => Resolution.code # "ok"
    PROVE  CommandOk(l, "ended", o)
<1>1. /\ o.code \in DOMAIN Registry /\ o.code # "killed"
      /\ o.exit = Registry[o.code] /\ o.exit \in 1..5 /\ o.ok \in BOOLEAN /\ ~o.ok
  <2> DEFINE Codes == DOMAIN Registry
  <2>1. PICK code \in Codes : o = CliErrorWith(code, Registry[code])
    BY DEF Errors, Refusals, Internal, CliError, Locked, Registry
  <2>2. o.code = code /\ o.exit = Registry[code] /\ o.ok \in BOOLEAN /\ ~o.ok
    BY <2>1 DEF CliErrorWith
  <2>3. Registry[code] \in 1..5 /\ code # "killed"
    BY <2>1 DEF Registry, EXIT_INPUT, EXIT_CONFLICT, EXIT_SAFETY, EXIT_TRANSIENT, EXIT_ENVIRONMENT
  <2> QED
    BY <2>2, <2>3
<1>2. o # VerbResult(EXIT_OK)
  BY <1>1 DEF VerbResult
<1>3. Published(l, o)
  BY <1>1 DEF Published
<1> QED
  BY <1>1, <1>2, <1>3 DEF CommandOk, LastWord

\* INTERNAL may come from anywhere.
LEMMA InternalIsPublished == \A l : CommandOk(l, "ended", Internal)
<1>1. Internal \in Errors /\ Internal.code = "INTERNAL"
  BY DEF Errors, Refusals, Internal, CliErrorWith
<1> QED
  BY <1>1, ErrorsArePublished

\* Success says that the command was served, and more where doctor and
\* config-validate say it.
LEMMA SuccessIsPublished ==
    ASSUME NEW l,
           l.verb \in DatabaseVerbs => Served(l),
           l.verb = "doctor" =>
             db.version = SCHEMA_VERSION /\ world.parent = "writable" /\ ~world.directory,
           l.verb = "config-validate" => validate_config_file(world.config) = "ok"
    PROVE  CommandOk(l, "ended", VerbResult(EXIT_OK))
<1>1. /\ VerbResult(EXIT_OK).code = "none" /\ VerbResult(EXIT_OK).exit = 0
      /\ VerbResult(EXIT_OK).ok \in BOOLEAN /\ VerbResult(EXIT_OK).ok
  BY DEF VerbResult, EXIT_OK
<1>2. Published(l, VerbResult(EXIT_OK))
  BY <1>1 DEF Published, EXIT_OK
<1> QED
  BY <1>1, <1>2 DEF CommandOk, LastWord

\* The answers with an exit code and no error: wait's, doctor's, and those of
\* a follower and of a worker's loop.
LEMMA OtherExits ==
    ASSUME NEW l, l.verb \in DatabaseVerbs => Served(l)
    PROVE  /\ l.verb = "wait" => CommandOk(l, "ended", VerbResult(EXIT_JOB_FAILURE))
           /\ l.verb = "doctor" => CommandOk(l, "ended", NotReady)
           /\ l.verb \in {"events", "work"} => /\ CommandOk(l, "ended", Silent(EXIT_OK))
                                               /\ CommandOk(l, "ended", Silent(EXIT_ENVIRONMENT))
<1>1. VerbResult(EXIT_OK).code = "none" /\ VerbResult(EXIT_OK).exit = 0
  BY DEF VerbResult, EXIT_OK
<1>3. ASSUME l.verb = "wait" PROVE CommandOk(l, "ended", VerbResult(EXIT_JOB_FAILURE))
  <2>1. PICK o : o = VerbResult(EXIT_JOB_FAILURE)
    OBVIOUS
  <2>2. o.code = "none" /\ o.exit = 6 /\ o.ok \in BOOLEAN /\ o.ok
    BY <2>1 DEF VerbResult, EXIT_JOB_FAILURE
  <2>3. Published(l, o)
    BY <1>3, <2>2 DEF Published, EXIT_JOB_FAILURE
  <2>4. CommandOk(l, "ended", o)
    BY <1>1, <1>3, <2>2, <2>3 DEF CommandOk, LastWord
  <2> QED
    BY <2>1, <2>4
<1>4. ASSUME l.verb = "doctor" PROVE CommandOk(l, "ended", NotReady)
  <2>1. PICK o : o = NotReady
    OBVIOUS
  <2>2. o.code = "none" /\ o.exit = 3 /\ o.ok \in BOOLEAN /\ o.ok
    BY <2>1 DEF NotReady, VerbResult, EXIT_ENVIRONMENT
  <2>3. Published(l, o)
    BY <1>4, <2>2 DEF Published, EXIT_ENVIRONMENT
  <2>4. CommandOk(l, "ended", o)
    BY <1>1, <1>4, <2>2, <2>3 DEF CommandOk, LastWord
  <2> QED
    BY <2>1, <2>4
<1>5. ASSUME l.verb \in {"events", "work"}, NEW e \in {EXIT_OK, EXIT_ENVIRONMENT}
      PROVE  CommandOk(l, "ended", Silent(e))
  <2>1. PICK o : o = Silent(e)
    OBVIOUS
  <2>2. o.code = "silent" /\ o.exit = e /\ o.exit \in {0, 3} /\ o.ok \in BOOLEAN /\ o.ok
    BY <2>1 DEF Silent, EXIT_ENVIRONMENT, EXIT_OK
  <2>3. Published(l, o)
    BY <1>5, <2>2 DEF Published, EXIT_ENVIRONMENT, EXIT_OK
  <2>4. CommandOk(l, "ended", o)
    BY <1>1, <1>5, <2>2, <2>3 DEF CommandOk, LastWord
  <2> QED
    BY <2>1, <2>4
<1> QED
  BY <1>3, <1>4, <1>5

\* The codes of the configuration.
LEMMA ConfigCodes ==
    ASSUME world \in Surroundings
    PROVE  /\ Resolution.code \in {"ok", "INTERNAL", "INVALID_INPUT"}
           /\ validate_config_file(world.config) \in {"ok", "INTERNAL", "INVALID_INPUT"}
           /\ load_config_object(world.config) = "ok" /\ Resolution.code # "ok" =>
                Resolution.source \in {"flag", "environment"}
<1>1. PICK c \in ConfigFiles : c = world.config
  BY DEF Surroundings
<1>2. \A path : validate_db_path_value(path) \in {"ok", "INVALID_INPUT"}
  BY DEF validate_db_path_value
<1>3. load_config_object(c) \in {"ok", "INTERNAL", "INVALID_INPUT"}
  BY <1>2 DEF load_config_object, ConfigFiles, ConfigKinds
<1>4. validate_config_file(c) \in {"ok", "INTERNAL", "INVALID_INPUT"}
  BY <1>3 DEF validate_config_file
<1>5. PICK r : r = resolve_effective_config(world.flag, world.variable, c)
  OBVIOUS
<1>6. /\ r.code \in {"ok", "INTERNAL", "INVALID_INPUT"}
      /\ load_config_object(c) = "ok" /\ r.code # "ok" => r.source \in {"flag", "environment"}
  BY <1>2, <1>3, <1>5 DEF resolve_effective_config
<1> QED
  BY <1>1, <1>4, <1>5, <1>6 DEF Resolution

\* A step that moves no command on.
LEMMA Waits ==
    ASSUME CommandInv, Later, UNCHANGED <<stage, answer>>
    PROVE  CommandInv'
<1>1. world' \in Surroundings
  BY WorldStays DEF CommandInv
<1>2. ASSUME NEW q \in Procs
      PROVE  WellFormed(line[q])' /\ CommandOk(line[q], stage[q], answer[q])'
  <2>1. PICK l, now, o : l = line[q] /\ now = stage[q] /\ o = answer[q]
    OBVIOUS
  <2>2. WellFormed(l) /\ CommandOk(l, now, o)
    BY <2>1 DEF CommandInv
  <2>3. CommandOk(l, now, o)'
    BY <2>2, AnswersStay DEF CommandInv
  <2> QED
    BY <2>1, <2>2, <2>3 DEF Later
<1> QED
  BY <1>1, <1>2 DEF CommandInv

\* Opening the file is no surprise to a command that has answered.
LEMMA OpeningIsLater ==
    ASSUME FileInv, PlacesInv, NEW p \in Procs, OpenStep(p) \/ OpenFault(p),
           UNCHANGED <<world, line>>
    PROVE  Later
<1>1. /\ found' = found /\ (misread => misread') /\ db'.protected = db.protected
      /\ \/ QueueStays
         \/ \E step \in 2..6 : ~AlreadyDone(step) /\ db' = Migrated(db, step)
                               /\ misread' = misread
  BY QueueSteps
<1>2. db.version = SCHEMA_VERSION => db'.version = SCHEMA_VERSION
  <2>1. ASSUME NEW step \in 2..6, ~AlreadyDone(step) PROVE db.version # SCHEMA_VERSION
    BY <2>1 DEF AlreadyDone, SCHEMA_VERSION
  <2> QED
    BY <1>1, <2>1 DEF QueueStays
<1> QED
  BY <1>1, <1>2 DEF Later

\* Whatever state the job is in when the transaction of a command runs, what
\* the command answers is published.
LEMMA OutcomesAreFine ==
    ASSUME NEW l, l.verb \in DatabaseVerbs, Served(l), NEW job, NEW o \in Outcomes(l, job)
    PROVE  CommandOk(l, "ended", o)
<1>1. l.verb \notin {"doctor", "config-validate", "config-show"}
  BY DEF DatabaseVerbs
<1>2. CommandOk(l, "ended", VerbResult(EXIT_OK))
  BY <1>1, SuccessIsPublished
<1>3. \A e \in Errors : CommandOk(l, "ended", e)
  BY <1>1, ErrorsArePublished
<1>4. /\ CliError("NOT_FOUND") \in Errors
      /\ CliErrorWith("SAFETY_BLOCK", EXIT_SAFETY) \in Errors
      /\ CliErrorWith("CONFLICT", EXIT_CONFLICT) \in Errors
      /\ CliErrorWith("IDEMPOTENCY_CONFLICT", EXIT_CONFLICT) \in Errors
      /\ CliErrorWith("TIMEOUT", EXIT_TRANSIENT) \in Errors
      /\ Internal \in Errors
  BY DEF Errors, Refusals
<1>5. PICK a : a = l.args
  OBVIOUS
<1>6. CASE l.verb = "cancel"
  <2>1. cancel_operation(a, job) \subseteq Errors \cup {VerbResult(EXIT_OK)}
    BY <1>4 DEF cancel_operation
  <2> QED
    BY <1>2, <1>3, <1>5, <1>6, <2>1 DEF Outcomes
<1>7. CASE l.verb = "retry"
  <2>1. retry_operation(a, job) \subseteq Errors \cup {VerbResult(EXIT_OK)}
    BY <1>4 DEF retry_operation
  <2> QED
    BY <1>2, <1>3, <1>5, <1>7, <2>1 DEF Outcomes
<1>8. CASE l.verb = "add"
  <2>1. add_operation(a, job) \subseteq Errors \cup {VerbResult(EXIT_OK)}
    BY <1>4 DEF add_operation
  <2> QED
    BY <1>2, <1>3, <1>5, <1>8, <2>1 DEF Outcomes
<1>9. CASE l.verb = "wait"
  <2>1. wait_operation(a, job) \subseteq
          Errors \cup {VerbResult(EXIT_OK), VerbResult(EXIT_JOB_FAILURE)}
    BY <1>4 DEF wait_operation
  <2>3. CommandOk(l, "ended", VerbResult(EXIT_JOB_FAILURE))
    BY <1>9, OtherExits
  <2> QED
    BY <1>2, <1>3, <1>5, <1>9, <2>1, <2>3 DEF Outcomes
<1>10. CASE l.verb = "events"
  <2>1. events_operation(a) \subseteq
          {VerbResult(EXIT_OK), Silent(EXIT_OK), Silent(EXIT_ENVIRONMENT)}
    BY DEF events_operation
  <2>2. CommandOk(l, "ended", Silent(EXIT_OK)) /\ CommandOk(l, "ended", Silent(EXIT_ENVIRONMENT))
    BY <1>10, OtherExits
  <2> QED
    BY <1>2, <1>5, <1>10, <2>1, <2>2 DEF Outcomes
<1>12. CASE l.verb = "work"
  <2>1. work_operation(a) \subseteq Errors \cup {VerbResult(EXIT_OK), Silent(EXIT_OK)}
    BY <1>4 DEF work_operation
  <2>2. CommandOk(l, "ended", Silent(EXIT_OK))
    BY <1>12, OtherExits
  <2> QED
    BY <1>2, <1>3, <1>5, <1>12, <2>1, <2>2 DEF Outcomes
<1>11. CASE l.verb \notin {"cancel", "retry", "add", "work", "wait", "events"}
  <2>1. Outcomes(l, job) \subseteq Errors \cup {VerbResult(EXIT_OK)}
    BY <1>4, <1>11 DEF Outcomes
  <2> QED
    BY <1>2, <1>3, <2>1
<1> QED
  BY <1>6, <1>7, <1>8, <1>9, <1>10, <1>11, <1>12

\* A parsed line.
LEMMA ParseKeeps ==
    ASSUME CommandInv, NEW p \in Procs, Parse(p)
    PROVE  CommandInv'
<1>1. Later
  BY DEF Parse, schemaVars, Later
<1>2. PICK l : l = line[p]
  OBVIOUS
<1>3. WellFormed(l) /\ CommandOk(l, "start", answer[p])
  BY <1>2 DEF CommandInv, Parse
<1>4. CASE l.verb = "malformed" /\ End(p, UsageError(l.args.shape))
  <2>1. PICK o : o = UsageError(l.args.shape)
    OBVIOUS
  <2>2. l.args.shape \in MalformedShapes
    BY <1>3, <1>4 DEF WellFormed
  <2>3. o \in Errors \/ o = VerbResult(EXIT_OK)
    BY <2>1, <2>2 DEF UsageError, MalformedShapes, Errors, Refusals
  <2>4. CommandOk(l, "ended", o)
    BY <1>4, <2>3, ErrorsArePublished, SuccessIsPublished DEF DatabaseVerbs
  <2> QED
    BY <1>1, <1>2, <1>4, <2>1, <2>4, Finishes
<1>5. CASE l.verb # "malformed" /\ Judged(l) # Accepted /\ End(p, Judged(l))
  <2>1. PICK o : o = Judged(l)
    OBVIOUS
  <2>2. o \in Errors
    BY <1>5, <2>1, JudgedIs DEF Errors
  <2>3. l.verb # "config-show"
    BY <1>5 DEF Judged
  <2>4. CommandOk(l, "ended", o)
    BY <2>2, <2>3, ErrorsArePublished
  <2> QED
    BY <1>1, <1>2, <1>5, <2>1, <2>4, Finishes
<1>6. CASE l.verb # "malformed" /\ Judged(l) = Accepted /\ Go(p, "resolve")
  <2>1. CommandOk(l, "resolve", answer[p])
    BY <1>3, <1>6 DEF CommandOk
  <2> QED
    BY <1>1, <1>2, <1>6, <2>1, Goes DEF Stages
<1> QED
  BY <1>2, <1>4, <1>5, <1>6 DEF Parse

\* An error code of the configuration is published.
LEMMA RefusedIsFine ==
    ASSUME NEW l, NEW code \in {"INTERNAL", "INVALID_INPUT"},
           l.verb = "config-show" => Resolution.code # "ok"
    PROVE  CommandOk(l, "ended", Refused(code))
<1>1. Refused(code) \in Errors
  BY DEF Refused, Errors, Refusals
<1> QED
  BY <1>1, ErrorsArePublished

\* The configuration is resolved, shown or validated.
LEMMA ConfigKeeps ==
    ASSUME CommandInv, NEW p \in Procs, Resolve(p) \/ config_show(p) \/ config_validate(p)
    PROVE  CommandInv'
<1>1. Later /\ world \in Surroundings
  BY DEF Resolve, config_show, config_validate, schemaVars, Later, CommandInv
<1>2. PICK l : l = line[p]
  OBVIOUS
<1>3. CommandOk(l, "resolve", answer[p])
  BY <1>2 DEF CommandInv, Resolve, config_show, config_validate
<1>4. /\ Resolution.code \in {"ok", "INTERNAL", "INVALID_INPUT"}
      /\ validate_config_file(world.config) \in {"ok", "INTERNAL", "INVALID_INPUT"}
  BY <1>1, ConfigCodes
<1>5. ASSUME Resolution.code # "ok" PROVE CommandOk(l, "ended", Refused(Resolution.code))
  BY <1>4, <1>5, RefusedIsFine
<1>6. CASE l.verb \in DatabaseVerbs /\ Resolution.code = "ok" /\ Go(p, "open")
  <2>1. CommandOk(l, "open", answer[p])
    BY <1>3, <1>6 DEF CommandOk
  <2> QED
    BY <1>1, <1>2, <1>6, <2>1, Goes DEF Stages
<1>7. CASE Resolution.code # "ok" /\ End(p, Refused(Resolution.code))
  BY <1>1, <1>2, <1>5, <1>7, Finishes
<1>8. CASE /\ l.verb \in {"brief", "schema", "capabilities", "robot-docs", "config-show"}
           /\ End(p, VerbResult(EXIT_OK))
  <2>1. CommandOk(l, "ended", VerbResult(EXIT_OK))
    BY <1>8, SuccessIsPublished DEF DatabaseVerbs
  <2> QED
    BY <1>1, <1>2, <1>8, <2>1, Finishes
<1>9. CASE config_validate(p)
  <2>1. PICK code : code = validate_config_file(world.config)
    OBVIOUS
  <2>2. l.verb = "config-validate"
    BY <1>2, <1>9 DEF config_validate
  <2>3. CASE code = "ok"
    <3>1. CommandOk(l, "ended", VerbResult(EXIT_OK))
      BY <2>1, <2>2, <2>3, SuccessIsPublished DEF DatabaseVerbs
    <3>2. End(p, VerbResult(EXIT_OK))
      BY <1>9, <2>1, <2>3 DEF config_validate
    <3> QED
      BY <1>1, <1>2, <3>1, <3>2, Finishes
  <2>4. CASE code # "ok"
    <3>1. CommandOk(l, "ended", Refused(code))
      BY <1>4, <2>1, <2>2, <2>4, RefusedIsFine
    <3>2. End(p, Refused(code))
      BY <1>9, <2>1, <2>4 DEF config_validate
    <3> QED
      BY <1>1, <1>2, <3>1, <3>2, Finishes
  <2> QED
    BY <2>3, <2>4
<1>10. CASE Resolve(p)
  BY <1>2, <1>6, <1>7, <1>8, <1>10 DEF Resolve
<1>11. CASE config_show(p)
  <2>1. l.verb = "config-show"
    BY <1>2, <1>11 DEF config_show
  <2>2. \/ End(p, VerbResult(EXIT_OK))
        \/ Resolution.code # "ok" /\ End(p, Refused(Resolution.code))
    BY <1>11 DEF config_show
  <2> QED
    BY <1>7, <1>8, <2>1, <2>2
<1> QED
  BY <1>9, <1>10, <1>11

\* The directory is made, or cannot be used.
LEMMA OpenDbKeeps ==
    ASSUME CommandInv, NEW p \in Procs, OpenDb(p)
    PROVE  CommandInv'
<1>1. Later
  BY DEF OpenDb, Later
<1>2. PICK l : l = line[p]
  OBVIOUS
<1>3. CommandOk(l, "open", answer[p])
  BY <1>2 DEF CommandInv, OpenDb
<1>4. l.verb # "config-show"
  BY <1>3 DEF CommandOk, DatabaseVerbs
<1>5. CASE UNCHANGED <<stage, answer>>
  BY <1>1, <1>5, Waits
<1>6. CASE End(p, CannotOpen(p))
  <2>1. CannotOpen(p) \in Errors
    BY DEF CannotOpen, Errors, Refusals
  <2>2. CommandOk(l, "ended", CannotOpen(p))
    BY <1>4, <2>1, ErrorsArePublished
  <2> QED
    BY <1>1, <1>2, <1>6, <2>2, Finishes
<1> QED
  BY <1>5, <1>6 DEF OpenDb

\* A connect that failed is an error of the registry, or a death.
LEMMA OpenFailedKeeps ==
    ASSUME CommandInv, NEW p \in Procs, OpenFailed(p)
    PROVE  CommandInv'
<1>1. Later
  BY DEF OpenFailed, schemaVars, Later
<1>2. PICK l : l = line[p]
  OBVIOUS
<1>3. CommandOk(l, "open", answer[p])
  BY <1>2 DEF CommandInv, OpenFailed
<1>4. l.verb # "config-show" /\ l.verb \in DatabaseVerbs
  BY <1>3 DEF CommandOk, DatabaseVerbs
<1>5. ASSUME NEW o \in Errors, End(p, o) PROVE CommandInv'
  <2>1. CommandOk(l, "ended", o)
    BY <1>4, ErrorsArePublished
  <2> QED
    BY <1>1, <1>2, <1>5, <2>1, Finishes
<1>6. CASE opener[p] \in {"locked", "refused", "too_new", "failed"}
  <2>1. {Locked, CannotOpen(p), Internal} \subseteq Errors
    BY DEF CannotOpen, Errors, Refusals
  <2>2. End(p, Locked) \/ End(p, CannotOpen(p)) \/ End(p, Internal)
    BY <1>6 DEF OpenFailed
  <2> QED
    BY <1>5, <2>1, <2>2
<1>7. CASE opener[p] = "dead"
  <2>1. PICK o : o = [code |-> "killed", exit |-> 137, ok |-> FALSE]
    OBVIOUS
  <2>2. End(p, o)
    BY <1>7, <2>1 DEF OpenFailed
  <2>3. o.code = "killed" /\ o.exit = 137 /\ o.ok \in BOOLEAN /\ ~o.ok
    BY <2>1
  <2>4. o # VerbResult(EXIT_OK)
    BY <2>3 DEF VerbResult
  <2>5. CommandOk(l, "ended", o)
    BY <1>4, <2>3, <2>4 DEF CommandOk, LastWord
  <2> QED
    BY <1>1, <1>2, <2>2, <2>5, Finishes
<1> QED
  BY <1>6, <1>7 DEF OpenFailed, OpenEnds

\* The transactions of a command, on a file that connect has approved.
LEMMA ServeKeeps ==
    ASSUME PlacesInv, CommandInv, NEW p \in Procs, Serve(p) \/ RunBusy(p)
    PROVE  CommandInv'
<1>1. Later
  BY DEF Serve, RunBusy, schemaVars, Later
<1>2. PICK l : l = line[p]
  OBVIOUS
<1>3. CommandOk(l, "open", answer[p]) /\ PlaceOk("open", at[p])
  BY <1>2 DEF CommandInv, PlacesInv, Serve, RunBusy
<1>4. l.verb # "config-show" /\ l.verb \in DatabaseVerbs
  BY <1>3 DEF CommandOk, DatabaseVerbs
<1>5. ASSUME ~(Writes(l) /\ db.protected), NEW job, NEW o \in Outcomes(l, job), End(p, o)
      PROVE  CommandInv'
  <2>1. Served(l)
    BY <1>3, <1>5 DEF Served, CommandOk, PlaceOk
  <2>2. CommandOk(l, "ended", o)
    BY <1>4, <2>1, OutcomesAreFine
  <2> QED
    BY <1>1, <1>2, <1>5, <2>2, Finishes
<1>6. CASE End(p, Internal) \/ End(p, Locked)
  <2>1. CommandOk(l, "ended", Internal) /\ CommandOk(l, "ended", Locked)
    BY <1>4, ErrorsArePublished, InternalIsPublished DEF Errors
  <2> QED
    BY <1>1, <1>2, <1>6, <2>1, Finishes
<1> QED
  BY <1>2, <1>5, <1>6 DEF Serve, RunBusy

\* An exception that no handler foresees.
LEMMA UnexpectedKeeps ==
    ASSUME CommandInv, NEW p \in Procs, Unexpected(p)
    PROVE  CommandInv'
<1>1. Later
  BY DEF Unexpected, schemaVars, Later
<1> QED
  BY <1>1, InternalIsPublished, Finishes DEF Unexpected

\* doctor.
LEMMA DoctorKeeps ==
    ASSUME CommandInv, NEW p \in Procs, DoctorFiles(p) \/ DoctorVersion(p) \/ DoctorBusy(p)
    PROVE  CommandInv'
<1>1. Later /\ world \in Surroundings
  BY DEF DoctorFiles, DoctorVersion, DoctorBusy, schemaVars, Later, CommandInv
<1>2. PICK l : l = line[p]
  OBVIOUS
<1>3. l.verb = "doctor" /\ CommandOk(l, stage[p], answer[p])
  BY <1>2 DEF CommandInv, CommandOk, DoctorFiles, DoctorVersion, DoctorBusy
<1>4. CASE End(p, NotReady)
  <2>1. CommandOk(l, "ended", NotReady)
    BY <1>3, OtherExits DEF DatabaseVerbs
  <2> QED
    BY <1>1, <1>2, <1>4, <2>1, Finishes
<1>5. CASE DoctorFiles(p) /\ Resolution.code = "INTERNAL" /\ End(p, Internal)
  <2>1. CommandOk(l, "ended", Internal)
    BY InternalIsPublished
  <2> QED
    BY <1>1, <1>2, <1>5, <2>1, Finishes
<1>6. CASE DoctorFiles(p) /\ End(p, CliError("INVALID_INPUT"))
  <2>1. CommandOk(l, "ended", CliError("INVALID_INPUT"))
    BY <1>3, ErrorsArePublished DEF Errors, Refusals
  <2> QED
    BY <1>1, <1>2, <1>6, <2>1, Finishes
<1>7. CASE world.parent = "writable" /\ ~world.directory /\ Go(p, "version")
  <2>1. CommandOk(l, "version", answer[p])
    BY <1>3, <1>7 DEF CommandOk
  <2> QED
    BY <1>1, <1>2, <1>7, <2>1, Goes DEF Stages
<1>8. CASE DoctorVersion(p) /\ db.version = SCHEMA_VERSION /\ End(p, VerbResult(EXIT_OK))
  <2>1. world.parent = "writable" /\ ~world.directory
    BY <1>3, <1>8 DEF CommandOk, DoctorVersion
  <2>2. CommandOk(l, "ended", VerbResult(EXIT_OK))
    BY <1>3, <1>8, <2>1, SuccessIsPublished DEF DatabaseVerbs
  <2> QED
    BY <1>1, <1>2, <1>8, <2>2, Finishes
<1> QED
  BY <1>4, <1>5, <1>6, <1>7, <1>8 DEF DoctorFiles, DoctorVersion, DoctorBusy

\* CommandInv holds in every state of every run of commands.
LEMMA CommandsAreSound == CliSpec => []CommandInv
<1>1. Init => CommandInv
  <2> SUFFICES ASSUME Init PROVE CommandInv
    OBVIOUS
  <2>1. PICK c \in Cases : /\ world = c.world /\ line = c.line
                           /\ stage = [p \in Procs |-> "start"]
                           /\ answer = [p \in Procs |-> Accepted]
    BY DEF Init
  <2>2. world \in Surroundings /\ \A p \in Procs : WellFormed(line[p])
    BY <2>1, CasesAssumption
  <2>3. Accepted.exit = 0 /\ Accepted.ok \in BOOLEAN
    BY DEF Accepted, EXIT_OK
  <2>4. \A l : CommandOk(l, "start", Accepted)
    BY <2>3 DEF CommandOk
  <2> QED
    BY <2>1, <2>2, <2>4 DEF CommandInv, Stages
<1>2. FileInv /\ PlacesInv /\ CommandInv /\ [Next]_vars => CommandInv'
  <2> SUFFICES ASSUME FileInv, PlacesInv, CommandInv, [Next]_vars PROVE CommandInv'
    OBVIOUS
  <2>1. CASE UNCHANGED vars
    <3>1. Later /\ UNCHANGED <<stage, answer>>
      BY <2>1 DEF vars, schemaVars, Later
    <3> QED
      BY <3>1, Waits
  <2>2. ASSUME NEW p \in Procs, Opening(p) \/ OpeningFails(p) PROVE CommandInv'
    <3>1. (OpenStep(p) \/ OpenFault(p)) /\ UNCHANGED <<world, line, stage, answer>>
      BY <2>2 DEF Opening, OpeningFails
    <3>2. Later
      BY <3>1, OpeningIsLater
    <3> QED
      BY <3>1, <3>2, Waits
  <2>3. ASSUME NEW p \in Procs, Step(p) \/ Fault(p) PROVE CommandInv'
    BY <2>2, <2>3, ParseKeeps, ConfigKeeps, OpenDbKeeps, OpenFailedKeeps, ServeKeeps,
       DoctorKeeps, UnexpectedKeeps
    DEF Step, Fault, Run, LoopEnds
  <2> QED
    BY <2>1, <2>3 DEF Next
<1> QED
  BY <1>1, <1>2, FileIsSound, PTL DEF CliSpec

\* Whatever path an answer came from, parser, handler, configuration, open,
\* transaction or an exception nobody foresaw, its exit code is the one
\* CODE_REGISTRY publishes for its error; and what reports success was
\* served: an accepted line, on a file of the current version.
THEOREM ErrorsKeepTheirPromise == CliSpec => []ErrorContract
<1>1. FileInv /\ CommandInv => ErrorContract
  <2> SUFFICES ASSUME FileInv, CommandInv PROVE ErrorContract
    OBVIOUS
  <2>1. CliTypeOK
    BY DEF CommandInv, CommandOk, CliTypeOK, Stages
  <2>2. ASSUME NEW p \in Procs, Ended(p) PROVE LastWord(line[p], answer[p])
    BY <2>2 DEF Ended, CommandInv, CommandOk
  <2>3. PublishedExits
    BY <2>2 DEF Ended, LastWord, Published, PublishedExits
  <2>4. SCHEMA_VERSION \in 1..SCHEMA_VERSION
    BY DEF SCHEMA_VERSION
  <2>5. Mistaken \/ (db.version = SCHEMA_VERSION => BuiltAs(SCHEMA_VERSION))
    BY <2>4 DEF FileInv
  <2>6. SuccessIsServed
    BY <2>2, <2>5 DEF LastWord, Served, SuccessIsServed
  <2> QED
    BY <2>1, <2>3, <2>6 DEF ErrorContract
<1> QED
  BY <1>1, FileIsSound, CommandsAreSound, PTL

\* doctor never speaks too soon: what it calls ready is complete and stays
\* so, whoever is still creating or migrating the file.
THEOREM DoctorTellsTheTruth == CliSpec => []ReadyIsTrue
<1>1. FileInv /\ PlacesInv /\ CommandInv => ReadyIsTrue
  <2> SUFFICES ASSUME FileInv, PlacesInv, CommandInv, NEW p \in Procs, Ready(p)
               PROVE  /\ Mistaken \/ (db.version = SCHEMA_VERSION /\ BuiltAs(SCHEMA_VERSION))
                      /\ ~world.directory /\ world.parent = "writable"
                      /\ \A q \in Procs : opener[q] \in {"too_new", "failed", "refused"} =>
                            Mistaken \/ db.protected \/ found.dangling
    BY DEF ReadyIsTrue
  <2>1. LastWord(line[p], answer[p])
    BY DEF Ready, CommandInv, CommandOk
  <2>2. db.version = SCHEMA_VERSION /\ world.parent = "writable" /\ ~world.directory
    BY <2>1 DEF Ready, LastWord
  <2>3. SCHEMA_VERSION \in 1..SCHEMA_VERSION
    BY DEF SCHEMA_VERSION
  <2>4. Mistaken \/ BuiltAs(SCHEMA_VERSION)
    BY <2>2, <2>3 DEF FileInv
  <2>5. found.version \in Nat \cup {NULL} /\ NULL \notin Nat
    BY FileFacts
  <2>6. found.sqlite
    BY <2>2, <2>5 DEF FileInv, SCHEMA_VERSION
  <2>7. Mistaken \/ (found.version # 0 /\ ~(found.version \in Nat /\ found.version > SCHEMA_VERSION))
    BY <2>2 DEF FileInv, SCHEMA_VERSION
  <2>8. ASSUME NEW q \in Procs, opener[q] \in {"too_new", "failed", "refused"}
        PROVE  Mistaken \/ db.protected \/ found.dangling
    <3>1. PlaceOk(opener[q], at[q])
      BY DEF PlacesInv
    <3> QED
      BY <2>5, <2>6, <2>7, <2>8, <3>1 DEF PlaceOk, Broken
  <2> QED
    BY <2>2, <2>4, <2>8
<1> QED
  BY <1>1, FileIsSound, CommandsAreSound, PTL

\* No command that opened the database asks it for something the queue's
\* transactions are not written for: the checks of the handlers suffice.
THEOREM AcceptedLinesFit == CliSpec => []AcceptedRequestsFit
<1>1. CommandInv => AcceptedRequestsFit
  <2> SUFFICES ASSUME CommandInv, NEW p \in Procs, stage[p] = "open" PROVE Sound(line[p], 0)
    BY DEF AcceptedRequestsFit
  <2>1. WellFormed(line[p]) /\ Judged(line[p]) = Accepted
    BY DEF CommandInv, CommandOk
  <2> QED
    BY <2>1, AcceptedIsSound
<1> QED
  BY <1>1, CommandsAreSound, PTL

\* A config file that config-validate accepts never makes another command
\* fail: load_config_object is read by both.
THEOREM ValidConfigsResolve == CliSpec => []ValidatedConfigResolves
<1>1. CommandInv => ValidatedConfigResolves
  <2> SUFFICES ASSUME CommandInv, NEW p \in Procs, NEW q \in Procs,
                      Ended(p), line[p].verb = "config-validate", answer[p].ok,
                      Ended(q), line[q].verb = "config-show", answer[q].code = "INVALID_INPUT"
               PROVE  Resolution.source \in {"flag", "environment"}
    BY DEF ValidatedConfigResolves
  <2>1. LastWord(line[p], answer[p]) /\ LastWord(line[q], answer[q])
    BY DEF Ended, CommandInv, CommandOk
  <2>2. validate_config_file(world.config) = "ok" /\ Resolution.code # "ok"
    BY <2>1 DEF LastWord
  <2>3. load_config_object(world.config) = "ok"
    BY <2>2 DEF validate_config_file
  <2> QED
    BY <2>2, <2>3, ConfigCodes DEF CommandInv
<1> QED
  BY <1>1, CommandsAreSound, PTL
=============================================================================
