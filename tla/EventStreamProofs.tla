------------------------- MODULE EventStreamProofs --------------------------
(***************************************************************************)
(* What the readers of the ledger promise, for any number of jobs, readers *)
(* and events: a follower misses nothing, a paging client only what was    *)
(* committed between its two SELECTs, and nobody gets an event twice or    *)
(* out of order.                                                           *)
(***************************************************************************)
EXTENDS EventStream, WellFoundedInduction, FiniteSetTheorems, TLAPS

-----------------------------------------------------------------------------
(* Largest elements                                                        *)

\* A set of ids has a largest element, so MAX(id) is an id of the set.
LEMMA MaxFacts ==
    ASSUME NEW n \in Nat, NEW S \in SUBSET (0..n), S # {}
    PROVE  Max(S) \in S /\ \A x \in S : x <= Max(S)
<1> DEFINE T == {n - x : x \in S}
<1>1. T \subseteq Nat /\ T # {}
  <2>1. \A x \in S : n - x \in Nat
    OBVIOUS
  <2> QED
    BY <2>1
<1>2. \E m \in T : \A k \in T : ~ (<<k, m>> \in OpToRel(<, Nat))
  BY <1>1, NatLessThanWellFounded, WFMin
<1>3. PICK m \in T : \A k \in T : ~ (<<k, m>> \in OpToRel(<, Nat))
  BY <1>2
<1>4. \A k \in T : ~ (k < m)
  BY <1>1, <1>3 DEF OpToRel
<1>5. PICK x \in S : m = n - x
  BY <1>3
<1>6. \A y \in S : x >= y
  <2> SUFFICES ASSUME NEW y \in S PROVE x >= y
    OBVIOUS
  <2>1. n - y \in T
    OBVIOUS
  <2>2. ~ (n - y < n - x)
    BY <1>4, <1>5, <2>1
  <2> QED
    BY <2>2
<1>7. Max(S) \in S /\ \A y \in S : Max(S) >= y
  BY <1>6 DEF Max
<1> QED
  BY <1>7

-----------------------------------------------------------------------------
(* The inductive invariant                                                 *)

Points == {"idle", "probe", "list", "mark", "ended", "fetch", "emit"}

\* The retained events of r after c.
AfterAt(r, c) == {e \in Ids : e > c /\ Wanted(r, e)}

\* What R, the rows r has fetched, say about the ledger: none are left
\* over; nothing old; no
\* hole before a row of a follower; at the second SELECT of a page every
\* other event is raced or beyond a page that is too long.
RowsGood(r, at, c, R) ==
    /\ at \notin {"mark", "emit"} => R = {}
    /\ \A e \in R : c < e
    /\ r \in Followers => \A e \in AfterAt(r, c), i \in R : e <= i => e \in R
    /\ r \in Pollers /\ at = "mark" =>
         \A e \in AfterAt(r, c) :
             \/ e \in R
             \/ e \in raced[r]
             \/ /\ Limit[r] > 0
                /\ Cardinality(R) > Limit[r]
                /\ \A i \in R : i < e

\* What D, the events r has handed out, say: they come before all others,
\* and what is missing was raced.
DeliveryGood(r, s, c, R, D) ==
    /\ \A d \in D : \A e \in R \cup AfterAt(r, c) : d < e
    /\ \A e \in Ids :
         Wanted(r, e) /\ s < e /\ e <= c => e \in D \/ (r \in Pollers /\ e \in raced[r])

ReadersGood ==
    \A r \in Readers :
        /\ RowsGood(r, pc[r], cursor[r], rows[r])
        /\ DeliveryGood(r, start[r], cursor[r], rows[r], delivered[r])

StreamInv == StreamTypeOK /\ ReadersGood

\* It starts true: nobody has read anything.
LEMMA StreamInitInv == StreamInit => StreamInv
<1> SUFFICES ASSUME StreamInit PROVE StreamInv
  OBVIOUS
<1>1. Ids = {}
  BY DEF StreamInit, Ids
<1>2. StreamTypeOK
  BY <1>1 DEF StreamInit, StreamTypeOK, Readers
<1>3. ReadersGood
  BY <1>1 DEF StreamInit, ReadersGood, RowsGood, DeliveryGood, AfterAt
<1> QED
  BY <1>2, <1>3 DEF StreamInv

\* A step of one reader leaves the others alone.
LEMMA UpdateReader ==
    ASSUME StreamInv, NEW r \in Readers,
           NEW at \in Points, NEW s \in 0..lastId, NEW c \in 0..lastId,
           NEW R \in SUBSET (1..lastId), NEW D \in SUBSET (1..lastId),
           RowsGood(r, at, c, R), DeliveryGood(r, s, c, R, D),
           pc' = [pc EXCEPT ![r] = at], start' = [start EXCEPT ![r] = s],
           cursor' = [cursor EXCEPT ![r] = c], rows' = [rows EXCEPT ![r] = R],
           delivered' = [delivered EXCEPT ![r] = D],
           emitted' \in [Followers -> Nat],
           UNCHANGED <<lastId, ledger, pruned, raced>>
    PROVE  StreamInv'
<1>1. Ids' = Ids
  BY DEF Ids
<1>2. StreamTypeOK'
  BY <1>1 DEF StreamInv, StreamTypeOK, Points
<1>3. \A q \in Readers : \A a, b, y, z :
         /\ RowsGood(q, a, b, y)' <=> RowsGood(q, a, b, y)
         /\ DeliveryGood(q, a, b, y, z)' <=> DeliveryGood(q, a, b, y, z)
  BY <1>1 DEF RowsGood, DeliveryGood, AfterAt, Wanted
<1>4. ASSUME NEW q \in Readers
      PROVE  /\ RowsGood(q, pc'[q], cursor'[q], rows'[q])
             /\ DeliveryGood(q, start'[q], cursor'[q], rows'[q], delivered'[q])
  BY <1>4 DEF StreamInv, StreamTypeOK, ReadersGood
<1> QED
  BY <1>2, <1>3, <1>4 DEF StreamInv, ReadersGood
-----------------------------------------------------------------------------
(* The ledger                                                              *)

\* New events lie after everything a reader knows, and a poller between its
\* SELECTs has them in raced.
LEMMA AddPreserves ==
    ASSUME StreamInv, NEW j \in Jobs, NEW n \in 1..2, add_event(j, n)
    PROVE  StreamInv'
<1> DEFINE new == NextId..(NextId + n - 1)
<1>1. lastId \in Nat /\ lastId' \in Nat /\ lastId < lastId'
  BY DEF StreamInv, StreamTypeOK, add_event, NextId
<1>2. \A e \in new : e \in Nat /\ lastId < e /\ e <= lastId'
  BY <1>1 DEF add_event, NextId
<1>3. Ids' = Ids \cup new /\ Ids \cap new = {}
  BY <1>1, <1>2 DEF add_event, Ids, StreamInv, StreamTypeOK
<1>4. \A e \in Ids : ledger'[e] = ledger[e]
  BY <1>3 DEF add_event, Ids
<1>5. StreamTypeOK'
  <2>1. Ids' \subseteq 1..lastId' /\ ledger' \in [Ids' -> Jobs]
    BY <1>1, <1>2, <1>3 DEF StreamInv, StreamTypeOK, add_event, Ids
  <2>2. 1..lastId \subseteq 1..lastId' /\ 0..lastId \subseteq 0..lastId'
    BY <1>1
  <2>3. raced' \in [Pollers -> SUBSET (1..lastId')]
    BY <1>1, <1>2, <2>2 DEF StreamInv, StreamTypeOK, add_event
  <2>4. /\ start' \in [Readers -> 0..lastId'] /\ cursor' \in [Readers -> 0..lastId']
        /\ rows' \in [Readers -> SUBSET (1..lastId')]
        /\ delivered' \in [Readers -> SUBSET (1..lastId')]
    BY <2>2 DEF StreamInv, StreamTypeOK, add_event, readerVars
  <2> QED
    BY <1>1, <2>1, <2>3, <2>4 DEF StreamInv, StreamTypeOK, add_event, readerVars
<1>6. ASSUME NEW r \in Readers
      PROVE  /\ RowsGood(r, pc[r], cursor[r], rows[r])'
             /\ DeliveryGood(r, start[r], cursor[r], rows[r], delivered[r])'
  <2>1. /\ pc' = pc /\ cursor' = cursor /\ rows' = rows /\ start' = start
        /\ delivered' = delivered
    BY DEF add_event, readerVars
  <2>2. /\ cursor[r] \in 0..lastId
        /\ rows[r] \subseteq 1..lastId /\ delivered[r] \subseteq 1..lastId
    BY DEF StreamInv, StreamTypeOK
  <2>3. AfterAt(r, cursor[r])' \subseteq AfterAt(r, cursor[r]) \cup new
    BY <1>3, <1>4, <2>1 DEF AfterAt, Wanted
  <2>4. /\ RowsGood(r, pc[r], cursor[r], rows[r])
        /\ DeliveryGood(r, start[r], cursor[r], rows[r], delivered[r])
    BY DEF StreamInv, ReadersGood
  <2>5. r \in Pollers => /\ raced[r] \subseteq raced'[r]
                         /\ pc[r] = "mark" => new \subseteq raced'[r]
    BY DEF add_event
  <2>6. RowsGood(r, pc[r], cursor[r], rows[r])'
    <3>1. /\ pc[r] \notin {"mark", "emit"} => rows[r] = {}
          /\ \A e \in rows[r] : cursor[r] < e
      BY <2>4 DEF RowsGood
    <3>2. r \in Followers =>
            \A e \in AfterAt(r, cursor[r])', i \in rows[r] : e <= i => e \in rows[r]
      BY <1>1, <1>2, <2>2, <2>3, <2>4 DEF RowsGood
    <3>3. r \in Pollers /\ pc[r] = "mark" =>
            \A e \in AfterAt(r, cursor[r])' :
                \/ e \in rows[r]
                \/ e \in raced'[r]
                \/ /\ Limit[r] > 0
                   /\ Cardinality(rows[r]) > Limit[r]
                   /\ \A i \in rows[r] : i < e
      BY <2>3, <2>4, <2>5 DEF RowsGood
    <3> QED
      BY <2>1, <3>1, <3>2, <3>3 DEF RowsGood
  <2>7. DeliveryGood(r, start[r], cursor[r], rows[r], delivered[r])'
    <3>1. \A d \in delivered[r] : \A e \in rows[r] \cup AfterAt(r, cursor[r])' : d < e
      BY <1>1, <1>2, <2>2, <2>3, <2>4 DEF DeliveryGood
    <3>2. \A e \in Ids' : e <= cursor[r] => e \in Ids
      BY <1>1, <1>2, <1>3, <2>2
    <3>3. \A e \in Ids : Wanted(r, e)' => Wanted(r, e)
      BY <1>4 DEF Wanted
    <3> QED
      BY <2>1, <2>4, <2>5, <3>1, <3>2, <3>3 DEF DeliveryGood
  <2> QED
    BY <2>6, <2>7
<1> QED
  BY <1>5, <1>6 DEF StreamInv, ReadersGood

\* Pruning takes events away: fewer can be missed or come too late.
LEMMA PrunePreserves ==
    ASSUME StreamInv, NEW j \in Jobs, prune(j)
    PROVE  StreamInv'
<1>1. Ids' \subseteq Ids /\ \A e \in Ids' : ledger'[e] = ledger[e]
  BY DEF prune, Ids
<1>2. StreamTypeOK'
  <2>1. ledger' \in [Ids' -> Jobs]
    BY <1>1 DEF StreamInv, StreamTypeOK, prune, Ids
  <2> QED
    BY <1>1, <2>1 DEF StreamInv, StreamTypeOK, prune, readerVars
<1>3. ASSUME NEW r \in Readers
      PROVE  /\ RowsGood(r, pc[r], cursor[r], rows[r])'
             /\ DeliveryGood(r, start[r], cursor[r], rows[r], delivered[r])'
  <2>1. /\ pc' = pc /\ cursor' = cursor /\ rows' = rows /\ start' = start
        /\ delivered' = delivered /\ raced' = raced
    BY DEF prune, readerVars
  <2>2. AfterAt(r, cursor[r])' \subseteq AfterAt(r, cursor[r])
    BY <1>1, <2>1 DEF AfterAt, Wanted
  <2>3. \A e \in Ids' : Wanted(r, e)' => Wanted(r, e)
    BY <1>1 DEF Wanted
  <2>4. /\ RowsGood(r, pc[r], cursor[r], rows[r])
        /\ DeliveryGood(r, start[r], cursor[r], rows[r], delivered[r])
    BY DEF StreamInv, ReadersGood
  <2>5. RowsGood(r, pc[r], cursor[r], rows[r])'
    BY <2>1, <2>2, <2>4 DEF RowsGood
  <2>6. DeliveryGood(r, start[r], cursor[r], rows[r], delivered[r])'
    BY <1>1, <2>1, <2>2, <2>3, <2>4 DEF DeliveryGood
  <2> QED
    BY <2>5, <2>6
<1> QED
  BY <1>2, <1>3 DEF StreamInv, ReadersGood
-----------------------------------------------------------------------------
(* A page and its cursor                                                   *)

\* What the invariant says about one reader.
LEMMA ReaderFacts ==
    ASSUME StreamInv, NEW r \in Readers
    PROVE  /\ lastId \in Nat
           /\ Ids \subseteq 1..lastId
           /\ start[r] \in 0..lastId /\ cursor[r] \in 0..lastId
           /\ rows[r] \in SUBSET (1..lastId) /\ delivered[r] \in SUBSET (1..lastId)
           /\ RowsGood(r, pc[r], cursor[r], rows[r])
           /\ DeliveryGood(r, start[r], cursor[r], rows[r], delivered[r])
           /\ After(r) = AfterAt(r, cursor[r])
  BY DEF StreamInv, StreamTypeOK, ReadersGood, After, AfterAt

\* MAX(id), or 0, bounds the ledger.
LEMMA HighWater ==
    ASSUME StreamInv
    PROVE  /\ event_high_water \in 0..lastId
           /\ \A e \in Ids : e <= event_high_water
<1>1. lastId \in Nat /\ Ids \cup {0} \in SUBSET (0..lastId)
  BY DEF StreamInv, StreamTypeOK
<1> QED
  BY <1>1, MaxFacts DEF event_high_water

\* The page and cursor of a poller: a truncated page ends at its cursor and
\* leaves out only the row after it; any other cursor is not behind the
\* ledger.
LEMMA PageFacts ==
    ASSUME StreamInv, NEW p \in Pollers
    PROVE  /\ PageEvents(p) \subseteq rows[p]
           /\ PageCursor(p) \in 0..lastId
           /\ cursor[p] <= PageCursor(p)
           /\ Truncated(p) =>
                /\ \A e \in PageEvents(p) : e <= PageCursor(p)
                /\ \A e \in rows[p] : e <= PageCursor(p) => e \in PageEvents(p)
                /\ \E e \in rows[p] : PageCursor(p) < e
           /\ ~Truncated(p) =>
                /\ PageEvents(p) = rows[p]
                /\ \A e \in Ids : e <= PageCursor(p)
<1>1. p \in Readers
  BY DEF Readers
<1>2. /\ lastId \in Nat /\ cursor[p] \in 0..lastId /\ rows[p] \in SUBSET (1..lastId)
      /\ \A e \in rows[p] : cursor[p] < e
  BY <1>1, ReaderFacts DEF RowsGood
<1>3. PageEvents(p) \subseteq rows[p]
  BY DEF PageEvents
<1>4. CASE Truncated(p)
  <2> DEFINE R == rows[p]
             top == Max(R)
             E == R \ {top}
             m == Max(E)
  <2>1. Limit[p] \in Nat /\ Limit[p] > 0 /\ Cardinality(R) > Limit[p]
    BY <1>4, ReadersAssumption DEF ValidArgs, Truncated
  <2>2. R # {} /\ R \in SUBSET (0..lastId)
    BY <1>2, <2>1, FS_EmptySet
  <2>3. top \in R /\ \A e \in R : e <= top
    BY <1>2, <2>2, MaxFacts
  <2>4. E # {}
    <3>1. SUFFICES ASSUME E = {} PROVE FALSE
      OBVIOUS
    <3>2. R = {top}
      BY <2>3, <3>1
    <3>3. Cardinality(R) = 1
      BY <3>2, FS_Singleton
    <3> QED
      BY <2>1, <3>3
  <2>5. E \in SUBSET (0..lastId)
    BY <2>2
  <2>6. m \in E /\ \A e \in E : e <= m
    BY <1>2, <2>4, <2>5, MaxFacts
  <2>7. PageEvents(p) = E /\ PageCursor(p) = m
    BY <1>4 DEF PageEvents, PageCursor
  <2>8. m \in 1..lastId /\ top \in 1..lastId /\ cursor[p] < m /\ m < top
    BY <1>2, <2>3, <2>6
  <2>9. \A e \in R : e <= m => e \in E
    BY <2>8
  <2> HIDE DEF R, top, E, m
  <2>10. /\ PageCursor(p) \in 0..lastId /\ cursor[p] <= PageCursor(p)
         /\ \A e \in PageEvents(p) : e <= PageCursor(p)
    <3>1. m \in 0..lastId /\ cursor[p] <= m
      BY <1>2, <2>8
    <3> QED
      BY <2>6, <2>7, <3>1
  <2>11. /\ \A e \in R : e <= PageCursor(p) => e \in PageEvents(p)
         /\ \E e \in R : PageCursor(p) < e
    BY <2>3, <2>7, <2>8, <2>9
  <2> QED
    BY <1>3, <1>4, <2>10, <2>11 DEF R
<1>5. CASE ~Truncated(p)
  <2> DEFINE S == {cursor[p], event_high_water}
  <2>1. /\ event_high_water \in 0..lastId
        /\ \A e \in Ids : e <= event_high_water
    BY HighWater
  <2>2. S \in SUBSET (0..lastId) /\ S # {}
    BY <1>2, <2>1
  <2>3. Max(S) \in S /\ \A x \in S : x <= Max(S)
    BY <1>2, <2>2, MaxFacts
  <2>4. PageCursor(p) = Max(S) /\ PageEvents(p) = rows[p]
    BY <1>5 DEF PageCursor, PageEvents
  <2>5. /\ PageCursor(p) \in 0..lastId /\ cursor[p] <= PageCursor(p)
        /\ event_high_water <= PageCursor(p)
    BY <1>2, <2>1, <2>3, <2>4
  <2>6. Ids \subseteq 1..lastId
    BY <1>1, ReaderFacts
  <2>7. \A e \in Ids : e <= PageCursor(p)
    BY <1>2, <2>1, <2>5, <2>6
  <2> QED
    BY <1>3, <1>5, <2>4, <2>5, <2>7
<1> QED
  BY <1>4, <1>5

\* Handing out a page keeps the promises: what it passes over was raced.
LEMMA MarkPreserves ==
    ASSUME StreamInv, NEW p \in Pollers, Mark(p)
    PROVE  StreamInv'
<1> DEFINE c == PageCursor(p)
           D == delivered[p] \cup PageEvents(p)
<1>1. p \in Readers /\ p \notin Followers
  BY ReadersAssumption DEF ValidArgs, Readers
<1>2. /\ lastId \in Nat /\ Ids \subseteq 1..lastId
      /\ start[p] \in 0..lastId /\ cursor[p] \in 0..lastId
      /\ rows[p] \in SUBSET (1..lastId) /\ delivered[p] \in SUBSET (1..lastId)
      /\ RowsGood(p, "mark", cursor[p], rows[p])
      /\ DeliveryGood(p, start[p], cursor[p], rows[p], delivered[p])
  BY <1>1, ReaderFacts DEF Mark
<1>3. /\ PageEvents(p) \subseteq rows[p] /\ c \in 0..lastId /\ cursor[p] <= c
      /\ Truncated(p) =>
           /\ \A e \in PageEvents(p) : e <= c
           /\ \A e \in rows[p] : e <= c => e \in PageEvents(p)
           /\ \E e \in rows[p] : c < e
      /\ ~Truncated(p) => PageEvents(p) = rows[p] /\ \A e \in Ids : e <= c
  BY PageFacts
<1> HIDE DEF c
<1>4. RowsGood(p, "idle", c, {})
  BY <1>1 DEF RowsGood
<1>5. \A d \in D : \A e \in AfterAt(p, c) : d < e
  <2> SUFFICES ASSUME NEW d \in D, NEW e \in AfterAt(p, c) PROVE d < e
    OBVIOUS
  <2>1. e \in Ids /\ e > c /\ e \in Nat /\ e \in AfterAt(p, cursor[p])
    <3>1. e \in Ids /\ Wanted(p, e) /\ e > c
      BY DEF AfterAt
    <3>2. e \in Nat /\ c \in Nat /\ cursor[p] \in Nat
      <4>1. e \in 1..lastId /\ c \in 0..lastId /\ cursor[p] \in 0..lastId
        BY <1>2, <1>3, <3>1, Zenon
      <4> QED
        BY <1>2, <4>1
    <3>3. e > cursor[p]
      BY <1>3, <3>1, <3>2
    <3> QED
      BY <3>1, <3>2, <3>3 DEF AfterAt
  <2>2. Truncated(p)
    <3>1. ~ (e <= c)
      BY <1>2, <1>3, <2>1
    <3> QED
      BY <1>3, <2>1, <3>1
  <2>3. CASE d \in delivered[p]
    BY <1>2, <2>1, <2>3 DEF DeliveryGood
  <2>4. CASE d \in PageEvents(p)
    <3>1. d <= c /\ d \in Nat /\ c \in Nat
      BY <1>2, <1>3, <2>2, <2>4
    <3> QED
      BY <2>1, <3>1
  <2> QED
    BY <2>3, <2>4
<1>6. \A e \in Ids : Wanted(p, e) /\ start[p] < e /\ e <= c => e \in D \/ e \in raced[p]
  <2> SUFFICES ASSUME NEW e \in Ids, Wanted(p, e), start[p] < e, e <= c,
                      e \notin raced[p], e \notin delivered[p]
               PROVE  e \in PageEvents(p)
    OBVIOUS
  <2>1. e \in Nat /\ c \in Nat /\ cursor[p] \in Nat /\ rows[p] \subseteq Nat
    BY <1>2, <1>3
  <2>2. ~ (e <= cursor[p])
    BY <1>2 DEF DeliveryGood
  <2>3. e \in AfterAt(p, cursor[p])
    BY <2>1, <2>2 DEF AfterAt
  <2>4. \/ e \in rows[p]
        \/ Truncated(p) /\ \A i \in rows[p] : i < e
    BY <1>2, <2>3 DEF RowsGood, Truncated
  <2>5. e \in rows[p]
    BY <1>3, <2>1, <2>4
  <2> QED
    BY <1>3, <2>5
<1>7. DeliveryGood(p, start[p], c, {}, D)
  BY <1>5, <1>6 DEF DeliveryGood
<1>8. /\ pc' = [pc EXCEPT ![p] = "idle"] /\ start' = [start EXCEPT ![p] = start[p]]
      /\ cursor' = [cursor EXCEPT ![p] = c] /\ rows' = [rows EXCEPT ![p] = {}]
      /\ delivered' = [delivered EXCEPT ![p] = D]
      /\ emitted' \in [Followers -> Nat]
      /\ UNCHANGED <<lastId, ledger, pruned, raced>>
  BY DEF Mark, StreamInv, StreamTypeOK, c
<1>9. "idle" \in Points /\ {} \in SUBSET (1..lastId) /\ D \in SUBSET (1..lastId)
  BY <1>2, <1>3 DEF Points
<1> HIDE DEF D
<1> QED
  BY <1>1, <1>2, <1>3, <1>4, <1>7, <1>8, <1>9, UpdateReader
\* The first SELECT of a page sees everything up to its last row, and
\* everything at all unless it returns more rows than the limit.
LEMMA ListPreserves ==
    ASSUME StreamInv, NEW p \in Pollers, List(p)
    PROVE  StreamInv'
<1>1. p \in Readers /\ p \notin Followers /\ Limit[p] \in Nat
  BY ReadersAssumption DEF ValidArgs, Readers
<1>2. /\ lastId \in Nat /\ Ids \subseteq 1..lastId
      /\ start[p] \in 0..lastId /\ cursor[p] \in 0..lastId
      /\ delivered[p] \in SUBSET (1..lastId)
      /\ DeliveryGood(p, start[p], cursor[p], rows[p], delivered[p])
      /\ After(p) = AfterAt(p, cursor[p])
  BY <1>1, ReaderFacts
<1>3. PICK P \in SUBSET After(p) :
          /\ list_events(p, P, IF Limit[p] = 0 THEN 0 ELSE Limit[p] + 1)
          /\ rows' = [rows EXCEPT ![p] = P]
  BY DEF List
<1>4. P \subseteq AfterAt(p, cursor[p]) /\ P \in SUBSET (1..lastId)
  BY <1>2, <1>3 DEF AfterAt
<1>5. RowsGood(p, "mark", cursor[p], P)
  <2>1. \A e \in P : cursor[p] < e
    BY <1>2, <1>4 DEF AfterAt
  <2>2. ASSUME NEW e \in AfterAt(p, cursor[p]), e \notin P
        PROVE  /\ Limit[p] > 0 /\ Cardinality(P) > Limit[p]
               /\ \A i \in P : i < e
    <3>1. P # After(p)
      BY <1>2, <2>2
    <3>2. Limit[p] # 0 /\ IsFirst(P, After(p), Limit[p] + 1)
      BY <1>1, <1>3, <3>1 DEF list_events
    <3>3. Cardinality(P) = Limit[p] + 1 /\ \A i \in P : ~ (e < i)
      BY <1>2, <2>2, <3>1, <3>2 DEF IsFirst
    <3>4. \A i \in P : i \in Nat /\ e \in Nat /\ i # e
      <4>1. e \in 1..lastId /\ P \subseteq 1..lastId
        BY <1>2, <1>4 DEF AfterAt
      <4> QED
        BY <1>2, <2>2, <4>1
    <3> QED
      BY <1>1, <3>2, <3>3, <3>4
  <2> QED
    BY <1>1, <2>1, <2>2 DEF RowsGood
<1>6. DeliveryGood(p, start[p], cursor[p], P, delivered[p])
  BY <1>2, <1>4 DEF DeliveryGood
<1>7. /\ pc' = [pc EXCEPT ![p] = "mark"] /\ start' = [start EXCEPT ![p] = start[p]]
      /\ cursor' = [cursor EXCEPT ![p] = cursor[p]]
      /\ delivered' = [delivered EXCEPT ![p] = delivered[p]]
      /\ emitted' \in [Followers -> Nat]
      /\ UNCHANGED <<lastId, ledger, pruned, raced>>
  BY DEF List, StreamInv, StreamTypeOK
<1>8. "mark" \in Points
  BY DEF Points
<1> QED
  BY <1>1, <1>2, <1>3, <1>4, <1>5, <1>6, <1>7, <1>8, UpdateReader

\* Moving to a point without rows changes nothing the invariant speaks of.
LEMMA MovePreserves ==
    ASSUME StreamInv, NEW r \in Readers, NEW at \in Points \ {"mark", "emit"},
           pc' = [pc EXCEPT ![r] = at], rows' = [rows EXCEPT ![r] = {}],
           emitted' \in [Followers -> Nat],
           UNCHANGED <<lastId, ledger, pruned, raced, start, cursor, delivered>>
    PROVE  StreamInv'
<1>1. /\ start[r] \in 0..lastId /\ cursor[r] \in 0..lastId
      /\ {} \in SUBSET (1..lastId) /\ delivered[r] \in SUBSET (1..lastId)
  BY ReaderFacts
<1>2. RowsGood(r, at, cursor[r], {})
  BY DEF RowsGood
<1>3. DeliveryGood(r, start[r], cursor[r], {}, delivered[r])
  BY ReaderFacts DEF DeliveryGood
<1>4. /\ start' = [start EXCEPT ![r] = start[r]]
      /\ cursor' = [cursor EXCEPT ![r] = cursor[r]]
      /\ delivered' = [delivered EXCEPT ![r] = delivered[r]]
  BY DEF StreamInv, StreamTypeOK
<1> QED
  BY <1>1, <1>2, <1>3, <1>4, UpdateReader

\* A reader that neither pages nor prints holds no rows.
LEMMA NoRowsLeft ==
    ASSUME StreamInv, NEW r \in Readers, pc[r] \notin {"mark", "emit"}
    PROVE  rows[r] = {} /\ rows = [rows EXCEPT ![r] = {}]
<1>1. rows[r] = {}
  BY ReaderFacts DEF RowsGood
<1>2. rows = [rows EXCEPT ![r] = rows[r]]
  BY DEF StreamInv, StreamTypeOK
<1> QED
  BY <1>1, <1>2

\* Every step of a paging client keeps the invariant.
LEMMA PollPreserves ==
    ASSUME StreamInv, NEW p \in Pollers, PollNext(p)
    PROVE  StreamInv'
<1>1. p \in Readers
  BY DEF Readers
<1>2. CASE Mark(p)
  BY <1>2, MarkPreserves
<1>3. CASE List(p)
  BY <1>3, ListPreserves
<1>4. CASE Call(p) \/ Probe(p) \/ ProbeTimesOut(p) \/ Abort(p)
  <2>1. rows' = [rows EXCEPT ![p] = {}]
    BY <1>1, <1>4, NoRowsLeft DEF Call, Probe, ProbeTimesOut, Abort
  <2>2. \E at \in {"probe", "list", "idle"} : pc' = [pc EXCEPT ![p] = at]
    BY <1>4 DEF Call, Probe, ProbeTimesOut, Abort
  <2>3. {"probe", "list", "idle"} \subseteq Points \ {"mark", "emit"}
    BY DEF Points
  <2>4. /\ UNCHANGED <<lastId, ledger, pruned, raced, start, cursor, delivered>>
        /\ emitted' \in [Followers -> Nat]
    BY <1>4 DEF Call, Probe, ProbeTimesOut, Abort, StreamInv, StreamTypeOK
  <2> QED
    BY <1>1, <2>1, <2>2, <2>3, <2>4, MovePreserves
<1> QED
  BY <1>2, <1>3, <1>4 DEF PollNext

-----------------------------------------------------------------------------
(* Followers                                                               *)

\* A stream that starts anew has handed out nothing and missed nothing.
LEMMA FollowPreserves ==
    ASSUME StreamInv, NEW f \in Followers, Follow(f)
    PROVE  StreamInv'
<1>1. f \in Readers /\ f \notin Pollers
  BY ReadersAssumption DEF ValidArgs, Readers
<1>2. rows' = [rows EXCEPT ![f] = {}]
  BY <1>1, NoRowsLeft DEF Follow
<1>3. /\ pc' = [pc EXCEPT ![f] = "fetch"] /\ "fetch" \in Points \ {"mark", "emit"}
      /\ emitted' \in [Followers -> Nat]
      /\ UNCHANGED <<lastId, ledger, pruned, raced>>
  BY DEF Follow, Points, StreamInv, StreamTypeOK
<1>4. CASE UNCHANGED <<start, cursor, delivered>>
  BY <1>1, <1>2, <1>3, <1>4, MovePreserves
<1>5. ASSUME NEW since \in {0, event_high_water},
             start' = [start EXCEPT ![f] = since],
             cursor' = [cursor EXCEPT ![f] = since],
             delivered' = [delivered EXCEPT ![f] = {}]
      PROVE  StreamInv'
  <2>1. lastId \in Nat /\ Ids \subseteq 1..lastId /\ since \in 0..lastId
    BY <1>1, HighWater, ReaderFacts
  <2>2. RowsGood(f, "fetch", since, {})
    BY DEF RowsGood
  <2>3. DeliveryGood(f, since, since, {}, {})
    <3>1. \A e \in Ids : ~ (since < e /\ e <= since)
      BY <2>1
    <3> QED
      BY <3>1 DEF DeliveryGood
  <2>4. {} \in SUBSET (1..lastId)
    OBVIOUS
  <2> QED
    BY <1>1, <1>2, <1>3, <1>5, <2>1, <2>2, <2>3, <2>4, UpdateReader
<1> QED
  BY <1>4, <1>5 DEF Follow

\* A poll of a follower fetches all there is.
LEMMA FetchPreserves ==
    ASSUME StreamInv, NEW f \in Followers, Fetch(f)
    PROVE  StreamInv'
<1>1. f \in Readers /\ f \notin Pollers
  BY ReadersAssumption DEF ValidArgs, Readers
<1>2. /\ lastId \in Nat /\ Ids \subseteq 1..lastId
      /\ start[f] \in 0..lastId /\ cursor[f] \in 0..lastId
      /\ delivered[f] \in SUBSET (1..lastId)
      /\ DeliveryGood(f, start[f], cursor[f], rows[f], delivered[f])
      /\ After(f) = AfterAt(f, cursor[f])
  BY <1>1, ReaderFacts
<1>3. /\ After(f) \in SUBSET (1..lastId) /\ \A e \in After(f) : cursor[f] < e
  BY <1>2 DEF After
<1>4. RowsGood(f, "emit", cursor[f], After(f))
  BY <1>1, <1>2, <1>3 DEF RowsGood
<1>5. DeliveryGood(f, start[f], cursor[f], After(f), delivered[f])
  BY <1>2 DEF DeliveryGood
<1>6. /\ pc' = [pc EXCEPT ![f] = "emit"] /\ "emit" \in Points
      /\ rows' = [rows EXCEPT ![f] = After(f)]
      /\ start' = [start EXCEPT ![f] = start[f]]
      /\ cursor' = [cursor EXCEPT ![f] = cursor[f]]
      /\ delivered' = [delivered EXCEPT ![f] = delivered[f]]
      /\ emitted' \in [Followers -> Nat]
      /\ UNCHANGED <<lastId, ledger, pruned, raced>>
  BY DEF Fetch, Points, StreamInv, StreamTypeOK
<1> QED
  BY <1>1, <1>2, <1>3, <1>4, <1>5, <1>6, UpdateReader

\* The oldest fetched row is the oldest retained event after the cursor, so
\* the cursor may move to it.
LEMMA EmitPreserves ==
    ASSUME StreamInv, NEW f \in Followers, Emit(f)
    PROVE  StreamInv'
<1>1. f \in Readers /\ f \notin Pollers
  BY ReadersAssumption DEF ValidArgs, Readers
<1>2. /\ lastId \in Nat /\ Ids \subseteq 1..lastId
      /\ start[f] \in 0..lastId /\ cursor[f] \in 0..lastId
      /\ rows[f] \in SUBSET (1..lastId) /\ delivered[f] \in SUBSET (1..lastId)
      /\ RowsGood(f, "emit", cursor[f], rows[f])
      /\ DeliveryGood(f, start[f], cursor[f], rows[f], delivered[f])
  BY <1>1, ReaderFacts DEF Emit
<1>3. PICK e \in rows[f] :
          /\ \A i \in rows[f] : e <= i
          /\ cursor' = [cursor EXCEPT ![f] = e]
          /\ delivered' = [delivered EXCEPT ![f] = @ \cup {e}]
          /\ emitted' = [emitted EXCEPT ![f] = @ + 1]
          /\ \/ /\ pc' = [pc EXCEPT ![f] = "ended"]
                /\ rows' = [rows EXCEPT ![f] = {}]
             \/ /\ pc' = [pc EXCEPT ![f] = IF rows[f] = {e} THEN "fetch" ELSE "emit"]
                /\ rows' = [rows EXCEPT ![f] = @ \ {e}]
  BY DEF Emit
<1>4. /\ e \in Nat /\ e \in 0..lastId /\ {e} \subseteq 1..lastId
      /\ cursor[f] \in Nat /\ cursor[f] < e
  BY <1>2 DEF RowsGood
<1>5. \A i \in AfterAt(f, e) : i \in AfterAt(f, cursor[f]) /\ e < i /\ i \in Nat
  <2> SUFFICES ASSUME NEW i \in AfterAt(f, e)
               PROVE  i \in AfterAt(f, cursor[f]) /\ e < i /\ i \in Nat
    OBVIOUS
  <2>1. i \in Ids /\ Wanted(f, i) /\ i > e
    BY DEF AfterAt
  <2>2. i \in Nat
    BY <1>2, <2>1
  <2>3. i > cursor[f]
    BY <1>4, <2>1, <2>2
  <2> QED
    BY <1>4, <2>1, <2>2, <2>3 DEF AfterAt
<1> DEFINE D == delivered[f] \cup {e}
           left == rows[f] \ {e}
<1>6. \A i \in left : e < i
  <2> SUFFICES ASSUME NEW i \in left PROVE e < i
    OBVIOUS
  <2>1. i \in Nat /\ e <= i /\ i # e
    BY <1>2, <1>3
  <2> QED
    BY <1>4, <2>1
<1>7. ASSUME NEW at \in {"ended", "fetch", "emit"}, NEW R \in {{}, left},
             at # "emit" => R = {}
      PROVE  RowsGood(f, at, e, R)
  <2>1. \A i \in R : e < i
    BY <1>6
  <2>2. \A i \in AfterAt(f, e), k \in R : i <= k => i \in R
    BY <1>2, <1>4, <1>5 DEF RowsGood
  <2> QED
    BY <1>1, <1>7, <2>1, <2>2 DEF RowsGood
<1>8. ASSUME NEW R \in {{}, left} PROVE DeliveryGood(f, start[f], e, R, D)
  <2>1. \A d \in D : \A i \in R \cup AfterAt(f, e) : d < i
    BY <1>2, <1>5, <1>6 DEF DeliveryGood
  <2>2. ASSUME NEW i \in Ids, Wanted(f, i), start[f] < i, i <= e, i # e
        PROVE  i \in delivered[f]
    <3>1. i \in Nat
      BY <1>2
    <3>2. CASE i <= cursor[f]
      BY <1>1, <1>2, <2>2, <3>2 DEF DeliveryGood
    <3>3. CASE i > cursor[f]
      <4>1. i \in AfterAt(f, cursor[f])
        BY <2>2, <3>3 DEF AfterAt
      <4>2. i \in rows[f]
        BY <1>2, <2>2, <4>1 DEF RowsGood
      <4>3. e <= i
        BY <1>3, <4>2
      <4> QED
        BY <1>4, <2>2, <3>1, <4>3
    <3> QED
      BY <1>4, <3>1, <3>2, <3>3
  <2> QED
    BY <2>1, <2>2 DEF DeliveryGood
<1>9. \E at \in {"ended", "fetch", "emit"}, R \in {{}, left} :
          /\ at # "emit" => R = {}
          /\ pc' = [pc EXCEPT ![f] = at] /\ rows' = [rows EXCEPT ![f] = R]
  BY <1>3
<1>10. /\ delivered' = [delivered EXCEPT ![f] = D]
       /\ start' = [start EXCEPT ![f] = start[f]]
       /\ emitted' \in [Followers -> Nat]
       /\ UNCHANGED <<lastId, ledger, pruned, raced>>
  <2>1. emitted \in [Followers -> Nat] /\ start \in [Readers -> 0..lastId]
    BY DEF StreamInv, StreamTypeOK
  <2>2. emitted' \in [Followers -> Nat]
    BY <1>3, <2>1
  <2>3. UNCHANGED <<lastId, ledger, pruned, start, raced>>
    BY DEF Emit
  <2>4. start = [start EXCEPT ![f] = start[f]]
    BY <2>1
  <2> QED
    BY <1>3, <2>2, <2>3, <2>4
<1>11. D \in SUBSET (1..lastId) /\ left \in SUBSET (1..lastId)
  BY <1>2, <1>4
<1>12. {"ended", "fetch", "emit"} \subseteq Points
  BY DEF Points
<1>13. PICK at \in {"ended", "fetch", "emit"}, R \in {{}, left} :
          /\ at # "emit" => R = {}
          /\ pc' = [pc EXCEPT ![f] = at] /\ rows' = [rows EXCEPT ![f] = R]
  BY <1>9
<1>14. /\ RowsGood(f, at, e, R) /\ DeliveryGood(f, start[f], e, R, D)
       /\ at \in Points /\ R \in SUBSET (1..lastId)
  BY <1>7, <1>8, <1>11, <1>12, <1>13
<1>15. cursor' = [cursor EXCEPT ![f] = e]
  BY <1>3
<1> HIDE DEF D, left
<1> QED
  BY <1>1, <1>2, <1>4, <1>10, <1>11, <1>13, <1>14, <1>15, UpdateReader
\* Every step of a follower keeps the invariant.
LEMMA FollowerPreserves ==
    ASSUME StreamInv, NEW f \in Followers, FollowNext(f)
    PROVE  StreamInv'
<1>1. f \in Readers
  BY DEF Readers
<1>2. CASE Follow(f)
  BY <1>2, FollowPreserves
<1>3. CASE Fetch(f)
  BY <1>3, FetchPreserves
<1>4. CASE Emit(f)
  BY <1>4, EmitPreserves
<1>5. CASE IdleOut(f) \/ Interrupt(f)
  <2>1. rows' = [rows EXCEPT ![f] = {}]
    BY <1>1, <1>5, NoRowsLeft DEF IdleOut, Interrupt
  <2>2. /\ pc' = [pc EXCEPT ![f] = "ended"] /\ "ended" \in Points \ {"mark", "emit"}
        /\ UNCHANGED <<lastId, ledger, pruned, raced, start, cursor, delivered>>
        /\ emitted' \in [Followers -> Nat]
    BY <1>5 DEF IdleOut, Interrupt, Points, StreamInv, StreamTypeOK
  <2> QED
    BY <1>1, <2>1, <2>2, MovePreserves
<1> QED
  BY <1>2, <1>3, <1>4, <1>5 DEF FollowNext

-----------------------------------------------------------------------------
(* Theorems                                                                *)

\* A step of anybody keeps the invariant.
LEMMA StreamStep == StreamInv /\ [StreamNext]_streamVars => StreamInv'
<1> SUFFICES ASSUME StreamInv, [StreamNext]_streamVars PROVE StreamInv'
  OBVIOUS
<1>1. CASE LedgerNext
  BY <1>1, AddPreserves, PrunePreserves DEF LedgerNext
<1>2. CASE \E p \in Pollers : PollNext(p)
  BY <1>2, PollPreserves
<1>3. CASE \E f \in Followers : FollowNext(f)
  BY <1>3, FollowerPreserves
<1>4. CASE UNCHANGED streamVars
  BY <1>4 DEF streamVars, StreamInv, StreamTypeOK, ReadersGood, RowsGood,
              DeliveryGood, AfterAt, Wanted, Ids
<1> QED
  BY <1>1, <1>2, <1>3, <1>4 DEF StreamNext

\* The invariant holds in every reachable state of the ledger and its
\* readers.
THEOREM StreamIsSafe == StreamSpec => []StreamInv
  BY StreamInitInv, StreamStep, PTL DEF StreamSpec

\* No follower ever passes over a retained event (_run_events_follow).
THEOREM FollowersAreComplete == StreamSpec => []FollowerMissesNothing
<1>1. StreamInv => FollowerMissesNothing
  BY ReadersAssumption
  DEF ValidArgs, StreamInv, ReadersGood, DeliveryGood, FollowerMissesNothing, Missed, Readers
<1> QED
  BY <1>1, StreamIsSafe, PTL

\* A paging client can lose only events committed between its two SELECTs
\* (_event_page).
THEOREM PagesLoseOnlyRaced == StreamSpec => []PollerMissesOnlyRaced
<1>1. StreamInv => PollerMissesOnlyRaced
  BY DEF StreamInv, ReadersGood, DeliveryGood, PollerMissesOnlyRaced, Missed, Readers
<1> QED
  BY <1>1, StreamIsSafe, PTL

\* No reader hands out an event twice.
THEOREM EventsComeOnce == StreamSpec => []NeverTwice
<1>1. StreamInv => NeverTwice
  <2> SUFFICES ASSUME StreamInv, NEW r \in Readers, NEW e \in delivered[r],
                      e \in rows[r] \cup After(r)
               PROVE  FALSE
    BY DEF NeverTwice
  <2>1. e \in Nat /\ e < e
    BY ReaderFacts DEF DeliveryGood
  <2> QED
    BY <2>1
<1> QED
  BY <1>1, StreamIsSafe, PTL

\* What InOrder demands of reader r.
LEMMA StepInOrder ==
    ASSUME StreamInv, StreamNext, NEW r \in Readers, pc[r] # "ended"
    PROVE  /\ cursor[r] <= cursor'[r]
           /\ \A d \in delivered[r], e \in delivered'[r] \ delivered[r] : d < e
<1>1. /\ lastId \in Nat /\ cursor[r] \in 0..lastId
      /\ rows[r] \in SUBSET (1..lastId)
      /\ \A e \in rows[r] : cursor[r] < e
      /\ \A d \in delivered[r] : \A e \in rows[r] : d < e
  BY ReaderFacts DEF RowsGood, DeliveryGood
<1>2. SUFFICES cursor[r] <= cursor'[r] /\ delivered'[r] \ delivered[r] \subseteq rows[r]
  BY <1>1
<1>3. cursor \in [Readers -> 0..lastId] /\ delivered \in [Readers -> SUBSET (1..lastId)]
  BY DEF StreamInv, StreamTypeOK
<1>4. CASE cursor'[r] = cursor[r] /\ delivered'[r] = delivered[r]
  BY <1>1, <1>4
<1>5. ASSUME NEW p \in Pollers, Mark(p), p = r
      PROVE  cursor[r] <= cursor'[r] /\ delivered'[r] \ delivered[r] \subseteq rows[r]
  <2>1. PageEvents(p) \subseteq rows[p] /\ cursor[p] <= PageCursor(p)
    BY PageFacts
  <2>2. cursor'[r] = PageCursor(p) /\ delivered'[r] = delivered[r] \cup PageEvents(p)
    BY <1>3, <1>5 DEF Mark
  <2> QED
    BY <1>5, <2>1, <2>2
<1>6. ASSUME NEW f \in Followers, Emit(f), f = r
      PROVE  cursor[r] <= cursor'[r] /\ delivered'[r] \ delivered[r] \subseteq rows[r]
  <2>1. PICK e \in rows[r] : cursor'[r] = e /\ delivered'[r] = delivered[r] \cup {e}
    BY <1>3, <1>6 DEF Emit
  <2>2. cursor[r] <= e
    BY <1>1
  <2> QED
    BY <2>1, <2>2
<1>7. CASE LedgerNext
  BY <1>4, <1>7 DEF LedgerNext, add_event, prune, readerVars
<1>8. ASSUME NEW p \in Pollers, PollNext(p)
      PROVE  cursor[r] <= cursor'[r] /\ delivered'[r] \ delivered[r] \subseteq rows[r]
  <2>1. CASE Mark(p) /\ p = r
    BY <1>5, <2>1
  <2>2. CASE ~ (Mark(p) /\ p = r)
    BY <1>3, <1>4, <1>8, <2>2
    DEF PollNext, Call, Probe, ProbeTimesOut, List, Mark, Abort
  <2> QED
    BY <2>1, <2>2
<1>9. ASSUME NEW f \in Followers, FollowNext(f)
      PROVE  cursor[r] <= cursor'[r] /\ delivered'[r] \ delivered[r] \subseteq rows[r]
  <2>1. CASE Emit(f) /\ f = r
    BY <1>6, <2>1
  <2>2. CASE ~ (Emit(f) /\ f = r)
    BY <1>3, <1>4, <1>9, <2>2
    DEF FollowNext, Follow, Fetch, Emit, IdleOut, Interrupt
  <2> QED
    BY <2>1, <2>2
<1> QED
  BY <1>7, <1>8, <1>9 DEF StreamNext

\* Every running stream is in order and no cursor rewinds.
THEOREM StreamsAreOrdered == StreamSpec => InOrder
<1>1. StreamInv /\ [StreamNext]_streamVars =>
        [\A r \in Readers :
            pc[r] # "ended" =>
                /\ cursor[r] <= cursor'[r]
                /\ \A d \in delivered[r], e \in delivered'[r] \ delivered[r] : d < e
        ]_streamVars
  BY StepInOrder
<1> QED
  BY <1>1, StreamIsSafe, PTL DEF StreamSpec, InOrder
=============================================================================
