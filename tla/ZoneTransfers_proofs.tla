------------------------- MODULE ZoneTransfers_proofs -------------------------
(***************************************************************************)
(* Proofs about ZoneTransfers for every set of zones, primaries and        *)
(* retrieval threads and every number of versions and events.              *)
(*                                                                         *)
(* A step here is one of ZoneTransfers, or one of its surroundings that    *)
(* only counts as an event (AuthReplication has such steps).               *)
(***************************************************************************)
EXTENDS ZoneTransfers, FiniteSetTheorems, SequenceTheorems, WellFoundedInduction, TLAPS

-----------------------------------------------------------------------------
(* Sequences.                                                              *)

\* What InsertAt returns.
LEMMA InsertAtSpec ==
    ASSUME NEW S, NEW q \in Seq(S), NEW r \in S, NEW k \in 1 .. Len(q) + 1
    PROVE  /\ InsertAt(q, k, r) \in Seq(S)
           /\ Len(InsertAt(q, k, r)) = Len(q) + 1
           /\ \A i \in 1 .. Len(q) + 1 :
                 InsertAt(q, k, r)[i] = IF i < k THEN q[i]
                                        ELSE IF i = k THEN r ELSE q[i - 1]
<1> DEFINE a == SubSeq(q, 1, k - 1)
           b == SubSeq(q, k, Len(q))
<1>1. /\ a \in Seq(S) /\ Len(a) = k - 1
      /\ \A i \in 1 .. k - 1 : a[i] = q[i]
  OBVIOUS
<1>2. /\ b \in Seq(S) /\ Len(b) = Len(q) - k + 1
      /\ \A i \in 1 .. Len(q) - k + 1 : b[i] = q[k + i - 1]
  OBVIOUS
<1> HIDE DEF a, b
<1>3. /\ <<r>> \in Seq(S) /\ Len(<<r>>) = 1 /\ <<r>>[1] = r
  OBVIOUS
<1> DEFINE c == a \o <<r>>
<1>4. /\ c \in Seq(S) /\ Len(c) = k
      /\ \A i \in 1 .. k : c[i] = IF i < k THEN q[i] ELSE r
  BY <1>1, <1>3
<1> HIDE DEF c
<1> DEFINE d == c \o b
<1>5. /\ d \in Seq(S) /\ Len(d) = Len(q) + 1
      /\ \A i \in 1 .. Len(q) + 1 :
            d[i] = IF i <= k THEN c[i] ELSE b[i - k]
  BY <1>2, <1>4, ConcatProperties
<1>6. InsertAt(q, k, r) = d
  BY DEF InsertAt, a, b, c
<1> HIDE DEF d
<1>7. ASSUME NEW i \in 1 .. Len(q) + 1
      PROVE  d[i] = IF i < k THEN q[i] ELSE IF i = k THEN r ELSE q[i - 1]
  <2>1. CASE i <= k
    BY <1>4, <1>5, <2>1
  <2>2. CASE i > k
    <3>1. i - k \in 1 .. Len(q) - k + 1 /\ k + (i - k) - 1 = i - 1
      BY <2>2
    <3>2. b[i - k] = q[k + (i - k) - 1]
      BY <1>2, <3>1
    <3>3. b[i - k] = q[i - 1]
      BY <3>1, <3>2
    <3> QED BY <1>5, <2>2, <3>3
  <2> QED BY <2>1, <2>2
<1> QED BY <1>5, <1>6, <1>7

\* What RemoveAt returns.
LEMMA RemoveAtSpec ==
    ASSUME NEW S, NEW q \in Seq(S), NEW k \in 1 .. Len(q)
    PROVE  /\ RemoveAt(q, k) \in Seq(S)
           /\ Len(RemoveAt(q, k)) = Len(q) - 1
           /\ \A i \in 1 .. Len(q) - 1 :
                 RemoveAt(q, k)[i] = IF i < k THEN q[i] ELSE q[i + 1]
<1> DEFINE a == SubSeq(q, 1, k - 1)
           b == SubSeq(q, k + 1, Len(q))
<1>1. /\ a \in Seq(S) /\ Len(a) = k - 1
      /\ \A i \in 1 .. k - 1 : a[i] = q[i]
  OBVIOUS
<1>2. /\ b \in Seq(S) /\ Len(b) = Len(q) - k
      /\ \A i \in 1 .. Len(q) - k : b[i] = q[k + i]
  OBVIOUS
<1> HIDE DEF a, b
<1> DEFINE d == a \o b
<1>3. /\ d \in Seq(S) /\ Len(d) = Len(q) - 1
      /\ \A i \in 1 .. Len(q) - 1 :
            d[i] = IF i <= k - 1 THEN a[i] ELSE b[i - (k - 1)]
  BY <1>1, <1>2, ConcatProperties
<1>4. RemoveAt(q, k) = d
  BY DEF RemoveAt, a, b
<1> HIDE DEF d
<1>5. ASSUME NEW i \in 1 .. Len(q) - 1
      PROVE  d[i] = IF i < k THEN q[i] ELSE q[i + 1]
  <2>1. CASE i < k
    BY <1>1, <1>3, <2>1
  <2>2. CASE i >= k
    <3>1. i - (k - 1) \in 1 .. Len(q) - k /\ k + (i - (k - 1)) = i + 1
      BY <2>2
    <3>2. b[i - (k - 1)] = q[k + (i - (k - 1))]
      BY <1>2, <3>1
    <3>3. b[i - (k - 1)] = q[i + 1]
      BY <3>1, <3>2
    <3> QED BY <1>3, <2>2, <3>3
  <2> QED BY <2>1, <2>2
<1> QED BY <1>3, <1>4, <1>5

-----------------------------------------------------------------------------
(* The queue.                                                              *)

\* No two requests are for the same zone and primary.
Unique(q) ==
    \A i, j \in 1 .. Len(q) :
        q[i].zone = q[j].zone /\ q[i].primary = q[j].primary => i = j

\* A request is inserted at one place, and the others keep their order.
LEMMA InsertSpec ==
    ASSUME NEW q \in Seq(Requests), NEW r \in Requests
    PROVE  /\ Insert(q, r) \in Seq(Requests)
           /\ Len(Insert(q, r)) = Len(q) + 1
           /\ \E k \in 1 .. Len(q) + 1 : \A i \in 1 .. Len(q) + 1 :
                 Insert(q, r)[i] = IF i < k THEN q[i]
                                   ELSE IF i = k THEN r ELSE q[i - 1]
<1> DEFINE B == {i \in 1 .. Len(q) : q[i].prio <= r.prio}
           k == 1 + Cardinality(B)
<1>0. Len(q) \in Nat
  OBVIOUS
<1>1. IsFiniteSet(1 .. Len(q)) /\ Cardinality(1 .. Len(q)) = Len(q)
  BY <1>0, FS_Interval
<1>2. B \in SUBSET (1 .. Len(q))
  OBVIOUS
<1>3. Insert(q, r) = InsertAt(q, k, r)
  BY DEF Insert
<1> HIDE DEF B
<1>4. Cardinality(B) \in Nat /\ Cardinality(B) <= Len(q)
  BY <1>1, <1>2, FS_Subset, FS_CardinalityType
<1>5. k \in 1 .. Len(q) + 1
  BY <1>4
<1> HIDE DEF k
<1>6. /\ InsertAt(q, k, r) \in Seq(Requests)
      /\ Len(InsertAt(q, k, r)) = Len(q) + 1
      /\ \A i \in 1 .. Len(q) + 1 :
            InsertAt(q, k, r)[i] = IF i < k THEN q[i] ELSE IF i = k THEN r ELSE q[i - 1]
  BY <1>5, InsertAtSpec
<1> DEFINE s == Insert(q, r)
<1>7. /\ s \in Seq(Requests)
      /\ Len(s) = Len(q) + 1
      /\ \A i \in 1 .. Len(q) + 1 :
            s[i] = IF i < k THEN q[i] ELSE IF i = k THEN r ELSE q[i - 1]
  BY <1>3, <1>6
<1> HIDE DEF s
<1>8. \E x \in 1 .. Len(q) + 1 : \A i \in 1 .. Len(q) + 1 :
         s[i] = IF i < x THEN q[i] ELSE IF i = x THEN r ELSE q[i - 1]
  BY <1>5, <1>7, Zenon
<1> QED BY <1>7, <1>8 DEF s

\* A request that was not there leaves the queue without duplicates.
LEMMA InsertUnique ==
    ASSUME NEW q \in Seq(Requests), NEW r \in Requests, Unique(q),
           \A i \in 1 .. Len(q) : ~ (q[i].zone = r.zone /\ q[i].primary = r.primary)
    PROVE  Unique(Insert(q, r))
<1> DEFINE s == Insert(q, r)
<1>1. PICK k \in 1 .. Len(q) + 1 : \A i \in 1 .. Len(q) + 1 :
          s[i] = IF i < k THEN q[i] ELSE IF i = k THEN r ELSE q[i - 1]
  BY InsertSpec
<1>2. Len(s) = Len(q) + 1
  BY InsertSpec
<1> HIDE DEF s
<1> SUFFICES ASSUME NEW i \in 1 .. Len(q) + 1, NEW j \in 1 .. Len(q) + 1, i < j
             PROVE  ~ (s[i].zone = s[j].zone /\ s[i].primary = s[j].primary)
  BY <1>2 DEF Unique, s
<1>3. CASE i < k /\ j < k
  BY <1>1, <1>3 DEF Unique
<1>4. CASE i < k /\ j = k
  BY <1>1, <1>4
<1>5. CASE i < k /\ j > k
  <2>1. s[i] = q[i] /\ s[j] = q[j - 1] /\ j - 1 \in 1 .. Len(q) /\ i # j - 1
    BY <1>1, <1>5
  <2> QED BY <1>5, <2>1 DEF Unique
<1>6. CASE i = k
  <2>1. s[i] = r /\ s[j] = q[j - 1] /\ j - 1 \in 1 .. Len(q)
    BY <1>1, <1>6
  <2> QED BY <2>1
<1>7. CASE i > k
  <2>1. /\ s[i] = q[i - 1] /\ s[j] = q[j - 1]
        /\ j - 1 \in 1 .. Len(q) /\ i - 1 \in 1 .. Len(q) /\ i - 1 # j - 1
    BY <1>1, <1>7
  <2> QED BY <2>1 DEF Unique
<1> QED BY <1>3, <1>4, <1>5, <1>6, <1>7

\* The request that is taken out is gone, and the others are still unique.
LEMMA RemoveUnique ==
    ASSUME NEW q \in Seq(Requests), NEW k \in 1 .. Len(q), Unique(q)
    PROVE  /\ Unique(RemoveAt(q, k))
           /\ \A i \in 1 .. Len(RemoveAt(q, k)) :
                 ~ (/\ RemoveAt(q, k)[i].zone = q[k].zone
                    /\ RemoveAt(q, k)[i].primary = q[k].primary)
<1> DEFINE s == RemoveAt(q, k)
           Old(i) == IF i < k THEN i ELSE i + 1
<1>1. Len(s) = Len(q) - 1
  BY RemoveAtSpec
<1>2. \A i \in 1 .. Len(q) - 1 : /\ Old(i) \in (1 .. Len(q)) \ {k}
                                 /\ s[i] = q[Old(i)]
  BY RemoveAtSpec
<1>3. \A i, j \in 1 .. Len(q) - 1 : Old(i) = Old(j) => i = j
  OBVIOUS
<1> HIDE DEF s, Old
<1>4. Unique(s)
  BY <1>1, <1>2, <1>3 DEF Unique
<1>5. \A i \in 1 .. Len(s) : ~ (s[i].zone = q[k].zone /\ s[i].primary = q[k].primary)
  BY <1>1, <1>2 DEF Unique
<1> QED BY <1>4, <1>5 DEF s

\* addSuckRequest keeps the requests unique, and posts the semaphore exactly when
\* the queue becomes longer.
LEMMA AddSuckRequestSpec ==
    ASSUME UniQueue, sem \in Nat, NEW z \in Zones, NEW p \in Primaries,
           NEW prio \in Priorities, AddSuckRequest(z, p, prio)
    PROVE  /\ UniQueue' /\ sem' \in Nat
           /\ sem' - sem = Len(queue') - Len(queue)
<1> DEFINE r == Request(z, p, prio)
<1>0. /\ r \in Requests /\ r.zone = z /\ r.primary = p
      /\ queue \in Seq(Requests) /\ Unique(queue)
  BY DEF Request, Requests, UniQueue, Unique
<1> HIDE DEF r
<1>1. CASE ~ Queued(z, p) /\ queue' = Insert(queue, r) /\ sem' = sem + 1
  <2>1. \A i \in 1 .. Len(queue) : ~ (queue[i].zone = r.zone /\ queue[i].primary = r.primary)
    BY <1>0, <1>1 DEF Queued
  <2>2. Unique(queue') /\ queue' \in Seq(Requests) /\ Len(queue') = Len(queue) + 1
    BY <1>0, <1>1, <2>1, InsertUnique, InsertSpec
  <2> QED BY <1>0, <1>1, <2>2 DEF UniQueue, Unique
<1>2. ASSUME NEW i \in 1 .. Len(queue),
             queue[i].zone = z, queue[i].primary = p,
             queue' = IF prio < queue[i].prio THEN Insert(RemoveAt(queue, i), r) ELSE queue,
             sem' = sem
      PROVE  UniQueue' /\ Len(queue') = Len(queue)
  <2>1. CASE prio < queue[i].prio
    <3> DEFINE q == RemoveAt(queue, i)
    <3>1. q \in Seq(Requests) /\ Len(q) = Len(queue) - 1
      BY <1>0, RemoveAtSpec
    <3>2. Unique(q) /\ \A j \in 1 .. Len(q) : ~ (q[j].zone = r.zone /\ q[j].primary = r.primary)
      BY <1>0, <1>2, RemoveUnique
    <3>3. queue' = Insert(q, r)
      BY <1>2, <2>1
    <3> HIDE DEF q
    <3>4. Unique(queue') /\ queue' \in Seq(Requests) /\ Len(queue') = Len(q) + 1
      BY <1>0, <3>1, <3>2, <3>3, InsertUnique, InsertSpec
    <3> QED BY <1>0, <3>1, <3>4 DEF UniQueue, Unique
  <2>2. CASE ~ (prio < queue[i].prio)
    BY <1>2, <2>2 DEF UniQueue
  <2> QED BY <2>1, <2>2
<1> QED BY <1>0, <1>1, <1>2 DEF AddSuckRequest, r

-----------------------------------------------------------------------------
(* Steps and types.                                                        *)

\* A step of this component, or an event elsewhere.
EventElsewhere ==
    /\ \E kind \in EventKinds : Event(kind)
    /\ UNCHANGED <<dbVars, dataVars, mainVars, threadVars>>

AnyStep == [Next]_vars \/ EventElsewhere

\* A thread that works on a request has one.
RequestKnown ==
    \A t \in Retrievers : Serving(t) \/ pc[t] = "suck" => req[t] \in Requests

\* A check that was answered was answered by a primary.
CheckKnown ==
    \A z \in Zones :
        chk[z].st \in {"answered", "compared"} => chk[z].primary \in Primaries

\* Events are counted up to their bound.
LEMMA EventType ==
    ASSUME TypeOK, NEW kind \in EventKinds, Event(kind)
    PROVE  events' \in [EventKinds -> 0 .. MaxEvents] /\ theirs' = theirs
<1>1. \A k \in EventKinds : events[k] \in 0 .. MaxEvents
  BY DEF TypeOK, DataTypes
<1>2. events[kind] < MaxEvents
  BY <1>1, TransferAssumption DEF Event, EventKinds
<1> QED BY <1>1, <1>2, TransferAssumption DEF Event, TypeOK, DataTypes

\* The checks that are made from nothing.
LEMMA NewCheckType ==
    /\ NoCheck \in Checks /\ NoCheck.st = "none"
    /\ \A ps \in SUBSET Primaries, b \in BOOLEAN :
          PickedCheck(ps, b) \in Checks /\ PickedCheck(ps, b).st = "picked"
<1>1. 0 \in 0 .. MaxSerial
  BY TransferAssumption
<1> QED BY <1>1 DEF NoCheck, PickedCheck, Checks

\* What the steps of a check make of it.
LEMMA CheckType ==
    ASSUME NEW c \in Checks
    PROVE  /\ c.from \subseteq Primaries /\ c.notified \in BOOLEAN
           /\ [c EXCEPT !.st = "asked"] \in Checks
           /\ [c EXCEPT !.st = "asked"].st = "asked"
           /\ [c EXCEPT !.st = "silent"] \in Checks
           /\ [c EXCEPT !.st = "silent"].st = "silent"
           /\ \A v \in 0 .. MaxSerial :
                 /\ [c EXCEPT !.st = "compared", !.ours = v] \in Checks
                 /\ [c EXCEPT !.st = "compared", !.ours = v].primary = c.primary
  BY DEF Checks

\* An answer makes it a check answered by that primary.
LEMMA AnswerType ==
    ASSUME NEW c \in Checks, NEW p \in Primaries, NEW v \in 0 .. MaxSerial
    PROVE  /\ [c EXCEPT !.st = "answered", !.primary = p, !.theirs = v] \in Checks
           /\ [c EXCEPT !.st = "answered", !.primary = p, !.theirs = v].primary = p
  BY DEF Checks

\* What adding a request to the queue keeps of the types.
LEMMA AddTypes ==
    ASSUME TypeOK, NEW z \in Zones, NEW p \in Primaries, NEW prio \in Priorities,
           AddSuckRequest(z, p, prio)
    PROVE  UniQueue' /\ sem' \in Nat
  BY AddSuckRequestSpec DEF TypeOK, DataTypes

\* The main thread keeps the types.
LEMMA MainTypes ==
    ASSUME TypeOK, CheckKnown, MainStep
    PROVE  TypeOK' /\ CheckKnown'
<1> USE TransferAssumption DEF TypeOK, DatabaseTypes, ThreadTypes, SetCheck, Versions
<1>0. /\ NoCheck \in Checks /\ NoCheck.st = "none"
      /\ \A z \in Zones : chk[z] \in Checks
  <2>1. \A z \in Zones : chk[z] \in Checks
    OBVIOUS
  <2> QED BY <2>1, NewCheckType
<1>1. CASE Collect
  <2>1. DataTypes' /\ DatabaseTypes'
    BY <1>1 DEF Collect, DataTypes, UniQueue, Requeued, dbVars, worldVars
  <2>2. ASSUME NEW z \in Zones
        PROVE  chk'[z] \in Checks /\ chk'[z].st \in {"picked", "none"}
    <3>1. \/ chk'[z] = PickedCheck(tocheck[z], TRUE)
          \/ chk'[z] = PickedCheck(Primaries, FALSE)
          \/ chk'[z] = NoCheck
      BY <1>1 DEF Collect
    <3>2. tocheck[z] \in SUBSET Primaries
      BY DEF DataTypes
    <3> HIDE DEF TypeOK
    <3> QED BY <1>0, <3>1, <3>2, NewCheckType
  <2>3. chk' = [z \in Zones |-> chk'[z]]
    BY <1>1 DEF Collect
  <2>4. chk' \in [Zones -> Checks]
    BY <2>2, <2>3, Zenon
  <2>5. CheckKnown'
    BY <2>2 DEF CheckKnown
  <2> QED BY <1>1, <2>1, <2>4, <2>5 DEF Collect, threadVars
<1>2. CASE Select
  <2>2. ASSUME NEW z \in Zones
        PROVE  chk'[z] \in Checks /\ chk'[z].st \in {"asked", "none"}
    <3>1. \/ chk'[z] = [chk[z] EXCEPT !.st = "asked"]
          \/ chk'[z] = NoCheck
      BY <1>2 DEF Select
    <3>2. chk[z] \in Checks
      BY <1>0
    <3>3. /\ [chk[z] EXCEPT !.st = "asked"] \in Checks
          /\ [chk[z] EXCEPT !.st = "asked"].st = "asked"
      BY <3>2, CheckType, Zenon
    <3> HIDE DEF TypeOK
    <3> QED BY <1>0, <3>1, <3>3, Zenon
  <2>3. chk' = [z \in Zones |-> chk'[z]]
    BY <1>2 DEF Select
  <2>4. chk' \in [Zones -> Checks]
    BY <2>2, <2>3, Zenon
  <2>5. CheckKnown'
    BY <2>2 DEF CheckKnown
  <2> QED BY <1>2, <2>4, <2>5 DEF Select, DataTypes, UniQueue, dbVars, dataVars, threadVars, worldVars
<1>3. CASE EndRefresh
  BY <1>3 DEF EndRefresh, DataTypes, UniQueue, CheckKnown, dbVars, dataVars, threadVars, worldVars
<1>4. ASSUME NEW z \in Zones, NEW c \in Checks, SetCheck(z, c),
             c.st \in {"answered", "compared"} => c.primary \in Primaries
      PROVE  chk' \in [Zones -> Checks] /\ CheckKnown'
  BY <1>4 DEF CheckKnown
<1>5. ASSUME NEW z \in Zones, Answered(z)
      PROVE  TypeOK' /\ CheckKnown'
  <2>0. chk[z] \in Checks /\ chk[z].from \subseteq Primaries
    BY <1>0, CheckType, Zenon
  <2>1. PICK p \in chk[z].from :
          SetCheck(z, [chk[z] EXCEPT !.st = "answered", !.primary = p, !.theirs = theirs[p][z]])
    BY <1>5 DEF Answered
  <2>2. p \in Primaries /\ theirs[p][z] \in 0 .. MaxSerial
    BY <2>0, <2>1
  <2> DEFINE c == [chk[z] EXCEPT !.st = "answered", !.primary = p, !.theirs = theirs[p][z]]
  <2>3. c \in Checks /\ c.primary = p
    <3> HIDE DEF TypeOK
    <3> QED BY <2>0, <2>2, AnswerType, Zenon
  <2> HIDE DEF c
  <2>4. chk' \in [Zones -> Checks] /\ CheckKnown'
    BY <1>4, <2>1, <2>2, <2>3 DEF c
  <2> QED BY <1>5, <2>4 DEF Answered, DataTypes, UniQueue, dbVars, dataVars, threadVars, worldVars
<1>6. ASSUME NEW z \in Zones, Unanswered(z)
      PROVE  TypeOK' /\ CheckKnown'
  <2> DEFINE c == [chk[z] EXCEPT !.st = "silent"]
  <2>1. c \in Checks /\ c.st = "silent"
    BY <1>0, CheckType, Zenon
  <2>2. SetCheck(z, c)
    BY <1>6 DEF Unanswered
  <2> HIDE DEF c
  <2>3. chk' \in [Zones -> Checks] /\ CheckKnown'
    BY <1>4, <2>1, <2>2
  <2>4. events' \in [EventKinds -> 0 .. MaxEvents] /\ theirs' = theirs
    BY <1>6, EventType DEF Unanswered, Fault, EventKinds
  <2> QED BY <1>6, <2>3, <2>4 DEF Unanswered, DataTypes, UniQueue, dbVars, dataVars, threadVars
<1>7. ASSUME NEW z \in Zones, SetCheck(z, NoCheck)
      PROVE  chk' \in [Zones -> Checks] /\ CheckKnown'
  BY <1>0, <1>4, <1>7
<1>8. ASSUME NEW z \in Zones, ProcessSilent(z)
      PROVE  TypeOK' /\ CheckKnown'
  <2>0. chk[z].notified \in BOOLEAN
    BY <1>0, CheckType, Zenon
  <2>1. DatabaseTypes'
    BY <1>8, <2>0 DEF ProcessSilent, worldVars
  <2>2. DataTypes'
    BY <1>8 DEF ProcessSilent, DataTypes, UniQueue, worldVars
  <2> QED BY <1>7, <1>8, <2>1, <2>2 DEF ProcessSilent, threadVars
<1>9. ASSUME NEW z \in Zones, Compare(z)
      PROVE  TypeOK' /\ CheckKnown'
  <2> DEFINE c == [chk[z] EXCEPT !.st = "compared", !.ours = serial[z]]
  <2>0. serial[z] \in 0 .. MaxSerial /\ chk[z].primary \in Primaries
    BY <1>9 DEF CheckKnown, Compare
  <2>1. c \in Checks /\ c.primary = chk[z].primary
    BY <1>0, <2>0, CheckType, Zenon
  <2>2. SetCheck(z, c)
    BY <1>9 DEF Compare
  <2> HIDE DEF c
  <2>3. chk' \in [Zones -> Checks] /\ CheckKnown'
    BY <1>4, <2>0, <2>1, <2>2
  <2> QED BY <1>9, <2>3 DEF Compare, DataTypes, UniQueue, dbVars, threadVars, worldVars
<1>10. ASSUME NEW z \in Zones, Fresh(z)
       PROVE  TypeOK' /\ CheckKnown'
  BY <1>7, <1>10 DEF Fresh, Concluded, DataTypes, UniQueue, threadVars, worldVars
<1>11. ASSUME NEW z \in Zones, Stale(z)
       PROVE  TypeOK' /\ CheckKnown'
  <2>1. UniQueue' /\ sem' \in Nat
    BY <1>11, AddTypes
    DEF Stale, Concluded, CheckKnown, Priorities, Operator, Notify, SerialRefresh, SignaturesRefresh
  <2> QED BY <1>7, <1>11, <2>1 DEF Stale, Concluded, DataTypes, threadVars, worldVars
<1>12. ASSUME NEW z \in Zones, SignaturesDiffer(z)
       PROVE  TypeOK' /\ CheckKnown'
  <2>1. UniQueue' /\ sem' \in Nat
    BY <1>12, AddTypes
    DEF SignaturesDiffer, Concluded, CheckKnown, Priorities, Operator, Notify, SerialRefresh,
        SignaturesRefresh
  <2>2. events' \in [EventKinds -> 0 .. MaxEvents] /\ theirs' = theirs
    BY <1>12, EventType DEF SignaturesDiffer, EventKinds
  <2> QED BY <1>7, <1>12, <2>1, <2>2 DEF SignaturesDiffer, Concluded, DataTypes, threadVars
<1> QED
  BY <1>1, <1>2, <1>3, <1>5, <1>6, <1>8, <1>9, <1>10, <1>11, <1>12 DEF MainStep

\* The head of a nonempty queue is a request, and what is left of it is unique.
LEMMA TailUnique ==
    ASSUME UniQueue, queue # <<>>, queue' = Tail(queue)
    PROVE  Head(queue) \in Requests /\ UniQueue' /\ Len(queue') = Len(queue) - 1
<1>1. /\ Len(queue) \in Nat \ {0} /\ Head(queue) \in Requests
      /\ Tail(queue) \in Seq(Requests) /\ Len(Tail(queue)) = Len(queue) - 1
      /\ \A i \in 1 .. Len(queue) - 1 : Tail(queue)[i] = queue[i + 1]
  BY HeadTailProperties, EmptySeq DEF UniQueue
<1>2. Unique(queue')
  <2> SUFFICES ASSUME NEW i \in 1 .. Len(queue) - 1, NEW j \in 1 .. Len(queue) - 1, i # j
               PROVE  ~ (/\ queue[i + 1].zone = queue[j + 1].zone
                         /\ queue[i + 1].primary = queue[j + 1].primary)
    BY <1>1 DEF Unique
  <2>1. i + 1 \in 1 .. Len(queue) /\ j + 1 \in 1 .. Len(queue) /\ i + 1 # j + 1
    BY <1>1
  <2> QED BY <2>1 DEF UniQueue
<1> QED BY <1>1, <1>2 DEF UniQueue, Unique

\* A retrieval thread keeps the types.
LEMMA ThreadStepTypes ==
    ASSUME TypeOK, CheckKnown, RequestKnown, NEW t \in Retrievers, ThreadStep(t)
    PROVE  TypeOK' /\ CheckKnown' /\ RequestKnown'
<1> USE TransferAssumption
    DEF TypeOK, DatabaseTypes, ThreadTypes, Versions, Goto, dbVars, dataVars, mainVars, worldVars,
        Serving
<1>0. 0 \in 0 .. MaxSerial
  OBVIOUS
<1>1. CASE SemWait(t)
  BY <1>1 DEF SemWait, DataTypes, UniQueue, CheckKnown, RequestKnown
<1>2. CASE Take(t)
  <2>1. CASE queue = <<>>
    BY <1>2, <2>1 DEF Take, DataTypes, UniQueue, CheckKnown, RequestKnown
  <2>2. CASE queue # <<>>
    <3>1. Head(queue) \in Requests /\ UniQueue'
      BY <1>2, <2>2, TailUnique DEF Take, DataTypes
    <3> QED BY <1>2, <2>2, <3>1 DEF Take, DataTypes, CheckKnown, RequestKnown
  <2> QED BY <2>1, <2>2
<1>3. CASE SuckBegin(t)
  <2>1. Zone(t) \in Zones
    BY <1>3 DEF SuckBegin, RequestKnown, Zone, Requests
  <2>2. CASE Busy(Zone(t))
    BY <1>3, <2>2 DEF SuckBegin, DataTypes, UniQueue, CheckKnown, RequestKnown
  <2>3. CASE ~ Busy(Zone(t))
    <3> DEFINE b == IF IXFR THEN serial[Zone(t)] ELSE 0
    <3>1. b \in 0 .. MaxSerial
      BY <1>0, <2>1
    <3>2. base' = [base EXCEPT ![t] = b]
      BY <1>3, <2>3 DEF SuckBegin
    <3> HIDE DEF b
    <3>3. base' \in [Retrievers -> 0 .. MaxSerial]
      BY <3>1, <3>2
    <3>4. /\ inprogress' = inprogress \cup {Zone(t)} /\ req' = req
          /\ pc' = [pc EXCEPT ![t] = "read"]
      BY <1>3, <2>3 DEF SuckBegin
    <3>5. RequestKnown'
      BY <1>3, <3>4 DEF SuckBegin, RequestKnown
    <3>6. DataTypes'
      BY <1>3, <2>1, <3>4 DEF SuckBegin, DataTypes, UniQueue
    <3> QED BY <1>3, <3>3, <3>4, <3>5, <3>6 DEF SuckBegin, CheckKnown
  <2> QED BY <2>2, <2>3
<1>4. ASSUME NEW point \in {"commit", "deltas"}, Receive(t, point),
             base' \in [Retrievers -> 0 .. MaxSerial]
      PROVE  TypeOK' /\ CheckKnown' /\ RequestKnown'
  <2>1. Zone(t) \in Zones /\ req[t].primary \in Primaries
    BY <1>4 DEF Receive, RequestKnown, Zone, Requests
  <2>2. theirs[req[t].primary][Zone(t)] \in 0 .. MaxSerial
    BY <2>1
  <2> QED BY <1>4, <2>2 DEF Receive, DataTypes, UniQueue, CheckKnown, RequestKnown
<1>5. CASE ReceiveAXFR(t)
  BY <1>0, <1>4, <1>5 DEF ReceiveAXFR
<1>6. CASE ReceiveIXFR(t)
  BY <1>4, <1>6 DEF ReceiveIXFR
<1>7. CASE ApplyDelta(t)
  <2>1. Zone(t) \in Zones
    BY <1>7 DEF ApplyDelta, RequestKnown, Zone, Requests
  <2>2. base[t] + 1 \in 0 .. MaxSerial
    BY <1>7 DEF ApplyDelta
  <2> QED BY <1>7, <2>1, <2>2 DEF ApplyDelta, DataTypes, UniQueue, CheckKnown, RequestKnown
<1>8. CASE EndIXFR(t)
  BY <1>0, <1>8 DEF EndIXFR, Leave, DataTypes, UniQueue, CheckKnown, RequestKnown
<1>9. CASE CommitAXFR(t)
  <2>1. Zone(t) \in Zones
    BY <1>9 DEF CommitAXFR, RequestKnown, Zone, Requests
  <2> QED BY <1>9, <2>1 DEF CommitAXFR, DataTypes, UniQueue, CheckKnown, RequestKnown
<1>10. CASE SetFresh(t)
  BY <1>0, <1>10 DEF SetFresh, Leave, DataTypes, UniQueue, CheckKnown, RequestKnown
<1>11. ASSUME Fault
       PROVE  events' \in [EventKinds -> 0 .. MaxEvents] /\ theirs' = theirs
  BY <1>11, EventType DEF Fault, EventKinds
<1>12. CASE TransferFails(t)
  BY <1>0, <1>11, <1>12 DEF TransferFails, Leave, DataTypes, UniQueue, CheckKnown, RequestKnown
<1>13. CASE TransferGivesUp(t)
  BY <1>0, <1>11, <1>13 DEF TransferGivesUp, Leave, DataTypes, UniQueue, CheckKnown, RequestKnown
<1>14. CASE SuckEnd(t)
  BY <1>14 DEF SuckEnd, Sentinel, DataTypes, UniQueue, CheckKnown, RequestKnown
<1> QED
  BY <1>1, <1>2, <1>3, <1>5, <1>6, <1>7, <1>8, <1>9, <1>10, <1>12, <1>13, <1>14 DEF ThreadStep

\* So do all steps.
LEMMA TypesStep ==
    ASSUME TypeOK, CheckKnown, RequestKnown, AnyStep
    PROVE  TypeOK' /\ CheckKnown' /\ RequestKnown'
<1> USE TransferAssumption
    DEF TypeOK, DatabaseTypes, ThreadTypes, Versions, dbVars, dataVars, mainVars, threadVars,
        worldVars, Serving
<1>0. 0 \in 0 .. MaxSerial
  OBVIOUS
<1>1. CASE MainStep
  <2>1. pc' = pc /\ req' = req
    BY <1>1 DEF MainStep, Collect, Select, EndRefresh, Answered, Unanswered, ProcessSilent,
                Compare, Fresh, Stale, SignaturesDiffer, Concluded
  <2>2. RequestKnown'
    BY <2>1 DEF RequestKnown
  <2> QED BY <1>1, <2>2, MainTypes
<1>2. CASE \E t \in Retrievers : ThreadStep(t)
  BY <1>2, ThreadStepTypes
<1>3. ASSUME NEW z \in Zones, RefreshTime(z) \/ ExclusionOver(z)
      PROVE  TypeOK' /\ CheckKnown' /\ RequestKnown'
  BY <1>3 DEF RefreshTime, ExclusionOver, DataTypes, UniQueue, CheckKnown, RequestKnown
<1>4. ASSUME NEW kind \in EventKinds, Event(kind)
      PROVE  events' \in [EventKinds -> 0 .. MaxEvents] /\ theirs' = theirs
  BY <1>4, EventType
<1>5. ASSUME NEW z \in Zones, NEW p \in Primaries, Retrieve(z, p)
      PROVE  TypeOK' /\ CheckKnown' /\ RequestKnown'
  <2>1. UniQueue' /\ sem' \in Nat
    BY <1>5, AddTypes
    DEF Retrieve, Priorities, Operator, Notify, SerialRefresh, SignaturesRefresh
  <2>2. events' \in [EventKinds -> 0 .. MaxEvents] /\ theirs' = theirs
    BY <1>4, <1>5 DEF Retrieve, EventKinds
  <2> QED BY <1>5, <2>1, <2>2 DEF Retrieve, DataTypes, CheckKnown, RequestKnown
<1>6. CASE Crash
  <2>1. events' \in [EventKinds -> 0 .. MaxEvents] /\ theirs' = theirs
    BY <1>4, <1>6 DEF Crash, Fault, EventKinds
  <2>2. UniQueue'
    <3>1. queue' = <<>>
      BY <1>6 DEF Crash
    <3> QED BY <3>1 DEF UniQueue
  <2>3. chk' \in [Zones -> Checks] /\ CheckKnown'
    BY <1>6, NewCheckType DEF Crash, CheckKnown
  <2> QED BY <1>0, <1>6, <2>1, <2>2, <2>3 DEF Crash, DataTypes, RequestKnown
<1>7. ASSUME NEW z \in Zones, NEW p \in Primaries, ReceiveNotify(z, p)
      PROVE  TypeOK' /\ CheckKnown' /\ RequestKnown'
  BY <1>7 DEF ReceiveNotify, CheckRequested, DataTypes, UniQueue, CheckKnown, RequestKnown
<1>8. ASSUME NEW z \in Zones, NEW p \in Primaries, Publish(p, z)
      PROVE  TypeOK' /\ CheckKnown' /\ RequestKnown'
  <2>1. theirs' \in [Primaries -> [Zones -> Versions]]
    BY <1>8 DEF Publish
  <2> QED BY <1>8, <2>1 DEF Publish, DataTypes, UniQueue, CheckKnown, RequestKnown
<1>9. CASE EventElsewhere
  BY <1>4, <1>9 DEF EventElsewhere, DataTypes, UniQueue, CheckKnown, RequestKnown
<1>10. CASE UNCHANGED vars
  BY <1>10 DEF vars, DataTypes, UniQueue, CheckKnown, RequestKnown
<1> QED
  BY <1>1, <1>2, <1>3, <1>5, <1>6, <1>7, <1>8, <1>9, <1>10 DEF AnyStep, Next, SecondaryStep

-----------------------------------------------------------------------------
(* One transfer per zone.                                                  *)

\* The zone a thread works on, if any, is in progress.
InProgress ==
    /\ \A z : z \in inprogress <=> \E t \in Retrievers : Serving(t) /\ z = Zone(t)
    /\ \A t, u \in Retrievers : Serving(t) /\ Serving(u) /\ Zone(t) = Zone(u) => t = u

\* The same without the sets of threads.
LEMMA InProgressIs == OneTransferPerZone <=> InProgress
<1>1. ASSUME OneTransferPerZone PROVE InProgress
  BY <1>1 DEF OneTransferPerZone, InProgress
<1>2. ASSUME InProgress PROVE OneTransferPerZone
  BY <1>2 DEF OneTransferPerZone, InProgress
<1> QED BY <1>1, <1>2

\* A thread that serves takes up or leaves a zone only with the zone's mark.
LEMMA ThreadTransfers ==
    ASSUME TypeOK, RequestKnown, InProgress, NEW t \in Retrievers, ThreadStep(t)
    PROVE  InProgress'
<1> USE DEF TypeOK, ThreadTypes, Goto, Serving, Zone, dataVars
<1>1. ASSUME inprogress' = inprogress, req' = req,
             NEW point, pc' = [pc EXCEPT ![t] = point],
             Serving(t) <=> point \in {"read", "commit", "deltas", "committed", "leave"}
      PROVE  InProgress'
  BY <1>1 DEF InProgress
<1>2. CASE SemWait(t)
  BY <1>1, <1>2 DEF SemWait
<1>3. CASE Take(t)
  <2>1. CASE queue = <<>>
    BY <1>1, <1>3, <2>1 DEF Take
  <2>2. CASE queue # <<>>
    <3>1. /\ inprogress' = inprogress /\ pc[t] = "take"
          /\ pc' = [pc EXCEPT ![t] = "suck"] /\ req' = [req EXCEPT ![t] = Head(queue)]
      BY <1>3, <2>2 DEF Take
    <3> QED BY <3>1 DEF InProgress
  <2> QED BY <2>1, <2>2
<1>4. CASE SuckBegin(t)
  <2>1. CASE Busy(Zone(t))
    <3>1. /\ inprogress' = inprogress /\ pc[t] = "suck"
          /\ pc' = [pc EXCEPT ![t] = "wait"] /\ req' = [req EXCEPT ![t] = NoRequest]
      BY <1>4, <2>1 DEF SuckBegin
    <3> QED BY <3>1 DEF InProgress
  <2>2. CASE ~ Busy(Zone(t))
    <3>1. /\ inprogress' = inprogress \cup {Zone(t)} /\ pc[t] = "suck"
          /\ pc' = [pc EXCEPT ![t] = "read"] /\ req' = req /\ Zone(t) \notin inprogress
      BY <1>4, <2>2 DEF SuckBegin, Busy
    <3> QED BY <3>1 DEF InProgress
  <2> QED BY <2>1, <2>2
<1>5. CASE ReceiveAXFR(t) \/ ReceiveIXFR(t)
  BY <1>1, <1>5 DEF ReceiveAXFR, ReceiveIXFR, Receive
<1>6. CASE ApplyDelta(t)
  BY <1>6 DEF ApplyDelta, InProgress
<1>7. CASE EndIXFR(t)
  BY <1>1, <1>7 DEF EndIXFR, Leave
<1>8. CASE CommitAXFR(t)
  BY <1>1, <1>8 DEF CommitAXFR
<1>9. CASE SetFresh(t)
  BY <1>1, <1>9 DEF SetFresh, Leave
<1>10. CASE TransferFails(t)
  BY <1>1, <1>10 DEF TransferFails, Leave
<1>11. CASE TransferGivesUp(t)
  BY <1>1, <1>11 DEF TransferGivesUp, Leave
<1>12. CASE SuckEnd(t)
  <2>1. /\ inprogress' = inprogress \ {Zone(t)} /\ pc[t] = "leave"
        /\ pc' = [pc EXCEPT ![t] = "wait"] /\ req' = [req EXCEPT ![t] = NoRequest]
    BY <1>12 DEF SuckEnd, Sentinel
  <2> QED BY <2>1 DEF InProgress
<1> QED
  BY <1>2, <1>3, <1>4, <1>5, <1>6, <1>7, <1>8, <1>9, <1>10, <1>11, <1>12 DEF ThreadStep

\* All other steps but a crash leave the threads and the marks alone.
LEMMA ThreadsAlone ==
    ASSUME AnyStep
    PROVE  \/ \E t \in Retrievers : ThreadStep(t)
           \/ Crash
           \/ threadVars' = threadVars /\ inprogress' = inprogress
  BY DEF AnyStep, Next, SecondaryStep, MainStep, Collect, Select, EndRefresh, Answered, Unanswered,
         ProcessSilent, Compare, Fresh, Stale, SignaturesDiffer, Concluded, RefreshTime,
         ExclusionOver, Retrieve, ReceiveNotify, Publish, EventElsewhere, vars, dataVars,
         threadVars

\* Every step, also a crash, keeps transfers of a zone apart.
LEMMA TransfersStep ==
    ASSUME TypeOK, RequestKnown, OneTransferPerZone, AnyStep
    PROVE  OneTransferPerZone'
<1> SUFFICES ASSUME InProgress PROVE InProgress'
  <2>1. (OneTransferPerZone <=> InProgress)'
    BY InProgressIs, PTL
  <2> QED BY <2>1, InProgressIs
<1>1. CASE \E t \in Retrievers : ThreadStep(t)
  BY <1>1, ThreadTransfers
<1>2. CASE Crash
  BY <1>2 DEF Crash, InProgress, Serving
<1>3. CASE threadVars' = threadVars /\ inprogress' = inprogress
  BY <1>3 DEF InProgress, Serving, Zone, threadVars
<1> QED BY <1>1, <1>2, <1>3, ThreadsAlone

-----------------------------------------------------------------------------
(* The semaphore.                                                          *)

Takers == {t \in Retrievers : pc[t] = "take"}

\* A thread is one of those that are about to take a request, or not.
LEMMA TakersFinite == IsFiniteSet(Takers) /\ Cardinality(Takers) \in Nat
<1>1. Takers \in SUBSET Retrievers
  BY DEF Takers
<1> QED BY <1>1, RetrieverAssumption, FS_Subset, FS_CardinalityType

\* A thread that moves changes how many are about to take a request by one at most.
LEMMA TakerMoves ==
    ASSUME ThreadTypes, NEW t \in Retrievers, NEW point,
           pc' = [pc EXCEPT ![t] = point]
    PROVE  /\ pc[t] # "take" /\ point = "take" => Cardinality(Takers') = Cardinality(Takers) + 1
           /\ pc[t] = "take" /\ point # "take" => Cardinality(Takers') = Cardinality(Takers) - 1
           /\ pc[t] # "take" /\ point # "take" => Takers' = Takers
<1>1. ASSUME pc[t] # "take", point = "take"
      PROVE  Cardinality(Takers') = Cardinality(Takers) + 1
  <2>1. t \notin Takers /\ Takers' = Takers \cup {t}
    BY <1>1 DEF ThreadTypes, Takers
  <2> QED BY <2>1, TakersFinite, FS_AddElement
<1>2. ASSUME pc[t] = "take", point # "take"
      PROVE  Cardinality(Takers') = Cardinality(Takers) - 1
  <2>1. t \in Takers /\ Takers' = Takers \ {t}
    BY <1>2 DEF ThreadTypes, Takers
  <2> QED BY <2>1, TakersFinite, FS_RemoveElement
<1>3. ASSUME pc[t] # "take", point # "take"
      PROVE  Takers' = Takers
  BY <1>3 DEF ThreadTypes, Takers
<1> QED BY <1>1, <1>2, <1>3

\* Outside of the threads and crashes, the queue and the semaphore change only together.
LEMMA QueueSteps ==
    ASSUME TypeOK, CheckKnown, AnyStep
    PROVE  \/ \E t \in Retrievers : ThreadStep(t)
           \/ Crash
           \/ /\ pc' = pc
              /\ \/ queue' = queue /\ sem' = sem
                 \/ \E z \in Zones, p \in Primaries, prio \in Priorities :
                       AddSuckRequest(z, p, prio)
<1> USE DEF Priorities, Operator, Notify, SerialRefresh, SignaturesRefresh, dataVars, threadVars
<1>1. ASSUME NEW z \in Zones, Stale(z) \/ SignaturesDiffer(z)
      PROVE  /\ pc' = pc
             /\ \E p \in Primaries, prio \in Priorities : AddSuckRequest(z, p, prio)
  <2>1. chk[z].primary \in Primaries
    BY <1>1 DEF CheckKnown, Stale, SignaturesDiffer, Concluded
  <2>2. CASE Stale(z)
    <3> DEFINE prio == IF chk[z].notified THEN Notify ELSE SerialRefresh
    <3>1. prio \in Priorities /\ AddSuckRequest(z, chk[z].primary, prio)
      BY <2>2 DEF Stale
    <3>2. pc' = pc
      BY <2>2 DEF Stale, Concluded
    <3> HIDE DEF prio
    <3> QED BY <2>1, <3>1, <3>2
  <2>3. CASE SignaturesDiffer(z)
    <3> DEFINE prio == IF chk[z].notified THEN Notify ELSE SignaturesRefresh
    <3>1. prio \in Priorities /\ AddSuckRequest(z, chk[z].primary, prio)
      BY <2>3 DEF SignaturesDiffer
    <3>2. pc' = pc
      BY <2>3 DEF SignaturesDiffer, Concluded
    <3> HIDE DEF prio
    <3> QED BY <2>1, <3>1, <3>2
  <2> QED BY <1>1, <2>2, <2>3
<1>2. CASE MainStep
  BY <1>1, <1>2 DEF MainStep, Collect, Select, EndRefresh, Answered, Unanswered,
         ProcessSilent, Compare, Fresh, Concluded
<1>3. ASSUME NEW z \in Zones, NEW p \in Primaries, Retrieve(z, p)
      PROVE  pc' = pc /\ AddSuckRequest(z, p, Operator) /\ Operator \in Priorities
  BY <1>3 DEF Retrieve
<1> QED
  BY <1>2, <1>3 DEF AnyStep, Next, SecondaryStep, RefreshTime,
         ExclusionOver, ReceiveNotify, Publish, EventElsewhere, vars

\* A post of the semaphore comes with a request, a thread that was woken takes one.
LEMMA WakeupsStep ==
    ASSUME TypeOK, CheckKnown, WakeupsMatch, AnyStep
    PROVE  WakeupsMatch'
<1> USE DEF TypeOK, DataTypes
<1>0. /\ ThreadTypes /\ UniQueue /\ sem \in Nat /\ Len(queue) \in Nat
      /\ Cardinality(Takers) \in Nat /\ sem + Cardinality(Takers) = Len(queue)
  BY TakersFinite DEF UniQueue, WakeupsMatch, Takers
<1> SUFFICES sem' + Cardinality(Takers') = Len(queue')
  BY DEF WakeupsMatch, Takers
<1>1. ASSUME NEW t \in Retrievers, ThreadStep(t)
      PROVE  sem' + Cardinality(Takers') = Len(queue')
  <2> HIDE DEF TypeOK
  <2>1. ASSUME NEW point, pc' = [pc EXCEPT ![t] = point], pc[t] # "take",
               point # "take", queue' = queue, sem' = sem
        PROVE  sem' + Cardinality(Takers') = Len(queue')
    BY <1>0, <2>1, TakerMoves
  <2>2. CASE SemWait(t)
    <3>1. sem' = sem - 1 /\ queue' = queue /\ pc[t] # "take" /\ pc' = [pc EXCEPT ![t] = "take"]
      BY <2>2 DEF SemWait, Goto
    <3>2. Cardinality(Takers') = Cardinality(Takers) + 1
      BY <1>0, <3>1, TakerMoves
    <3> QED BY <1>0, <3>1, <3>2
  <2>3. CASE Take(t)
    <3>1. /\ sem' = sem /\ pc[t] = "take"
          /\ \/ queue = <<>> /\ queue' = queue /\ pc' = [pc EXCEPT ![t] = "wait"]
             \/ queue # <<>> /\ queue' = Tail(queue) /\ pc' = [pc EXCEPT ![t] = "suck"]
      BY <2>3 DEF Take, Goto
    <3>2. Cardinality(Takers') = Cardinality(Takers) - 1
      BY <1>0, <3>1, TakerMoves
    <3>3. Cardinality(Takers) # 0
      <4>1. t \in Takers
        BY <3>1 DEF Takers
      <4> QED BY <4>1, TakersFinite, FS_EmptySet
    <3>4. queue # <<>>
      BY <1>0, <3>3
    <3>5. Len(queue') = Len(queue) - 1
      BY <1>0, <3>1, <3>4, TailUnique
    <3> QED BY <1>0, <3>1, <3>2, <3>5
  <2>4. CASE SuckBegin(t)
    BY <2>1, <2>4 DEF SuckBegin, Goto
  <2>5. CASE ReceiveAXFR(t) \/ ReceiveIXFR(t)
    BY <2>1, <2>5 DEF ReceiveAXFR, ReceiveIXFR, Receive, Goto, dataVars
  <2>6. CASE ApplyDelta(t)
    BY <1>0, <2>6 DEF ApplyDelta, Takers, dataVars
  <2>7. CASE EndIXFR(t) \/ SetFresh(t) \/ TransferFails(t) \/ TransferGivesUp(t)
    BY <2>1, <2>7 DEF EndIXFR, SetFresh, TransferFails, TransferGivesUp, Leave, Goto, dataVars
  <2>8. CASE CommitAXFR(t)
    BY <2>1, <2>8 DEF CommitAXFR, Goto, dataVars
  <2>9. CASE SuckEnd(t)
    BY <2>1, <2>9 DEF SuckEnd, Goto
  <2> QED
    BY <1>1, <2>2, <2>3, <2>4, <2>5, <2>6, <2>7, <2>8, <2>9 DEF ThreadStep
<1>2. CASE Crash
  <2>1. Takers' = {} /\ sem' = 0 /\ queue' = <<>>
    BY <1>2 DEF Crash, Takers
  <2> QED BY <2>1, FS_EmptySet
<1>3. CASE pc' = pc /\ queue' = queue /\ sem' = sem
  BY <1>0, <1>3 DEF Takers
<1>4. ASSUME pc' = pc, NEW z \in Zones, NEW p \in Primaries, NEW prio \in Priorities,
             AddSuckRequest(z, p, prio)
      PROVE  sem' + Cardinality(Takers') = Len(queue')
  <2>1. UniQueue' /\ sem' \in Nat /\ sem' - sem = Len(queue') - Len(queue)
    BY <1>0, <1>4, AddSuckRequestSpec
  <2>2. Len(queue') \in Nat /\ Takers' = Takers
    BY <1>4, <2>1 DEF UniQueue, Takers
  <2> QED BY <1>0, <2>1, <2>2
<1> QED BY <1>1, <1>2, <1>3, <1>4, QueueSteps

-----------------------------------------------------------------------------
(* The versions.                                                           *)

\* What a thread knows of the zone it transfers: the difference it asks for starts
\* at the serial stored, it applies every difference to the version it is a difference
\* to, and what it receives is a version the primary has published.
TransferKnown(t) ==
    /\ pc[t] = "read" => base[t] \in {0, serial[Zone(t)]}
    /\ pc[t] = "deltas" => /\ base[t] = serial[Zone(t)] /\ base[t] # 0
                           /\ got[t] <= theirs[req[t].primary][Zone(t)]
    /\ pc[t] = "commit" => got[t] \in 1 .. theirs[req[t].primary][Zone(t)]

\* With one primary, what is about to be committed is not older than what is stored.
TransferAhead(t) ==
    Cardinality(Primaries) = 1 /\ pc[t] = "commit" => serial[Zone(t)] <= got[t]

\* The zones stored are not mixtures, and no primary's version is invented.
ZoneKnown(z) ==
    /\ pure[z]
    /\ \E p \in Primaries : serial[z] <= theirs[p][z]

VersionsKnown ==
    /\ \A t \in Retrievers : TransferKnown(t) /\ TransferAhead(t)
    /\ \A z \in Zones : ZoneKnown(z)

IInv ==
    /\ TypeOK
    /\ CheckKnown
    /\ RequestKnown
    /\ OneTransferPerZone
    /\ WakeupsMatch
    /\ VersionsKnown


\* A thread that works on a request knows its zone and its primary.
LEMMA RequestFields ==
    ASSUME TypeOK, RequestKnown, NEW t \in Retrievers, Serving(t) \/ pc[t] = "suck"
    PROVE  /\ Zone(t) \in Zones /\ req[t].primary \in Primaries
           /\ theirs[req[t].primary][Zone(t)] \in Versions
  BY DEF RequestKnown, Requests, Zone, TypeOK, DatabaseTypes

\* With one primary, a version stored is one that this primary has.
LEMMA OnePrimary ==
    ASSUME Cardinality(Primaries) = 1, NEW z \in Zones, ZoneKnown(z), NEW p \in Primaries
    PROVE  serial[z] <= theirs[p][z]
<1>1. PICK q \in Primaries : serial[z] <= theirs[q][z]
  BY DEF ZoneKnown
<1>2. p = q
  BY PrimaryAssumption, FS_Singleton
<1> QED BY <1>1, <1>2

\* Versions stay known when only the primaries publish.
LEMMA VersionsKept ==
    ASSUME TypeOK, TypeOK', RequestKnown, VersionsKnown,
           threadVars' = threadVars, serial' = serial, pure' = pure,
           \A p \in Primaries, z \in Zones : theirs[p][z] <= theirs'[p][z]
    PROVE  VersionsKnown'
<1>1. ASSUME NEW z \in Zones PROVE ZoneKnown(z)'
  <2>1. PICK p \in Primaries : serial[z] <= theirs[p][z]
    BY DEF VersionsKnown, ZoneKnown
  <2>2. serial'[z] <= theirs'[p][z]
    BY <2>1 DEF TypeOK, DatabaseTypes, Versions
  <2> QED BY <2>2 DEF VersionsKnown, ZoneKnown
<1>2. ASSUME NEW t \in Retrievers PROVE TransferKnown(t)' /\ TransferAhead(t)'
  <2>1. pc'[t] = pc[t] /\ req'[t] = req[t] /\ base'[t] = base[t] /\ got'[t] = got[t]
    BY DEF threadVars
  <2>2. CASE Serving(t)
    <3>1. /\ Zone(t) \in Zones /\ req[t].primary \in Primaries
          /\ theirs[req[t].primary][Zone(t)] \in Nat
          /\ theirs'[req[t].primary][Zone(t)] \in Nat
          /\ theirs[req[t].primary][Zone(t)] <= theirs'[req[t].primary][Zone(t)]
          /\ got[t] \in Nat
      BY <2>2, RequestFields DEF Versions, TypeOK, DatabaseTypes, ThreadTypes
    <3> QED BY <2>1, <3>1 DEF VersionsKnown, TransferKnown, TransferAhead, Zone
  <2>3. CASE ~ Serving(t)
    BY <2>1, <2>3 DEF Serving, TransferKnown, TransferAhead
  <2> QED BY <2>2, <2>3
<1> QED BY <1>1, <1>2 DEF VersionsKnown

\* What a thread does to its own zone does not concern the other threads.
LEMMA OthersKept ==
    ASSUME OneTransferPerZone, VersionsKnown, NEW t \in Retrievers, NEW u \in Retrievers, u # t,
           pc'[u] = pc[u], req'[u] = req[u], base'[u] = base[u], got'[u] = got[u],
           theirs' = theirs,
           \/ serial' = serial
           \/ Serving(t) /\ \A z \in Zones \ {Zone(t)} : serial'[z] = serial[z],
           TypeOK, RequestKnown
    PROVE  TransferKnown(u)' /\ TransferAhead(u)'
<1>1. CASE Serving(u)
  <2>1. Zone(u) \in Zones
    BY <1>1, RequestFields
  <2>2. serial'[Zone(u)] = serial[Zone(u)]
    BY <1>1, <2>1 DEF OneTransferPerZone
  <2> QED BY <2>2 DEF VersionsKnown, TransferKnown, TransferAhead, Zone
<1>2. CASE ~ Serving(u)
  BY <1>2 DEF Serving, TransferKnown, TransferAhead
<1> QED BY <1>1, <1>2

\* A retrieval thread stores only what the primary published, on top of what it is for.
LEMMA ThreadVersions ==
    ASSUME TypeOK, RequestKnown, OneTransferPerZone, VersionsKnown,
           NEW t \in Retrievers, ThreadStep(t)
    PROVE  VersionsKnown'
<1> USE DEF Goto, dbVars, dataVars, mainVars, worldVars
<1>0. /\ \A u \in Retrievers : base[u] \in Nat /\ got[u] \in 0 .. MaxSerial
      /\ \A z \in Zones : serial[z] \in Nat
      /\ MaxSerial \in Nat
      /\ pc = [u \in Retrievers |-> pc[u]] /\ req = [u \in Retrievers |-> req[u]]
      /\ base = [u \in Retrievers |-> base[u]] /\ got = [u \in Retrievers |-> got[u]]
      /\ serial = [z \in Zones |-> serial[z]] /\ pure = [z \in Zones |-> pure[z]]
  BY TransferAssumption DEF TypeOK, DatabaseTypes, ThreadTypes
<1>1. ASSUME serial' = serial, pure' = pure, theirs' = theirs,
             \A u \in Retrievers \ {t} :
                 pc'[u] = pc[u] /\ req'[u] = req[u] /\ base'[u] = base[u] /\ got'[u] = got[u],
             TransferKnown(t)', TransferAhead(t)'
      PROVE  VersionsKnown'
  <2>1. \A z \in Zones : ZoneKnown(z)'
    BY <1>1 DEF VersionsKnown, ZoneKnown
  <2>2. \A u \in Retrievers \ {t} : TransferKnown(u)' /\ TransferAhead(u)'
    BY <1>1, OthersKept
  <2> QED BY <1>1, <2>1, <2>2 DEF VersionsKnown
<1>2. ASSUME serial' = serial, pure' = pure, theirs' = theirs,
             \A u \in Retrievers \ {t} :
                 pc'[u] = pc[u] /\ req'[u] = req[u] /\ base'[u] = base[u] /\ got'[u] = got[u],
             pc'[t] \notin {"read", "deltas", "commit"}
      PROVE  VersionsKnown'
  BY <1>1, <1>2 DEF TransferKnown, TransferAhead
<1>3. CASE SemWait(t)
  BY <1>0, <1>2, <1>3 DEF SemWait
<1>4. CASE Take(t)
  BY <1>0, <1>2, <1>4 DEF Take
<1>5. CASE SuckBegin(t)
  <2>1. CASE Busy(Zone(t))
    BY <1>0, <1>2, <1>5, <2>1 DEF SuckBegin
  <2>2. CASE ~ Busy(Zone(t))
    <3>1. /\ pc' = [pc EXCEPT ![t] = "read"] /\ req' = req /\ got' = got
          /\ base' = [base EXCEPT ![t] = IF IXFR THEN serial[Zone(t)] ELSE 0]
          /\ serial' = serial /\ pure' = pure /\ theirs' = theirs
      BY <1>5, <2>2 DEF SuckBegin
    <3>2. base'[t] \in {0, serial[Zone(t)]} /\ pc'[t] = "read"
      BY <1>0, <3>1
    <3>3. TransferKnown(t)' /\ TransferAhead(t)'
      BY <3>1, <3>2 DEF TransferKnown, TransferAhead, Zone
    <3> QED BY <1>0, <1>1, <3>1, <3>3
  <2> QED BY <2>1, <2>2
<1>6. ASSUME NEW point \in {"commit", "deltas"}, Receive(t, point),
             point = "deltas" => base[t] # 0 /\ base' = base,
             point = "commit" => base' = [base EXCEPT ![t] = 0]
      PROVE  VersionsKnown'
  <2>1. /\ pc' = [pc EXCEPT ![t] = point] /\ req' = req /\ pc[t] = "read"
        /\ got' = [got EXCEPT ![t] = theirs[req[t].primary][Zone(t)]]
        /\ serial' = serial /\ pure' = pure /\ theirs' = theirs
    BY <1>6 DEF Receive
  <2>2. /\ Zone(t) \in Zones /\ req[t].primary \in Primaries
        /\ theirs[req[t].primary][Zone(t)] \in 1 .. MaxSerial
    BY <2>1, RequestFields DEF Serving, Versions
  <2>3. pc'[t] = point /\ got'[t] = theirs[req[t].primary][Zone(t)] /\ Zone(t)' = Zone(t)
    BY <1>0, <2>1 DEF Zone
  <2>4. TransferKnown(t)'
    <3>1. CASE point = "commit"
      BY <1>0, <2>1, <2>2, <2>3, <3>1 DEF TransferKnown
    <3>2. CASE point = "deltas"
      <4>1. base'[t] = serial'[Zone(t)'] /\ base'[t] # 0
        BY <1>6, <2>1, <2>3, <3>2 DEF VersionsKnown, TransferKnown
      <4> QED BY <1>0, <2>1, <2>2, <2>3, <3>2, <4>1 DEF TransferKnown
    <3> QED BY <3>1, <3>2
  <2>5. TransferAhead(t)'
    <3>1. ASSUME Cardinality(Primaries) = 1
          PROVE  serial'[Zone(t)'] <= got'[t]
      BY <2>1, <2>2, <2>3, <3>1, OnePrimary DEF VersionsKnown
    <3> QED BY <3>1 DEF TransferAhead
  <2>6. \A u \in Retrievers \ {t} : base'[u] = base[u] /\ got'[u] = got[u] /\ pc'[u] = pc[u]
    BY <1>0, <1>6, <2>1
  <2> QED BY <1>1, <2>1, <2>4, <2>5, <2>6
<1>7. CASE ReceiveAXFR(t)
  BY <1>6, <1>7 DEF ReceiveAXFR
<1>8. CASE ReceiveIXFR(t)
  BY <1>6, <1>8 DEF ReceiveIXFR
<1>9. CASE ApplyDelta(t)
  <2>1. /\ pc[t] = "deltas" /\ base[t] < got[t]
        /\ pure' = [pure EXCEPT ![Zone(t)] = @ /\ serial[Zone(t)] = base[t]]
        /\ serial' = [serial EXCEPT ![Zone(t)] = base[t] + 1]
        /\ base' = [base EXCEPT ![t] = @ + 1]
        /\ pc' = pc /\ req' = req /\ got' = got /\ theirs' = theirs
    BY <1>9 DEF ApplyDelta
  <2>2. /\ Zone(t) \in Zones /\ req[t].primary \in Primaries
        /\ theirs[req[t].primary][Zone(t)] \in 1 .. MaxSerial
    BY <2>1, RequestFields DEF Serving, Versions
  <2>3. /\ base[t] = serial[Zone(t)] /\ base[t] # 0
        /\ got[t] <= theirs[req[t].primary][Zone(t)]
    BY <2>1 DEF VersionsKnown, TransferKnown
  <2>4. TransferKnown(t)' /\ TransferAhead(t)'
    BY <1>0, <2>1, <2>2, <2>3 DEF TransferKnown, TransferAhead, Zone
  <2>5. ASSUME NEW z \in Zones PROVE ZoneKnown(z)'
    <3>1. CASE z = Zone(t)
      <4>1. serial'[z] <= theirs[req[t].primary][z]
        BY <1>0, <2>1, <2>2, <2>3, <3>1
      <4>2. pure[Zone(t)]
        BY <2>2 DEF VersionsKnown, ZoneKnown
      <4>3. pure'[z] = (pure[Zone(t)] /\ serial[Zone(t)] = base[t])
        BY <1>0, <2>1, <2>2, <3>1
      <4> QED BY <2>1, <2>2, <2>3, <4>1, <4>2, <4>3 DEF ZoneKnown
    <3>2. CASE z # Zone(t)
      BY <1>0, <2>1, <3>2 DEF VersionsKnown, ZoneKnown
    <3> QED BY <3>1, <3>2
  <2>6. ASSUME NEW u \in Retrievers \ {t} PROVE TransferKnown(u)' /\ TransferAhead(u)'
    <3>1. Serving(t) /\ \A z \in Zones \ {Zone(t)} : serial'[z] = serial[z]
      BY <1>0, <2>1 DEF Serving
    <3>2. base'[u] = base[u]
      BY <1>0, <2>1
    <3> QED BY <2>1, <3>1, <3>2, OthersKept
  <2> QED BY <2>4, <2>5, <2>6 DEF VersionsKnown
<1>10. CASE CommitAXFR(t)
  <2>1. /\ pc[t] = "commit" /\ pc' = [pc EXCEPT ![t] = "committed"]
        /\ pure' = [pure EXCEPT ![Zone(t)] = TRUE]
        /\ serial' = [serial EXCEPT ![Zone(t)] = got[t]]
        /\ req' = req /\ base' = base /\ got' = got /\ theirs' = theirs
    BY <1>10 DEF CommitAXFR
  <2>2. Zone(t) \in Zones /\ req[t].primary \in Primaries
    BY <2>1, RequestFields DEF Serving
  <2>3. got[t] \in 1 .. theirs[req[t].primary][Zone(t)]
    BY <2>1 DEF VersionsKnown, TransferKnown
  <2>4. TransferKnown(t)' /\ TransferAhead(t)'
    BY <1>0, <2>1 DEF TransferKnown, TransferAhead
  <2>5. ASSUME NEW z \in Zones PROVE ZoneKnown(z)'
    <3>1. CASE z = Zone(t)
      <4>1. serial'[z] <= theirs[req[t].primary][z] /\ pure'[z]
        BY <1>0, <2>1, <2>2, <2>3, <3>1
      <4> QED BY <2>1, <2>2, <4>1 DEF ZoneKnown
    <3>2. CASE z # Zone(t)
      BY <1>0, <2>1, <3>2 DEF VersionsKnown, ZoneKnown
    <3> QED BY <3>1, <3>2
  <2>6. ASSUME NEW u \in Retrievers \ {t} PROVE TransferKnown(u)' /\ TransferAhead(u)'
    <3>1. Serving(t) /\ \A z \in Zones \ {Zone(t)} : serial'[z] = serial[z]
      BY <1>0, <2>1 DEF Serving
    <3>2. pc'[u] = pc[u]
      BY <1>0, <2>1
    <3> QED BY <2>1, <3>1, <3>2, OthersKept
  <2> QED BY <2>4, <2>5, <2>6 DEF VersionsKnown
<1>11. CASE EndIXFR(t)
  BY <1>0, <1>2, <1>11 DEF EndIXFR, Leave
<1>12. CASE SetFresh(t)
  BY <1>0, <1>2, <1>12 DEF SetFresh, Leave
<1>13. CASE TransferFails(t)
  BY <1>0, <1>2, <1>13 DEF TransferFails, Leave, Fault, Event
<1>14. CASE TransferGivesUp(t)
  BY <1>0, <1>2, <1>14 DEF TransferGivesUp, Leave, Fault, Event
<1>15. CASE SuckEnd(t)
  BY <1>0, <1>2, <1>15 DEF SuckEnd
<1> QED
  BY <1>3, <1>4, <1>5, <1>7, <1>8, <1>9, <1>10, <1>11, <1>12, <1>13, <1>14, <1>15 DEF ThreadStep


\* All steps keep the versions known.
LEMMA VersionsStep ==
    ASSUME IInv, TypeOK', AnyStep
    PROVE  VersionsKnown'
<1> USE DEF IInv
<1>1. CASE \E t \in Retrievers : ThreadStep(t)
  BY <1>1, ThreadVersions
<1>2. CASE Crash
  <2>1. /\ \A t \in Retrievers : pc'[t] = "wait"
        /\ serial' = serial /\ pure' = pure /\ theirs' = theirs
    BY <1>2 DEF Crash, Fault, Event, dbVars
  <2> QED BY <2>1 DEF VersionsKnown, TransferKnown, TransferAhead, ZoneKnown
<1>3. CASE ~ Crash /\ ~ \E t \in Retrievers : ThreadStep(t)
  <2>1. threadVars' = threadVars
    BY <1>3, ThreadsAlone
  <2>2. serial' = serial /\ pure' = pure
    BY <1>3
    DEF AnyStep, Next, SecondaryStep, MainStep, Collect, Select, EndRefresh, Answered, Unanswered,
        ProcessSilent, Compare, Fresh, Stale, SignaturesDiffer, Concluded, RefreshTime,
        ExclusionOver, Retrieve, ReceiveNotify, Publish, EventElsewhere, vars, dbVars
  <2>3. \/ theirs' = theirs
        \/ \E z \in Zones, p \in Primaries : Publish(p, z)
    BY <1>3
    DEF AnyStep, Next, SecondaryStep, MainStep, Collect, Select, EndRefresh, Answered, Unanswered,
        ProcessSilent, Compare, Fresh, Stale, SignaturesDiffer, Concluded, RefreshTime,
        ExclusionOver, Retrieve, ReceiveNotify, EventElsewhere, vars, worldVars, Fault, Event
  <2>4. \A p \in Primaries, z \in Zones : theirs[p][z] <= theirs'[p][z]
    BY <2>3, TransferAssumption DEF Publish, TypeOK, DatabaseTypes, Versions
  <2> QED BY <2>1, <2>2, <2>4, VersionsKept
<1> QED BY <1>1, <1>2, <1>3

-----------------------------------------------------------------------------
(* The invariant.                                                          *)

\* The invariant holds when the server starts.
LEMMA IInvInit == Init => IInv
<1> SUFFICES ASSUME Init PROVE IInv
  OBVIOUS
<1> USE TransferAssumption DEF Init
<1>1. TypeOK
  <2>1. queue = <<>>
    OBVIOUS
  <2>2. UniQueue
    BY <2>1 DEF UniQueue
  <2>3. chk \in [Zones -> Checks]
    BY NewCheckType
  <2>4. DatabaseTypes
    BY DEF DatabaseTypes, Versions
  <2> QED BY <2>2, <2>3, <2>4 DEF TypeOK, DataTypes, ThreadTypes
<1>2. CheckKnown
  BY NewCheckType DEF CheckKnown
<1>3. RequestKnown
  BY DEF RequestKnown, Serving
<1>4. OneTransferPerZone
  BY DEF OneTransferPerZone, Serving
<1>5. WakeupsMatch
  <2>1. {t \in Retrievers : pc[t] = "take"} = {} /\ queue = <<>>
    OBVIOUS
  <2>2. Cardinality({t \in Retrievers : pc[t] = "take"}) = 0 /\ Len(queue) = 0 /\ sem = 0
    BY <2>1, FS_EmptySet
  <2> QED BY <2>2 DEF WakeupsMatch
<1>6. VersionsKnown
  <2>1. ASSUME NEW z \in Zones PROVE ZoneKnown(z)
    BY PrimaryAssumption DEF ZoneKnown
  <2> QED BY <2>1 DEF VersionsKnown, TransferKnown, TransferAhead
<1> QED BY <1>1, <1>2, <1>3, <1>4, <1>5, <1>6 DEF IInv

\* And every step keeps it.
LEMMA IInvStep == IInv /\ AnyStep => IInv'
<1> SUFFICES ASSUME IInv, AnyStep PROVE IInv'
  OBVIOUS
<1>1. TypeOK' /\ CheckKnown' /\ RequestKnown'
  BY TypesStep DEF IInv
<1>2. OneTransferPerZone'
  BY TransfersStep DEF IInv
<1>3. WakeupsMatch'
  BY WakeupsStep DEF IInv
<1>4. VersionsKnown'
  BY <1>1, VersionsStep
<1> QED BY <1>1, <1>2, <1>3, <1>4 DEF IInv

-----------------------------------------------------------------------------
(* The abstract zone.                                                      *)

\* A nonempty set of natural numbers has a least element.
LEMMA LeastOf ==
    ASSUME NEW S, S \subseteq Nat, S # {}
    PROVE  \E m \in S : \A n \in S : m <= n
<1> DEFINE R == {ss \in Nat \X Nat : ss[1] < ss[2]}
<1>1. IsWellFoundedOn(R, Nat)
  BY NatLessThanWellFounded DEF OpToRel
<1>2. \A m, n \in Nat : <<m, n>> \in R <=> m < n
  BY DEF OpToRel
<1> HIDE DEF R
<1>3. PICK m \in S : \A n \in S : <<n, m>> \notin R
  BY <1>1, WFMin
<1>4. ASSUME NEW n \in S PROVE m <= n
  <2>1. <<n, m>> \notin R /\ m \in Nat /\ n \in Nat
    BY <1>3
  <2>2. ~ (n < m)
    BY <1>2, <2>1
  <2> QED BY <2>1, <2>2
<1> QED BY <1>4

\* A nonempty set of bounded natural numbers has a greatest element.
LEMMA SetMaxIs ==
    ASSUME NEW N \in Nat, NEW S, S \subseteq 0 .. N, S # {}
    PROVE  SetMax(S) \in S /\ \A n \in S : n <= SetMax(S)
<1> DEFINE T == {N - n : n \in S}
<1>1. PICK m \in T : \A n \in T : m <= n
  <2>1. T \subseteq Nat
    OBVIOUS
  <2>2. T # {}
    <3>1. PICK n \in S : TRUE
      OBVIOUS
    <3>2. N - n \in T
      OBVIOUS
    <3> QED BY <3>2
  <2> HIDE DEF T
  <2> QED BY <2>1, <2>2, LeastOf
<1>2. N - m \in S /\ \A n \in S : n <= N - m
  BY <1>1
<1> QED BY <1>2 DEF SetMax

Newest == [z \in Zones |-> SetMax({theirs[p][z] : p \in Primaries})]
Held == [z \in Zones |-> IF pure[z] THEN serial[z] ELSE MaxSerial + 1]

\* The latest version of a zone is the one of some primary, and no other has a later one.
LEMMA NewestIs ==
    ASSUME TypeOK, NEW z \in Zones
    PROVE  /\ Newest[z] \in Versions
           /\ \E p \in Primaries : Newest[z] = theirs[p][z]
           /\ \A p \in Primaries : theirs[p][z] <= Newest[z]
<1> DEFINE S == {theirs[p][z] : p \in Primaries}
<1>1. S \subseteq 0 .. MaxSerial
  BY TransferAssumption DEF TypeOK, DatabaseTypes, Versions
<1>2. theirs[FirstPrimary][z] \in S
  BY PrimaryAssumption
<1>3. SetMax(S) \in S /\ \A n \in S : n <= SetMax(S)
  <2> HIDE DEF S
  <2> QED BY <1>1, <1>2, TransferAssumption, SetMaxIs
<1>4. Newest[z] = SetMax(S)
  BY DEF Newest
<1>5. \A p \in Primaries : theirs[p][z] \in Versions
  BY DEF TypeOK, DatabaseTypes
<1> QED BY <1>3, <1>4, <1>5

\* What is held is what is stored, and no primary needs to have invented it.
LEMMA HeldIs ==
    ASSUME TypeOK, VersionsKnown, NEW z \in Zones
    PROVE  Held[z] = serial[z] /\ Held[z] \in 0 .. Newest[z]
<1>1. Held[z] = serial[z]
  BY DEF Held, VersionsKnown, ZoneKnown
<1>2. PICK p \in Primaries : serial[z] <= theirs[p][z]
  BY DEF VersionsKnown, ZoneKnown
<1>3. theirs[p][z] <= Newest[z] /\ Newest[z] \in Nat
  BY NewestIs DEF Versions
<1>4. serial[z] \in Nat /\ theirs[p][z] \in Nat
  BY DEF TypeOK, DatabaseTypes, Versions
<1> QED BY <1>1, <1>2, <1>3, <1>4

NewestMax ==
    \A z \in Zones : /\ Newest[z] \in Nat
                     /\ \E p \in Primaries : Newest[z] = theirs[p][z]
                     /\ \A p \in Primaries : theirs[p][z] <= Newest[z]

HeldKnown == \A z \in Zones : Held[z] = serial[z] /\ Held[z] \in 0 .. Newest[z]

\* Both follow from the invariant, so they hold before and after every step.
LEMMA AbstractKnown == IInv => NewestMax /\ HeldKnown
  BY NewestIs, HeldIs DEF IInv, NewestMax, HeldKnown, Versions

\* A primary that publishes is the latest one, or catches up.
LEMMA PublishIsAbstract ==
    ASSUME IInv, IInv', NEW z \in Zones, NEW p \in Primaries, Publish(p, z)
    PROVE  Held' = Held /\ (Newest' = Newest \/ Newest' = [Newest EXCEPT ![z] = @ + 1])
<1>1. Held' = Held
  BY DEF Publish, dbVars, Held
<1>2. /\ theirs' = [theirs EXCEPT ![p][z] = @ + 1]
      /\ \A q \in Primaries, y \in Zones : theirs[q][y] \in Nat
      /\ theirs = [q \in Primaries |-> [y \in Zones |-> theirs[q][y]]]
  BY DEF Publish, IInv, TypeOK, DatabaseTypes, Versions
<1>3. ASSUME NEW y \in Zones, y # z PROVE Newest'[y] = Newest[y]
  <2>1. \A q \in Primaries : theirs'[q][y] = theirs[q][y]
    BY <1>2, <1>3
  <2>2. {theirs'[q][y] : q \in Primaries} = {theirs[q][y] : q \in Primaries}
    BY <2>1
  <2> QED BY <2>2 DEF Newest
<1>4. Newest'[z] = Newest[z] \/ Newest'[z] = Newest[z] + 1
  <2>1. /\ \A q \in Primaries \ {p} : theirs'[q][z] = theirs[q][z]
        /\ theirs'[p][z] = theirs[p][z] + 1
    BY <1>2
  <2>2. /\ Newest[z] \in Nat
        /\ \E q \in Primaries : Newest[z] = theirs[q][z]
        /\ \A q \in Primaries : theirs[q][z] <= Newest[z]
    BY AbstractKnown DEF NewestMax
  <2>3. /\ Newest'[z] \in Nat
        /\ \E q \in Primaries : Newest'[z] = theirs'[q][z]
        /\ \A q \in Primaries : theirs'[q][z] <= Newest'[z]
    <3>1. NewestMax'
      BY AbstractKnown, PTL
    <3> QED BY <3>1 DEF NewestMax
  <2>4. PICK q \in Primaries : Newest[z] = theirs[q][z]
    BY <2>2
  <2>5. PICK r \in Primaries : Newest'[z] = theirs'[r][z]
    BY <2>3
  <2>6. theirs[q][z] <= theirs'[q][z] /\ theirs'[r][z] <= theirs[r][z] + 1
    BY <1>2, <2>1
  <2>7. theirs'[q][z] <= Newest'[z] /\ theirs[r][z] <= Newest[z]
    BY <2>2, <2>3
  <2>8. {theirs[q][z], theirs[r][z], theirs'[q][z], theirs'[r][z]} \subseteq Nat
    BY <1>2, <2>1
  <2> HIDE DEF Newest
  <2> QED BY <2>2, <2>3, <2>4, <2>5, <2>6, <2>7, <2>8
<1>5. /\ Newest = [y \in Zones |-> Newest[y]]
      /\ Newest' = [y \in Zones |-> Newest'[y]]
  BY DEF Newest
<1> HIDE DEF Newest
<1>6. CASE Newest'[z] = Newest[z]
  BY <1>1, <1>3, <1>5, <1>6
<1>7. CASE Newest'[z] = Newest[z] + 1
  BY <1>1, <1>3, <1>5, <1>7
<1> QED BY <1>4, <1>6, <1>7

\* A thread changes one zone at most, to a version that was published.
LEMMA ThreadIsAbstract ==
    ASSUME IInv, IInv', NEW t \in Retrievers, ThreadStep(t)
    PROVE  /\ Newest' = Newest
           /\ \/ Held' = Held
              \/ \E z \in Zones : /\ Held'[z] \in 1 .. Newest[z]
                                  /\ Held' = [Held EXCEPT ![z] = Held'[z]]
<1>1. theirs' = theirs
  BY DEF ThreadStep, SemWait, Take, SuckBegin, ReceiveAXFR, ReceiveIXFR, Receive, ApplyDelta,
         EndIXFR, CommitAXFR, SetFresh, TransferFails, TransferGivesUp, SuckEnd, worldVars,
         Fault, Event
<1>2. Newest' = Newest
  BY <1>1 DEF Newest
<1>3. CASE serial' = serial /\ pure' = pure
  BY <1>2, <1>3 DEF Held
<1>4. CASE ApplyDelta(t) \/ CommitAXFR(t)
  <2>1. Zone(t) \in Zones
    BY <1>4, RequestFields DEF IInv, ApplyDelta, CommitAXFR, Serving
  <2>2. /\ \A z \in Zones \ {Zone(t)} : serial'[z] = serial[z]
        /\ serial'[Zone(t)] \in Nat \ {0}
    BY <1>4, <2>1, TransferAssumption
    DEF ApplyDelta, CommitAXFR, IInv, TypeOK, DatabaseTypes, ThreadTypes, VersionsKnown,
        TransferKnown
  <2>0. NewestMax /\ HeldKnown /\ HeldKnown'
    BY AbstractKnown, PTL
  <2>3. \A z \in Zones : Held[z] = serial[z] /\ Held'[z] = serial'[z]
    BY <2>0 DEF HeldKnown
  <2>4. Held'[Zone(t)] \in 0 .. Newest[Zone(t)]
    <3>1. Held'[Zone(t)] \in 0 .. Newest'[Zone(t)]
      BY <2>0, <2>1 DEF HeldKnown
    <3> QED BY <1>2, <3>1
  <2>5. Held = [z \in Zones |-> Held[z]] /\ Held' = [z \in Zones |-> Held'[z]]
    BY DEF Held
  <2>6. Newest[Zone(t)] \in Nat
    BY <2>0, <2>1 DEF NewestMax
  <2> HIDE DEF Held, Newest
  <2>7. Held' = [Held EXCEPT ![Zone(t)] = Held'[Zone(t)]]
    BY <2>1, <2>2, <2>3, <2>5
  <2>8. Held'[Zone(t)] \in 1 .. Newest[Zone(t)]
    BY <2>1, <2>2, <2>3, <2>4, <2>6
  <2> QED BY <1>2, <2>1, <2>7, <2>8
<1>5. CASE ~ (ApplyDelta(t) \/ CommitAXFR(t))
  BY <1>3, <1>5
  DEF ThreadStep, SemWait, Take, SuckBegin, ReceiveAXFR, ReceiveIXFR, Receive,
      EndIXFR, SetFresh, TransferFails, TransferGivesUp, SuckEnd, dbVars
<1> QED BY <1>4, <1>5

\* All other steps leave the versions alone.
LEMMA VersionSteps ==
    ASSUME AnyStep
    PROVE  \/ \E t \in Retrievers : ThreadStep(t)
           \/ \E z \in Zones, p \in Primaries : Publish(p, z)
           \/ serial' = serial /\ pure' = pure /\ theirs' = theirs
  BY DEF AnyStep, Next, SecondaryStep, MainStep, Collect, Select, EndRefresh, Answered, Unanswered,
         ProcessSilent, Compare, Fresh, Stale, SignaturesDiffer, Concluded, RefreshTime,
         ExclusionOver, Retrieve, ReceiveNotify, EventElsewhere, Crash, Fault, Event, vars, dbVars,
         worldVars

\* Every step is one of the abstract zone's, or none of them.
LEMMA StepIsAbstract ==
    ASSUME IInv, IInv', AnyStep
    PROVE  Replicated!Next \/ (Newest' = Newest /\ Held' = Held)
<1>1. ASSUME NEW t \in Retrievers, ThreadStep(t)
      PROVE  Replicated!Next \/ (Newest' = Newest /\ Held' = Held)
  <2>1. CASE Held' = Held
    BY <1>1, <2>1, ThreadIsAbstract
  <2>2. ASSUME NEW z \in Zones, Held'[z] \in 1 .. Newest[z],
               Held' = [Held EXCEPT ![z] = Held'[z]], Newest' = Newest
        PROVE  Replicated!Install(z)
    BY <2>2 DEF Replicated!Install, Newest, Held
  <2> QED BY <1>1, <2>1, <2>2, ThreadIsAbstract DEF Replicated!Next
<1>2. ASSUME NEW z \in Zones, NEW p \in Primaries, Publish(p, z)
      PROVE  Replicated!Next \/ (Newest' = Newest /\ Held' = Held)
  <2>1. CASE Newest' = Newest
    BY <1>2, <2>1, PublishIsAbstract
  <2>2. CASE Newest' = [Newest EXCEPT ![z] = @ + 1]
    <3>1. Held' = Held
      BY <1>2, PublishIsAbstract
    <3>2. Replicated!Publish(z)
      BY <2>2, <3>1 DEF Replicated!Publish, Newest, Held
    <3> QED BY <3>2 DEF Replicated!Next
  <2> QED BY <1>2, <2>1, <2>2, PublishIsAbstract
<1>3. CASE serial' = serial /\ pure' = pure /\ theirs' = theirs
  BY <1>3 DEF Newest, Held
<1> QED BY <1>1, <1>2, <1>3, VersionSteps

\* With one primary, a step leaves every zone as it is or moves it forward.
LEMMA StepGoesForward ==
    ASSUME IInv, AnyStep, Cardinality(Primaries) = 1, NEW z \in Zones
    PROVE  serial'[z] >= serial[z]
<1>0. serial[z] \in Nat /\ serial = [y \in Zones |-> serial[y]]
  BY DEF IInv, TypeOK, DatabaseTypes
<1>1. CASE serial' = serial
  BY <1>0, <1>1
<1>2. ASSUME NEW t \in Retrievers, ApplyDelta(t)
      PROVE  serial'[z] >= serial[z]
  BY <1>0, <1>2 DEF ApplyDelta, IInv, VersionsKnown, TransferKnown
<1>3. ASSUME NEW t \in Retrievers, CommitAXFR(t)
      PROVE  serial'[z] >= serial[z]
  <2>1. serial[Zone(t)] <= got[t] /\ got[t] \in Nat
    BY <1>3 DEF CommitAXFR, IInv, VersionsKnown, TransferAhead, TypeOK, ThreadTypes
  <2> QED BY <1>0, <1>3, <2>1 DEF CommitAXFR
<1>4. ASSUME NEW t \in Retrievers, ThreadStep(t), ~ ApplyDelta(t), ~ CommitAXFR(t)
      PROVE  serial' = serial
  BY <1>4
  DEF ThreadStep, SemWait, Take, SuckBegin, ReceiveAXFR, ReceiveIXFR, Receive,
      EndIXFR, SetFresh, TransferFails, TransferGivesUp, SuckEnd, dbVars
<1>5. (\E y \in Zones, p \in Primaries : Publish(p, y)) => serial' = serial
  BY DEF Publish, dbVars
<1> QED BY <1>1, <1>2, <1>3, <1>4, <1>5, VersionSteps

===============================================================================
