--------------------------- MODULE IDStates_proofs ---------------------------
(***************************************************************************)
(* Proofs about IDStates for every number of threads, slots and queries    *)
(* and every timeout.                                                      *)
(***************************************************************************)
EXTENDS IDStates, FiniteSetTheorems, TLAPS

\* The slots are a finite set.
LEMMA SlotsFinite == IsFiniteSet(Slots) /\ 0 \in Slots
  BY FS_Interval, SlotAssumption DEF Slots

\* The next slot number of saveState is a slot number again.
LEMMA OffsetWraps == \A i \in Slots : (i + 1) % SlotCount \in Slots
  BY SlotAssumption DEF Slots

\* The client and the responder threads are threads, and not the health check.
LEMMA ThreadKinds ==
    /\ Health \in Threads /\ NoThread \notin Threads
    /\ \A t \in Clients : t \in Threads /\ t # Health
    /\ \A t \in Responders : t \in Threads /\ t # Health /\ t \notin Clients
  BY ThreadAssumption DEF Threads

\* An update, inside the function's domain or not, keeps its type.
LEMMA UpdateType ==
    ASSUME NEW S, NEW T, NEW f \in [S -> T], NEW i, NEW v \in T
    PROVE  [f EXCEPT ![i] = v] \in [S -> T]
  OBVIOUS

\* A thread that gives up its local state keeps the types.
LEMMA FinishTypes ==
    ASSUME ThreadTypes, NEW t \in Threads, Finish(t)
    PROVE  ThreadTypes'
  BY SlotsFinite DEF ThreadTypes, Finish, Goto, Points, ClientPoints

\* Types, with the bound on the age, are preserved by every step.
LEMMA TypeStep ==
    ASSUME TypeOK, AgeBounded, [Next]_vars
    PROVE  TypeOK' /\ AgeBounded'
<1> USE SlotsFinite, TimeoutAssumption, ThreadKinds
    DEF TypeOK, SlotTypes, ThreadTypes, QueryTypes, AgeBounded, Goto
<1>1. ASSUME NEW c \in Clients, NEW q \in Queries, Assign(c, q)
      PROVE  TypeOK' /\ AgeBounded'
  BY <1>1 DEF Assign, slotVars, Points, ClientPoints, SavePoints
<1>2. ASSUME NEW c \in Clients, SaveStep(c)
      PROVE  TypeOK' /\ AgeBounded'
  <2>1. CASE SavePick(c)
    BY <2>1, OffsetWraps DEF SavePick, NextOffset, slotVars, queryVars, Points, ClientPoints, SavePoints
  <2>2. CASE SaveAcquire(c)
    BY <2>2 DEF SaveAcquire, Acquire, Missed, localVars, queryVars, Points,
                ClientPoints, SavePoints
  <2>3. CASE SaveCount(c)
    BY <2>3 DEF SaveCount, Resolve, localVars, Points, ClientPoints, SavePoints
  <2>4. CASE SaveWrite(c)
    <3>1. SlotTypes'
      BY <2>4 DEF SaveWrite, Release, Points, ClientPoints
    <3>2. ThreadTypes'
      BY <2>4 DEF SaveWrite, Release, Points, ClientPoints
    <3>3. QueryTypes'
      <4>1. scans' \in [Queries -> 0 .. UdpTimeout + 1]
        BY <2>4, UpdateType DEF SaveWrite
      <4> QED BY <2>4, <4>1 DEF SaveWrite
    <3>4. AgeBounded'
      BY <2>4 DEF SaveWrite, Release, Points, ClientPoints
    <3> QED BY <3>1, <3>2, <3>3, <3>4
  <2> QED BY <1>2, <2>1, <2>2, <2>3, <2>4 DEF SaveStep
<1>3. ASSUME NEW c \in Clients, SendStep(c)
      PROVE  TypeOK' /\ AgeBounded'
  <2>1. CASE SendQuery(c)
    <3>1. SlotTypes' /\ AgeBounded'
      BY <2>1 DEF SendQuery, Finish, slotVars
    <3>2. ThreadTypes'
      BY <2>1 DEF SendQuery, Finish, Points, ClientPoints
    <3>3. QueryTypes'
      <4>1. idOf' \in [Queries -> Slots]
        BY <2>1, UpdateType DEF SendQuery
      <4>2. copies' \in [Queries -> 0 .. MaxCopies]
        BY <2>1, UpdateType, CopiesAssumption DEF SendQuery
      <4> QED BY <2>1, <4>1, <4>2 DEF SendQuery
    <3> QED BY <3>1, <3>2, <3>3
  <2>2. CASE SendError(c)
    BY <2>2 DEF SendError, slotVars, localVars, queryVars, Points,
                ClientPoints, GetPoints
  <2>3. CASE TakeBack(c)
    BY <2>3 DEF TakeBack, Resolve, Finish, slotVars, Points, ClientPoints
  <2> QED BY <1>3, <2>1, <2>2, <2>3 DEF SendStep
<1>4. ASSUME NEW t \in Clients \cup Responders, GetStep(t)
      PROVE  TypeOK' /\ AgeBounded'
  <2>1. CASE GetAcquire(t)
    <3>1. SlotTypes'
      BY <2>1 DEF GetAcquire, Acquire, Missed, Finish, localVars, queryVars,
          Points, ClientPoints, GetPoints
    <3>2. ThreadTypes'
      <4>1. CASE Missed(t) /\ Finish(t)
        BY <4>1, FinishTypes
      <4>2. CASE Acquire(t, "getTake") /\ UNCHANGED localVars
        BY <4>2 DEF Acquire, localVars, Points, ClientPoints, GetPoints
      <4> QED BY <2>1, <4>1, <4>2 DEF GetAcquire
    <3>3. QueryTypes'
      BY <2>1 DEF GetAcquire, Acquire, Missed, Finish, localVars, queryVars,
          Points, ClientPoints, GetPoints
    <3>4. AgeBounded'
      BY <2>1 DEF GetAcquire, Acquire, Missed, Finish, localVars, queryVars,
          Points, ClientPoints, GetPoints
    <3> QED BY <3>1, <3>2, <3>3, <3>4
  <2>2. CASE GetTake(t)
    BY <2>2 DEF GetTake, queryVars, Points, ClientPoints, GetPoints
  <2>3. CASE GetClear(t)
    <3>1. SlotTypes'
      BY <2>3 DEF GetClear, Release, Finish, localVars, queryVars, Points,
          ClientPoints, ResponderPoints
    <3>2. ThreadTypes'
      <4>1. CASE Finish(t)
        BY <4>1, FinishTypes
      <4>2. CASE UNCHANGED localVars /\ ~ Finish(t)
        BY <2>3, <4>2 DEF GetClear, localVars, Points, ClientPoints,
                          ResponderPoints
      <4> QED BY <2>3, <4>1, <4>2 DEF GetClear
    <3>3. QueryTypes'
      BY <2>3 DEF GetClear, Release, Finish, localVars, queryVars, Points,
          ClientPoints, ResponderPoints
    <3>4. AgeBounded'
      BY <2>3 DEF GetClear, Release, Finish, localVars, queryVars, Points,
          ClientPoints, ResponderPoints
    <3> QED BY <3>1, <3>2, <3>3, <3>4
  <2> QED BY <1>4, <2>1, <2>2, <2>3 DEF GetStep
<1>5. ASSUME NEW r \in Responders, NEW q \in Queries, Receive(r, q)
      PROVE  TypeOK' /\ AgeBounded'
  BY <1>5, CopiesAssumption DEF Receive, slotVars, Points, ClientPoints, GetPoints
<1>6. ASSUME NEW r \in Responders, MatchStep(r)
      PROVE  TypeOK' /\ AgeBounded'
  <2>1. CASE Answer(r)
    BY <2>1 DEF Answer, Resolve, Finish, slotVars, Points, ClientPoints
  <2>2. CASE Mismatch(r)
    BY <2>2 DEF Mismatch, slotVars, localVars, queryVars, Points,
                ResponderPoints, RestorePoints
  <2> QED BY <1>6, <2>1, <2>2 DEF MatchStep
<1>7. ASSUME NEW r \in Responders, RestoreStep(r)
      PROVE  TypeOK' /\ AgeBounded'
  <2>1. CASE RestoreAcquire(r)
    <3>1. SlotTypes'
      BY <2>1 DEF RestoreAcquire, Acquire, Missed, Resolve, Finish,
          localVars, Points, ClientPoints, ResponderPoints, RestorePoints
    <3>2. ThreadTypes'
      <4>1. CASE Missed(r) /\ Finish(r)
        BY <4>1, FinishTypes
      <4>2. CASE Acquire(r, "restoreCheck") /\ UNCHANGED localVars
        BY <4>2 DEF Acquire, localVars, Points, ResponderPoints, RestorePoints
      <4> QED BY <2>1, <4>1, <4>2 DEF RestoreAcquire
    <3>3. QueryTypes'
      BY <2>1 DEF RestoreAcquire, Acquire, Missed, Resolve, Finish,
          localVars, Points, ClientPoints, ResponderPoints, RestorePoints
    <3>4. AgeBounded'
      BY <2>1 DEF RestoreAcquire, Acquire, Missed, Resolve, Finish,
          localVars, Points, ClientPoints, ResponderPoints, RestorePoints
    <3> QED BY <3>1, <3>2, <3>3, <3>4
  <2>2. CASE RestoreCheck(r)
    <3>1. SlotTypes'
      BY <2>2 DEF RestoreCheck, Release, Resolve, Finish, Points,
          ClientPoints, ResponderPoints, RestorePoints
    <3>2. ThreadTypes'
      <4>1. CASE Finish(r)
        BY <4>1, FinishTypes
      <4>2. CASE ~ Finish(r)
        BY <2>2, <4>2 DEF RestoreCheck, Points, ResponderPoints, RestorePoints
      <4> QED BY <4>1, <4>2
    <3>3. QueryTypes'
      BY <2>2 DEF RestoreCheck, Release, Resolve, Finish, Points,
          ClientPoints, ResponderPoints, RestorePoints
    <3>4. AgeBounded'
      BY <2>2 DEF RestoreCheck, Release, Resolve, Finish, Points,
          ClientPoints, ResponderPoints, RestorePoints
    <3> QED BY <3>1, <3>2, <3>3, <3>4
  <2>3. CASE RestoreCount(r)
    BY <2>3 DEF RestoreCount, Release, Finish, queryVars, Points, ClientPoints
  <2> QED BY <1>7, <2>1, <2>2, <2>3 DEF RestoreStep
<1>8. ASSUME HealthStep
      PROVE  TypeOK' /\ AgeBounded'
  <2>1. CASE ScanStart
    BY <2>1 DEF ScanStart, slotVars, Points, HealthPoints, TimeoutPoints
  <2>2. CASE ScanVisit
    BY <2>2 DEF ScanVisit, NextSlot, Expired, slotVars, queryVars, Points,
                HealthPoints, TimeoutPoints
  <2>3. CASE ScanAge
    BY <2>3 DEF ScanAge, NextSlot, queryVars, Points, HealthPoints,
                TimeoutPoints
  <2>4. CASE TimeoutAcquire
    BY <2>4 DEF TimeoutAcquire, Acquire, Missed, NextSlot, queryVars, Points,
                HealthPoints, TimeoutPoints
  <2>5. CASE TimeoutRecheck
    <3>1. SlotTypes'
      <4>1. CASE StillExpired(sel[Health])
        BY <2>5, <4>1, UpdateType DEF TimeoutRecheck
      <4>2. CASE ~ StillExpired(sel[Health])
        BY <2>5, <4>2 DEF TimeoutRecheck, Release
      <4> QED BY <4>1, <4>2
    <3>2. ThreadTypes'
      BY <2>5 DEF TimeoutRecheck, Release, NextSlot, queryVars, Points,
          HealthPoints, TimeoutPoints
    <3>3. QueryTypes'
      BY <2>5 DEF TimeoutRecheck, Release, NextSlot, queryVars, Points,
          HealthPoints, TimeoutPoints
    <3>4. AgeBounded'
      BY <2>5 DEF TimeoutRecheck, Release, NextSlot, queryVars, Points,
          HealthPoints, TimeoutPoints
    <3> QED BY <3>1, <3>2, <3>3, <3>4
  <2>6. CASE TimeoutCount
    <3>1. SlotTypes'
      BY <2>6 DEF TimeoutCount, Release, Resolve, NextSlot, Points,
          HealthPoints, TimeoutPoints
    <3>2. ThreadTypes'
      BY <2>6 DEF TimeoutCount, Release, Resolve, NextSlot, Points,
          HealthPoints, TimeoutPoints
    <3>3. QueryTypes'
      BY <2>6 DEF TimeoutCount, Release, Resolve, NextSlot, Points,
          HealthPoints, TimeoutPoints
    <3>4. AgeBounded'
      BY <2>6 DEF TimeoutCount, Release, Resolve, NextSlot, Points,
          HealthPoints, TimeoutPoints
    <3> QED BY <3>1, <3>2, <3>3, <3>4
  <2> QED BY <1>8, <2>1, <2>2, <2>3, <2>4, <2>5, <2>6 DEF HealthStep
<1>9. CASE UNCHANGED vars
  BY <1>9 DEF vars, slotVars, localVars, queryVars
<1> QED
  BY <1>1, <1>2, <1>3, <1>4, <1>5, <1>6, <1>7, <1>8, <1>9
  DEF Next, ClientStep, ResponderStep

-----------------------------------------------------------------------------
\* Nobody touches a slot it does not own.
LEMMA GuardStep ==
    ASSUME TypeOK, GuardDiscipline, [Next]_vars
    PROVE  GuardDiscipline'
<1> USE SlotsFinite, ThreadKinds
    DEF TypeOK, SlotTypes, ThreadTypes, GuardDiscipline, GuardedPoints, Goto
<1>1. ASSUME NEW c \in Clients, NEW q \in Queries, Assign(c, q)
      PROVE  GuardDiscipline'
  BY <1>1 DEF Assign, slotVars
<1>2. ASSUME NEW c \in Clients, SaveStep(c)
      PROVE  GuardDiscipline'
  <2>1. CASE SavePick(c)
    BY <2>1 DEF SavePick, slotVars
  <2>2. CASE SaveAcquire(c)
    BY <2>2 DEF SaveAcquire, Acquire, Missed, localVars
  <2>3. CASE SaveCount(c)
    BY <2>3 DEF SaveCount, localVars
  <2>4. CASE SaveWrite(c)
    BY <2>4 DEF SaveWrite, Release
  <2> QED BY <1>2, <2>1, <2>2, <2>3, <2>4 DEF SaveStep
<1>3. ASSUME NEW c \in Clients, SendStep(c)
      PROVE  GuardDiscipline'
  <2>1. CASE SendQuery(c)
    BY <2>1 DEF SendQuery, Finish, slotVars
  <2>2. CASE SendError(c)
    BY <2>2 DEF SendError, slotVars, localVars
  <2>3. CASE TakeBack(c)
    BY <2>3 DEF TakeBack, Finish, slotVars
  <2> QED BY <1>3, <2>1, <2>2, <2>3 DEF SendStep
<1>4. ASSUME NEW t \in Clients \cup Responders, GetStep(t)
      PROVE  GuardDiscipline'
  <2>1. CASE GetAcquire(t)
    BY <2>1 DEF GetAcquire, Acquire, Missed, Finish, localVars
  <2>2. CASE GetTake(t)
    BY <2>2 DEF GetTake
  <2>3. CASE GetClear(t)
    BY <2>3 DEF GetClear, Release, Finish, localVars
  <2> QED BY <1>4, <2>1, <2>2, <2>3 DEF GetStep
<1>5. ASSUME NEW r \in Responders, NEW q \in Queries, Receive(r, q)
      PROVE  GuardDiscipline'
  BY <1>5 DEF Receive, slotVars
<1>6. ASSUME NEW r \in Responders, MatchStep(r)
      PROVE  GuardDiscipline'
  BY <1>6 DEF MatchStep, Answer, Mismatch, Finish, slotVars, localVars
<1>7. ASSUME NEW r \in Responders, RestoreStep(r)
      PROVE  GuardDiscipline'
  <2>1. CASE RestoreAcquire(r)
    BY <2>1 DEF RestoreAcquire, Acquire, Missed, Finish, localVars
  <2>2. CASE RestoreCheck(r)
    BY <2>2 DEF RestoreCheck, Release, Finish
  <2>3. CASE RestoreCount(r)
    BY <2>3 DEF RestoreCount, Release, Finish
  <2> QED BY <1>7, <2>1, <2>2, <2>3 DEF RestoreStep
<1>8. ASSUME HealthStep
      PROVE  GuardDiscipline'
  <2>1. CASE ScanStart
    BY <2>1 DEF ScanStart, slotVars
  <2>2. CASE ScanVisit
    BY <2>2 DEF ScanVisit, NextSlot, slotVars
  <2>3. CASE ScanAge
    BY <2>3 DEF ScanAge, NextSlot
  <2>4. CASE TimeoutAcquire
    BY <2>4 DEF TimeoutAcquire, Acquire, Missed, NextSlot
  <2>5. CASE TimeoutRecheck
    BY <2>5 DEF TimeoutRecheck, Release, NextSlot
  <2>6. CASE TimeoutCount
    BY <2>6 DEF TimeoutCount, Release, NextSlot
  <2> QED BY <1>8, <2>1, <2>2, <2>3, <2>4, <2>5, <2>6 DEF HealthStep
<1>9. CASE UNCHANGED vars
  BY <1>9 DEF vars, slotVars, localVars
<1> QED
  BY <1>1, <1>2, <1>3, <1>4, <1>5, <1>6, <1>7, <1>8, <1>9
  DEF Next, ClientStep, ResponderStep

-----------------------------------------------------------------------------
\* The three ways a step may move the count: not at all ...
LEMMA CountKept ==
    ASSUME OutstandingExact, outstanding' = outstanding,
           \A s \in Slots : Counted(s)' <=> Counted(s)
    PROVE  OutstandingExact'
<1>1. {s \in Slots : Counted(s)'} = {s \in Slots : Counted(s)}
  OBVIOUS
<1> QED BY <1>1 DEF OutstandingExact

\* ... up with one slot more ...
LEMMA CountAdded ==
    ASSUME OutstandingExact, outstanding \in Int, outstanding' = outstanding + 1,
           NEW x \in Slots, ~ Counted(x), Counted(x)',
           \A s \in Slots \ {x} : Counted(s)' <=> Counted(s)
    PROVE  OutstandingExact'
<1> DEFINE C == {s \in Slots : Counted(s)}
           D == {s \in Slots : Counted(s)'}
<1>1. D = C \cup {x} /\ x \notin C
  OBVIOUS
<1>2. IsFiniteSet(C)
  BY FS_Subset, SlotsFinite
<1> HIDE DEF C, D
<1>3. Cardinality(D) = Cardinality(C) + 1
  BY <1>1, <1>2, FS_AddElement
<1> QED BY <1>3 DEF OutstandingExact, C, D

\* ... or down with one slot less.
LEMMA CountRemoved ==
    ASSUME OutstandingExact, outstanding \in Int, outstanding' = outstanding - 1,
           NEW x \in Slots, Counted(x), ~ Counted(x)',
           \A s \in Slots \ {x} : Counted(s)' <=> Counted(s)
    PROVE  OutstandingExact'
<1> DEFINE C == {s \in Slots : Counted(s)}
           D == {s \in Slots : Counted(s)'}
<1>1. D = C \ {x} /\ x \in C
  OBVIOUS
<1>2. IsFiniteSet(C)
  BY FS_Subset, SlotsFinite
<1> HIDE DEF C, D
<1>3. Cardinality(D) = Cardinality(C) - 1
  BY <1>1, <1>2, FS_RemoveElement
<1> QED BY <1>3 DEF OutstandingExact, C, D

\* `outstanding` moves together with the slots it counts.
LEMMA CountStep ==
    ASSUME TypeOK, GuardDiscipline, OutstandingExact, [Next]_vars
    PROVE  OutstandingExact'
<1> USE SlotsFinite, ThreadKinds
    DEF TypeOK, SlotTypes, ThreadTypes, GuardDiscipline, GuardedPoints, Goto,
        Counted, OwnerAt
<1>1. ASSUME NEW c \in Clients, NEW q \in Queries, Assign(c, q)
      PROVE  OutstandingExact'
  BY <1>1, CountKept DEF Assign, slotVars
<1>2. ASSUME NEW c \in Clients, SaveStep(c)
      PROVE  OutstandingExact'
  <2>1. CASE SavePick(c)
    BY <2>1, CountKept DEF SavePick, slotVars
  <2>2. CASE SaveAcquire(c)
    BY <2>2, CountKept DEF SaveAcquire, Acquire, Missed, localVars
  <2>3. CASE SaveCount(c) /\ inUse[sel[c]]
    BY <2>3, CountKept DEF SaveCount, Reusing, localVars
  <2>4. CASE SaveCount(c) /\ ~ inUse[sel[c]]
    BY <2>4, CountAdded DEF SaveCount, Reusing, localVars
  <2>5. CASE SaveWrite(c)
    BY <2>5, CountKept DEF SaveWrite, Release
  <2> QED BY <1>2, <2>1, <2>2, <2>3, <2>4, <2>5 DEF SaveStep
<1>3. ASSUME NEW c \in Clients, SendStep(c)
      PROVE  OutstandingExact'
  BY <1>3, CountKept
  DEF SendStep, SendQuery, SendError, TakeBack, Finish, slotVars, localVars
<1>4. ASSUME NEW t \in Clients \cup Responders, GetStep(t)
      PROVE  OutstandingExact'
  <2>1. CASE GetAcquire(t)
    BY <2>1, CountKept DEF GetAcquire, Acquire, Missed, Finish, localVars
  <2>2. CASE GetTake(t) /\ inUse[sel[t]]
    BY <2>2, CountRemoved DEF GetTake
  <2>3. CASE GetTake(t) /\ ~ inUse[sel[t]]
    BY <2>3, CountKept DEF GetTake
  <2>4. CASE GetClear(t)
    BY <2>4, CountKept DEF GetClear, Release, Finish, localVars
  <2> QED BY <1>4, <2>1, <2>2, <2>3, <2>4 DEF GetStep
<1>5. ASSUME NEW r \in Responders, NEW q \in Queries, Receive(r, q)
      PROVE  OutstandingExact'
  BY <1>5, CountKept DEF Receive, slotVars
<1>6. ASSUME NEW r \in Responders, MatchStep(r)
      PROVE  OutstandingExact'
  BY <1>6, CountKept
  DEF MatchStep, Answer, Mismatch, Finish, slotVars, localVars
<1>7. ASSUME NEW r \in Responders, RestoreStep(r)
      PROVE  OutstandingExact'
  <2>1. CASE RestoreAcquire(r)
    BY <2>1, CountKept DEF RestoreAcquire, Acquire, Missed, Finish, localVars
  <2>2. CASE RestoreCheck(r)
    BY <2>2, CountKept DEF RestoreCheck, AlreadyUsed, Release, Finish
  <2>3. CASE RestoreCount(r)
    BY <2>3, CountAdded DEF RestoreCount, Release, Finish
  <2> QED BY <1>7, <2>1, <2>2, <2>3 DEF RestoreStep
<1>8. ASSUME HealthStep
      PROVE  OutstandingExact'
  <2>1. CASE ScanStart
    BY <2>1, CountKept DEF ScanStart, slotVars
  <2>2. CASE ScanVisit
    BY <2>2, CountKept DEF ScanVisit, NextSlot, slotVars
  <2>3. CASE ScanAge
    BY <2>3, CountKept DEF ScanAge, NextSlot
  <2>4. CASE TimeoutAcquire
    BY <2>4, CountKept DEF TimeoutAcquire, Acquire, Missed, NextSlot
  <2>5. CASE TimeoutRecheck
    BY <2>5, CountKept DEF TimeoutRecheck, StillExpired, Release, NextSlot
  <2>6. CASE TimeoutCount
    BY <2>6, CountRemoved DEF TimeoutCount, Release, NextSlot
  <2> QED BY <1>8, <2>1, <2>2, <2>3, <2>4, <2>5, <2>6 DEF HealthStep
<1>9. CASE UNCHANGED vars
  BY <1>9, CountKept DEF vars, slotVars, localVars
<1> QED
  BY <1>1, <1>2, <1>3, <1>4, <1>5, <1>6, <1>7, <1>8, <1>9
  DEF Next, ClientStep, ResponderStep

-----------------------------------------------------------------------------
(* Where a query is.                                                       *)

\* Where a thread has a query in its local state.
Holding == {"pick", "saveAcquire", "saveCount", "saveWrite", "returned",
            "match", "restoreAcquire", "restoreCheck"}

\* A query is stored in slot s: inUse says so, except between the two stores of
\* an owner that is moving a query in or out.
Filled(s) ==
    \/ OwnerAt(s, {"toCount"})
    \/ inUse[s] /\ ~ OwnerAt(s, {"saveWrite", "getClear"})

\* The threads and the slots have a query where their state says they do.
Placed ==
    /\ \A t \in Threads : pc[t] \in Holding => hand[t] # NoQuery
    /\ \A t \in Threads : hand[t] # NoQuery => pc[t] \in Holding \cup {"getClear"}
    /\ \A s \in Slots : internal[s] # NoQuery <=> Filled(s)

\* No query is in two places.
Unshared ==
    /\ \A t, u \in Threads : hand[t] = hand[u] /\ hand[t] # NoQuery => t = u
    /\ \A s, r \in Slots :
           internal[s] = internal[r] /\ internal[s] # NoQuery => s = r
    /\ \A t \in Threads, s \in Slots : hand[t] = internal[s] => hand[t] = NoQuery

\* The queries that are somewhere are the pending ones.
Kept ==
    \A q \in Queries :
        outcome[q] = "pending" <=> \/ \E t \in Threads : hand[t] = q
                                   \/ \E s \in Slots : internal[s] = q

\* The guards keep the slots and their inUse together.
LEMMA PlacedStep ==
    ASSUME TypeOK, GuardDiscipline, Placed, [Next]_vars
    PROVE  Placed'
<1> USE SlotsFinite, ThreadKinds, QueryAssumption
    DEF TypeOK, SlotTypes, ThreadTypes, GuardDiscipline, GuardedPoints, Goto,
        Placed, Holding, Filled, OwnerAt
<1>1. ASSUME NEW c \in Clients, NEW q \in Queries, Assign(c, q)
      PROVE  Placed'
  BY <1>1 DEF Assign, slotVars
<1>2. ASSUME NEW c \in Clients, SaveStep(c)
      PROVE  Placed'
  <2>1. CASE SavePick(c)
    BY <2>1 DEF SavePick, slotVars
  <2>2. CASE SaveAcquire(c)
    BY <2>2 DEF SaveAcquire, Acquire, Missed, localVars
  <2>3. CASE SaveCount(c)
    BY <2>3 DEF SaveCount, Reusing, localVars
  <2>4. CASE SaveWrite(c)
    BY <2>4 DEF SaveWrite, Release
  <2> QED BY <1>2, <2>1, <2>2, <2>3, <2>4 DEF SaveStep
<1>3. ASSUME NEW c \in Clients, SendStep(c)
      PROVE  Placed'
  <2>1. CASE SendQuery(c)
    BY <2>1 DEF SendQuery, Finish, slotVars
  <2>2. CASE SendError(c)
    BY <2>2 DEF SendError, slotVars, localVars
  <2>3. CASE TakeBack(c)
    BY <2>3 DEF TakeBack, Finish, slotVars
  <2> QED BY <1>3, <2>1, <2>2, <2>3 DEF SendStep
<1>4. ASSUME NEW t \in Clients \cup Responders, GetStep(t)
      PROVE  Placed'
  <2>1. CASE GetAcquire(t)
    BY <2>1 DEF GetAcquire, Acquire, Missed, Finish, localVars
  <2>2. CASE GetTake(t)
    BY <2>2 DEF GetTake
  <2>3. CASE GetClear(t)
    BY <2>3 DEF GetClear, Release, Finish, localVars
  <2> QED BY <1>4, <2>1, <2>2, <2>3 DEF GetStep
<1>5. ASSUME NEW r \in Responders, NEW q \in Queries, Receive(r, q)
      PROVE  Placed'
  BY <1>5 DEF Receive, slotVars
<1>6. ASSUME NEW r \in Responders, MatchStep(r)
      PROVE  Placed'
  BY <1>6 DEF MatchStep, Answer, Mismatch, Finish, slotVars, localVars
<1>7. ASSUME NEW r \in Responders, RestoreStep(r)
      PROVE  Placed'
  <2>1. CASE RestoreAcquire(r)
    BY <2>1 DEF RestoreAcquire, Acquire, Missed, Finish, localVars
  <2>2. CASE RestoreCheck(r) /\ AlreadyUsed(sel[r])
    BY <2>2 DEF RestoreCheck, AlreadyUsed, Release, Finish
  <2>3. CASE RestoreCheck(r) /\ ~ AlreadyUsed(sel[r])
    BY <2>3 DEF RestoreCheck, AlreadyUsed
  <2>4. CASE RestoreCount(r)
    BY <2>4 DEF RestoreCount, Release, Finish
  <2> QED BY <1>7, <2>1, <2>2, <2>3, <2>4 DEF RestoreStep
<1>8. ASSUME HealthStep
      PROVE  Placed'
  <2>1. CASE ScanStart
    BY <2>1 DEF ScanStart, slotVars
  <2>2. CASE ScanVisit
    BY <2>2 DEF ScanVisit, NextSlot, slotVars
  <2>3. CASE ScanAge
    BY <2>3 DEF ScanAge, NextSlot
  <2>4. CASE TimeoutAcquire
    BY <2>4 DEF TimeoutAcquire, Acquire, Missed, NextSlot
  <2>5. CASE TimeoutRecheck
    BY <2>5 DEF TimeoutRecheck, StillExpired, Release, NextSlot
  <2>6. CASE TimeoutCount
    <3>1. /\ hand' = hand
          /\ \A t \in Threads \ {Health} : pc'[t] = pc[t]
          /\ pc[Health] = "toCount" /\ pc'[Health] \in {"visit", "idle"}
      BY <2>6 DEF TimeoutCount, NextSlot
    <3>2. \A s \in Slots : internal'[s] # NoQuery <=> Filled(s)'
      BY <2>6, <3>1 DEF TimeoutCount, Release
    <3> QED BY <3>1, <3>2
  <2> QED BY <1>8, <2>1, <2>2, <2>3, <2>4, <2>5, <2>6 DEF HealthStep
<1>9. CASE UNCHANGED vars
  BY <1>9 DEF vars, slotVars, localVars
<1> QED
  BY <1>1, <1>2, <1>3, <1>4, <1>5, <1>6, <1>7, <1>8, <1>9
  DEF Next, ClientStep, ResponderStep

\* The ways a query moves: it stays where it is ...
LEMMA PlacesKept ==
    ASSUME Unshared, Kept, hand' = hand, internal' = internal, outcome' = outcome
    PROVE  Unshared' /\ Kept'
  BY DEF Unshared, Kept

\* ... a client thread takes it over ...
LEMMA PlacesTaken ==
    ASSUME TypeOK, Unshared, Kept,
           NEW t \in Threads, NEW q \in Queries,
           hand[t] = NoQuery, outcome[q] = "new",
           hand' = [hand EXCEPT ![t] = q], internal' = internal,
           outcome' = [outcome EXCEPT ![q] = "pending"]
    PROVE  Unshared' /\ Kept'
<1> USE QueryAssumption DEF TypeOK, SlotTypes, ThreadTypes, QueryTypes
<1>1. /\ \A u \in Threads : hand[u] # q
      /\ \A s \in Slots : internal[s] # q
  BY DEF Kept
<1>2. Unshared'
  BY <1>1 DEF Unshared
<1>3. Kept'
  BY <1>1 DEF Kept
<1> QED BY <1>2, <1>3

\* ... a thread moves it into a slot ...
LEMMA PlacesStored ==
    ASSUME TypeOK, Unshared, Kept,
           NEW t \in Threads, NEW s \in Slots,
           hand[t] # NoQuery, internal[s] = NoQuery,
           hand' = [hand EXCEPT ![t] = NoQuery],
           internal' = [internal EXCEPT ![s] = hand[t]], outcome' = outcome
    PROVE  Unshared' /\ Kept'
<1> USE QueryAssumption DEF TypeOK, SlotTypes, ThreadTypes, QueryTypes
<1>1. Unshared'
  BY DEF Unshared
<1>2. Kept'
  <2> SUFFICES ASSUME NEW q \in Queries
               PROVE  outcome[q] = "pending" <=> \/ \E u \in Threads : hand'[u] = q
                                                 \/ \E r \in Slots : internal'[r] = q
    BY DEF Kept
  <2>1. CASE q = hand[t]
    BY <2>1 DEF Kept
  <2>2. CASE q # hand[t]
    BY <2>2 DEF Kept
  <2> QED BY <2>1, <2>2
<1> QED BY <1>1, <1>2

\* ... or out of one ...
LEMMA PlacesLoaded ==
    ASSUME TypeOK, Unshared, Kept,
           NEW t \in Threads, NEW s \in Slots,
           hand[t] = NoQuery, internal[s] # NoQuery,
           hand' = [hand EXCEPT ![t] = internal[s]],
           internal' = [internal EXCEPT ![s] = NoQuery], outcome' = outcome
    PROVE  Unshared' /\ Kept'
<1> USE QueryAssumption DEF TypeOK, SlotTypes, ThreadTypes, QueryTypes
<1>1. Unshared'
  BY DEF Unshared
<1>2. Kept'
  <2> SUFFICES ASSUME NEW q \in Queries
               PROVE  outcome[q] = "pending" <=> \/ \E u \in Threads : hand'[u] = q
                                                 \/ \E r \in Slots : internal'[r] = q
    BY DEF Kept
  <2>1. CASE q = internal[s]
    BY <2>1 DEF Kept
  <2>2. CASE q # internal[s]
    BY <2>2 DEF Kept
  <2> QED BY <2>1, <2>2
<1> QED BY <1>1, <1>2

\* ... it is resolved by the thread that has it ...
LEMMA PlacesLeftHand ==
    ASSUME TypeOK, Unshared, Kept, NEW t \in Threads, NEW how,
           hand[t] # NoQuery, how # "pending",
           hand' = [hand EXCEPT ![t] = NoQuery], internal' = internal,
           outcome' = [outcome EXCEPT ![hand[t]] = how]
    PROVE  Unshared' /\ Kept'
<1> USE QueryAssumption DEF TypeOK, SlotTypes, ThreadTypes, QueryTypes
<1>1. Unshared'
  BY DEF Unshared
<1>2. Kept'
  <2> SUFFICES ASSUME NEW q \in Queries
               PROVE  outcome'[q] = "pending" <=> \/ \E u \in Threads : hand'[u] = q
                                                  \/ \E r \in Slots : internal'[r] = q
    BY DEF Kept
  <2>1. CASE q = hand[t]
    BY <2>1 DEF Unshared
  <2>2. CASE q # hand[t]
    BY <2>2 DEF Kept
  <2> QED BY <2>1, <2>2
<1> QED BY <1>1, <1>2

\* ... or by the owner of the slot that has it.
LEMMA PlacesLeftSlot ==
    ASSUME TypeOK, Unshared, Kept, NEW s \in Slots, NEW how,
           internal[s] # NoQuery, how # "pending",
           internal' = [internal EXCEPT ![s] = NoQuery], hand' = hand,
           outcome' = [outcome EXCEPT ![internal[s]] = how]
    PROVE  Unshared' /\ Kept'
<1> USE QueryAssumption DEF TypeOK, SlotTypes, ThreadTypes, QueryTypes
<1>1. Unshared'
  BY DEF Unshared
<1>2. Kept'
  <2> SUFFICES ASSUME NEW q \in Queries
               PROVE  outcome'[q] = "pending" <=> \/ \E u \in Threads : hand'[u] = q
                                                  \/ \E r \in Slots : internal'[r] = q
    BY DEF Kept
  <2>1. CASE q = internal[s]
    BY <2>1 DEF Unshared
  <2>2. CASE q # internal[s]
    BY <2>2 DEF Kept
  <2> QED BY <2>1, <2>2
<1> QED BY <1>1, <1>2

\* A thread without a query that gives up its local state keeps its hand.
LEMMA FinishKeepsHand ==
    ASSUME ThreadTypes, NEW t \in Threads, Finish(t), hand[t] = NoQuery
    PROVE  hand' = hand
  BY DEF ThreadTypes, Finish

\* What each step does to the query it is about is one of these moves.
LEMMA KeptStep ==
    ASSUME TypeOK, GuardDiscipline, Placed, Unshared, Kept, [Next]_vars
    PROVE  Unshared' /\ Kept'
<1> USE SlotsFinite, ThreadKinds, QueryAssumption
<1>0. /\ \A t \in Threads : sel[t] \in Slots
      /\ ThreadTypes
  BY DEF TypeOK, ThreadTypes
<1>a. ASSUME NEW t \in Threads, Finish(t)
      PROVE  hand' = [hand EXCEPT ![t] = NoQuery]
  BY <1>a DEF Finish
<1>1. ASSUME NEW c \in Clients, NEW q \in Queries, Assign(c, q)
      PROVE  Unshared' /\ Kept'
  <2>1. hand[c] = NoQuery
    BY <1>1 DEF Assign, Placed, Holding
  <2> QED BY <1>1, <2>1, PlacesTaken DEF Assign, slotVars
<1>2. ASSUME NEW c \in Clients, SaveStep(c)
      PROVE  Unshared' /\ Kept'
  <2>1. CASE SavePick(c)
    BY <2>1, PlacesKept DEF SavePick, slotVars, queryVars
  <2>2. CASE SaveAcquire(c)
    BY <2>2, PlacesKept DEF SaveAcquire, localVars, queryVars
  <2>3. CASE SaveCount(c) /\ Reusing(sel[c])
    <3>1. internal[sel[c]] # NoQuery
      BY <1>0, <2>3 DEF SaveCount, Reusing, Placed, Filled, OwnerAt,
         GuardDiscipline, GuardedPoints
    <3> QED BY <1>0, <2>3, <3>1, PlacesLeftSlot DEF SaveCount, Resolve, localVars
  <2>4. CASE SaveCount(c) /\ ~ Reusing(sel[c])
    BY <2>4, PlacesKept DEF SaveCount, localVars
  <2>5. CASE SaveWrite(c)
    <3>1. hand[c] # NoQuery /\ internal[sel[c]] = NoQuery
      BY <1>0, <2>5 DEF SaveWrite, Placed, Filled, Holding, OwnerAt,
         GuardDiscipline, GuardedPoints
    <3> QED BY <1>0, <2>5, <3>1, PlacesStored DEF SaveWrite
  <2> QED BY <1>2, <2>1, <2>2, <2>3, <2>4, <2>5 DEF SaveStep
<1>3. ASSUME NEW c \in Clients, SendStep(c)
      PROVE  Unshared' /\ Kept'
  <2>1. CASE SendQuery(c)
    <3>1. hand[c] = NoQuery
      BY <2>1 DEF SendQuery, Placed, Holding
    <3> QED BY <1>0, <2>1, <3>1, FinishKeepsHand, PlacesKept DEF SendQuery, slotVars
  <2>2. CASE SendError(c)
    BY <2>2, PlacesKept DEF SendError, slotVars, localVars, queryVars
  <2>3. CASE TakeBack(c)
    <3>1. hand[c] # NoQuery
      BY <2>3 DEF TakeBack, Placed, Holding
    <3> QED BY <1>a, <2>3, <3>1, PlacesLeftHand DEF TakeBack, Resolve, slotVars
  <2> QED BY <1>3, <2>1, <2>2, <2>3 DEF SendStep
<1>4. ASSUME NEW t \in Clients \cup Responders, GetStep(t)
      PROVE  Unshared' /\ Kept'
  <2>0. t \in Threads
    OBVIOUS
  <2>1. CASE GetAcquire(t)
    <3>1. hand[t] = NoQuery
      BY <2>0, <2>1 DEF GetAcquire, Placed, Holding
    <3>2. hand' = hand
      BY <1>0, <2>0, <2>1, <3>1, FinishKeepsHand DEF GetAcquire, localVars
    <3> QED BY <2>1, <3>2, PlacesKept DEF GetAcquire, queryVars
  <2>2. CASE GetTake(t) /\ inUse[sel[t]]
    <3>1. hand[t] = NoQuery /\ internal[sel[t]] # NoQuery
      BY <1>0, <2>0, <2>2 DEF GetTake, Placed, Filled, Holding, OwnerAt,
         GuardDiscipline, GuardedPoints
    <3> QED BY <1>0, <2>0, <2>2, <3>1, PlacesLoaded DEF GetTake, queryVars
  <2>3. CASE GetTake(t) /\ ~ inUse[sel[t]]
    BY <2>3, PlacesKept DEF GetTake, queryVars
  <2>4. CASE GetClear(t)
    <3>1. hand' = hand
      BY <1>0, <2>0, <2>4, FinishKeepsHand DEF GetClear, localVars
    <3> QED BY <2>4, <3>1, PlacesKept DEF GetClear, queryVars
  <2> QED BY <1>4, <2>1, <2>2, <2>3, <2>4 DEF GetStep
<1>5. ASSUME NEW r \in Responders, NEW q \in Queries, Receive(r, q)
      PROVE  Unshared' /\ Kept'
  BY <1>5, PlacesKept DEF Receive, slotVars
<1>6. ASSUME NEW r \in Responders, MatchStep(r)
      PROVE  Unshared' /\ Kept'
  <2>1. CASE Answer(r)
    <3>1. hand[r] # NoQuery
      BY <2>1 DEF Answer, Placed, Holding
    <3> QED BY <1>a, <2>1, <3>1, PlacesLeftHand DEF Answer, Resolve, slotVars
  <2>2. CASE Mismatch(r)
    BY <2>2, PlacesKept DEF Mismatch, slotVars, localVars, queryVars
  <2> QED BY <1>6, <2>1, <2>2 DEF MatchStep
<1>7. ASSUME NEW r \in Responders, RestoreStep(r)
      PROVE  Unshared' /\ Kept'
  <2>1. CASE RestoreAcquire(r)
    <3>1. hand[r] # NoQuery
      BY <2>1 DEF RestoreAcquire, Placed, Holding
    <3>2. CASE UNCHANGED <<localVars, outcome>>
      BY <2>1, <3>2, PlacesKept DEF RestoreAcquire, localVars
    <3>3. CASE Resolve(hand[r], "reused") /\ Finish(r)
      BY <1>a, <2>1, <3>1, <3>3, PlacesLeftHand DEF RestoreAcquire, Resolve
    <3> QED BY <2>1, <3>2, <3>3 DEF RestoreAcquire
  <2>2. CASE RestoreCheck(r) /\ AlreadyUsed(sel[r])
    <3>1. hand[r] # NoQuery
      BY <2>2 DEF RestoreCheck, Placed, Holding
    <3> QED BY <1>a, <2>2, <3>1, PlacesLeftHand DEF RestoreCheck, Resolve
  <2>3. CASE RestoreCheck(r) /\ ~ AlreadyUsed(sel[r])
    <3>1. hand[r] # NoQuery /\ internal[sel[r]] = NoQuery
      BY <1>0, <2>3 DEF RestoreCheck, AlreadyUsed, Placed, Filled, Holding,
         OwnerAt, GuardDiscipline, GuardedPoints
    <3> QED BY <1>0, <2>3, <3>1, PlacesStored DEF RestoreCheck
  <2>4. CASE RestoreCount(r)
    <3>1. hand[r] = NoQuery
      BY <2>4 DEF RestoreCount, Placed, Holding
    <3> QED BY <1>0, <2>4, <3>1, FinishKeepsHand, PlacesKept
            DEF RestoreCount, queryVars
  <2> QED BY <1>7, <2>1, <2>2, <2>3, <2>4 DEF RestoreStep
<1>8. ASSUME HealthStep
      PROVE  Unshared' /\ Kept'
  <2>1. CASE ScanStart
    BY <2>1, PlacesKept DEF ScanStart, slotVars
  <2>2. CASE ScanVisit
    BY <2>2, PlacesKept DEF ScanVisit, slotVars, queryVars
  <2>3. CASE ScanAge
    BY <2>3, PlacesKept DEF ScanAge, queryVars
  <2>4. CASE TimeoutAcquire
    BY <2>4, PlacesKept DEF TimeoutAcquire, queryVars
  <2>5. CASE TimeoutRecheck
    BY <2>5, PlacesKept DEF TimeoutRecheck, queryVars
  <2>6. CASE TimeoutCount
    <3>1. internal[sel[Health]] # NoQuery
      BY <1>0, <2>6 DEF TimeoutCount, Placed, Filled, OwnerAt,
         GuardDiscipline, GuardedPoints
    <3> QED BY <1>0, <2>6, <3>1, PlacesLeftSlot DEF TimeoutCount, Resolve
  <2> QED BY <1>8, <2>1, <2>2, <2>3, <2>4, <2>5, <2>6 DEF HealthStep
<1>9. CASE UNCHANGED vars
  BY <1>9, PlacesKept DEF vars, slotVars, localVars, queryVars
<1> QED
  BY <1>1, <1>2, <1>3, <1>4, <1>5, <1>6, <1>7, <1>8, <1>9
  DEF Next, ClientStep, ResponderStep

-----------------------------------------------------------------------------
(* How old a query is.                                                     *)

\* Slot s has q, or a responder thread that took q from s may put it back.
At(s, q) == internal[s] = q \/ \E r \in Responders : hand[r] = q /\ sel[r] = s

\* The scan that is going on, if any, will not come to slot s any more.
Passed(s) == pc[Health] = "idle" \/ s < sel[Health]

\* A slot is no older than the scans started since its query was stored; a
\* query stored while a scan was on its way to the slot is one scan ahead.
AgeFollowsScans ==
    /\ pc[Health] \in HealthPoints
    /\ \A s \in Slots, q \in Queries :
           At(s, q) => age[s] <= scans[q] + (IF Passed(s) THEN 1 ELSE 0)
    /\ pc[Health] = "toCount" => scans[internal[sel[Health]]] > UdpTimeout

\* A step of another thread that neither ages a slot nor moves a query to it.
LEMMA AgeKept ==
    ASSUME TypeOK, AgeFollowsScans, age' = age, scans' = scans,
           pc'[Health] = pc[Health], sel'[Health] = sel[Health],
           pc[Health] = "toCount" => internal'[sel[Health]] = internal[sel[Health]],
           \A s \in Slots, q \in Queries : At(s, q)' => At(s, q)
    PROVE  AgeFollowsScans'
  BY ThreadKinds DEF AgeFollowsScans, Passed

\* On to the next slot: the scan has passed this one, and none that it had
\* passed is ahead of it again.
LEMMA ScanPasses ==
    ASSUME TypeOK, NextSlot, pc[Health] # "idle"
    PROVE  /\ pc'[Health] \in {"visit", "idle"}
           /\ \A t \in Threads \ {Health} : pc'[t] = pc[t] /\ sel'[t] = sel[t]
           /\ \A s \in Slots : Passed(s) \/ s = sel[Health] => Passed(s)'
<1>0. \A s \in Slots : s \in Int
  BY SlotAssumption DEF Slots
<1>1. CASE sel[Health] + 1 \in Slots
  <2>1. /\ pc'[Health] = "visit" /\ sel'[Health] = sel[Health] + 1
        /\ \A t \in Threads \ {Health} : pc'[t] = pc[t] /\ sel'[t] = sel[t]
    BY <1>1, ThreadKinds DEF TypeOK, ThreadTypes, NextSlot, Goto
  <2>2. \A s \in Slots : s <= sel[Health] => s < sel[Health] + 1
    BY <1>0, ThreadKinds DEF TypeOK, ThreadTypes
  <2> QED BY <1>0, <2>1, <2>2, ThreadKinds DEF Passed, TypeOK, ThreadTypes
<1>2. CASE sel[Health] + 1 \notin Slots
  BY <1>2, ThreadKinds DEF TypeOK, ThreadTypes, NextSlot, Goto, Passed
<1> QED BY <1>1, <1>2

\* Every step keeps the slots no older than the scans of their queries.
LEMMA AgeStep ==
    ASSUME TypeOK, GuardDiscipline, Placed, Unshared, Kept, AgeFollowsScans,
           [Next]_vars
    PROVE  AgeFollowsScans'
<1> USE SlotsFinite, ThreadKinds, QueryAssumption
<1> USE DEF Goto
<1>0. /\ ThreadTypes /\ SlotTypes /\ QueryTypes
      /\ \A t \in Threads : sel[t] \in Slots
  BY DEF TypeOK, ThreadTypes
<1>1. ASSUME NEW t \in Threads \ {Health}, age' = age, scans' = scans,
             \A u \in Threads \ {t} : pc'[u] = pc[u] /\ sel'[u] = sel[u] /\ hand'[u] = hand[u],
             \/ internal' = internal
             \/ /\ pc[t] \in GuardedPoints
                /\ \A s \in Slots \ {sel[t]} : internal'[s] = internal[s],
             \A s \in Slots, q \in Queries : At(s, q)' => At(s, q)
      PROVE  AgeFollowsScans'
  <2>1. pc[Health] = "toCount" => internal'[sel[Health]] = internal[sel[Health]]
    BY <1>0, <1>1 DEF GuardDiscipline, GuardedPoints
  <2> QED BY <1>1, <2>1, AgeKept
<1>2. ASSUME NEW t \in Threads \ {Health}, Finish(t)
      PROVE  \A u \in Threads \ {t} :
                 pc'[u] = pc[u] /\ sel'[u] = sel[u] /\ hand'[u] = hand[u]
  BY <1>0, <1>2 DEF Finish, ThreadTypes
<1>3. ASSUME NEW t \in Threads \ {Health}, hand'[t] = NoQuery,
             \A u \in Threads \ {t} : sel'[u] = sel[u] /\ hand'[u] = hand[u],
             internal' = internal
      PROVE  \A s \in Slots, q \in Queries : At(s, q)' => At(s, q)
  BY <1>3 DEF At
<1>4. ASSUME NEW t \in Threads \ {Health}, Finish(t)
      PROVE  hand'[t] = NoQuery
  BY <1>0, <1>4 DEF Finish, ThreadTypes
<1>5. ASSUME NEW c \in Clients, NEW q \in Queries, Assign(c, q)
      PROVE  AgeFollowsScans'
  <2>1. \A s \in Slots, p \in Queries : At(s, p)' => At(s, p)
    BY <1>0, <1>5 DEF Assign, slotVars, At, ThreadTypes
  <2> QED BY <1>0, <1>1, <1>5, <2>1 DEF Assign, slotVars, ThreadTypes
<1>6. ASSUME NEW c \in Clients, SaveStep(c)
      PROVE  AgeFollowsScans'
  <2>1. CASE SavePick(c)
    <3>1. \A s \in Slots, p \in Queries : At(s, p)' => At(s, p)
      BY <1>0, <2>1 DEF SavePick, slotVars, At, ThreadTypes
    <3> QED BY <1>0, <1>1, <2>1, <3>1 DEF SavePick, slotVars, queryVars, ThreadTypes
  <2>2. CASE SaveAcquire(c)
    <3>1. \A s \in Slots, p \in Queries : At(s, p)' => At(s, p)
      BY <1>0, <2>2 DEF SaveAcquire, localVars, At
    <3> QED BY <1>0, <1>1, <2>2, <3>1
            DEF SaveAcquire, Acquire, localVars, queryVars, ThreadTypes
  <2>3. CASE SaveCount(c)
    <3>1. \A s \in Slots, p \in Queries : At(s, p)' => At(s, p)
      BY <1>0, <2>3 DEF SaveCount, localVars, At, SlotTypes
    <3> QED BY <1>0, <1>1, <2>3, <3>1
            DEF SaveCount, localVars, GuardedPoints, ThreadTypes, SlotTypes
  <2>4. CASE SaveWrite(c)
    <3>1. /\ hand[c] \in Queries
          /\ pc[Health] = "toCount" => sel[Health] # sel[c]
      BY <1>0, <2>4 DEF SaveWrite, Placed, Holding, ThreadTypes,
                        GuardDiscipline, GuardedPoints
    <3>2. /\ pc'[Health] = pc[Health] /\ sel' = sel
          /\ \A s \in Slots \ {sel[c]} : age'[s] = age[s] /\ internal'[s] = internal[s]
          /\ age'[sel[c]] = 0
          /\ \A q \in Queries \ {hand[c]} : scans'[q] = scans[q]
          /\ \A q \in Queries : scans'[q] >= 0
      BY <1>0, <2>4 DEF SaveWrite, ThreadTypes, SlotTypes, QueryTypes
    <3>3. ASSUME NEW s \in Slots \ {sel[c]}, NEW q \in Queries, At(s, q)'
          PROVE  At(s, q) /\ q # hand[c]
      <4>1. At(s, q)
        BY <1>0, <2>4, <3>2, <3>3 DEF SaveWrite, At, ThreadTypes
      <4> QED BY <4>1, <3>1 DEF At, Unshared
    <3>4. \A s \in Slots, q \in Queries :
              At(s, q)' => age'[s] <= scans'[q] + (IF Passed(s)' THEN 1 ELSE 0)
      <4>1. ASSUME NEW s \in Slots, NEW q \in Queries, At(s, q)'
            PROVE  age'[s] <= scans'[q] + (IF Passed(s)' THEN 1 ELSE 0)
        <5>1. CASE s = sel[c]
          BY <1>0, <3>2, <5>1, <2>4 DEF SaveWrite, QueryTypes
        <5>2. CASE s # sel[c]
          BY <3>2, <3>3, <4>1, <5>2 DEF AgeFollowsScans, Passed
        <5> QED BY <5>1, <5>2
      <4> QED BY <4>1
    <3>5. pc[Health] = "toCount" => scans'[internal'[sel[Health]]] > UdpTimeout
      <4> SUFFICES ASSUME pc[Health] = "toCount"
                   PROVE  scans'[internal'[sel[Health]]] > UdpTimeout
        OBVIOUS
      <4>1. internal'[sel[Health]] = internal[sel[Health]]
        BY <1>0, <3>1, <3>2
      <4>2. internal[sel[Health]] \in Queries \ {hand[c]}
        BY <1>0, <3>1 DEF Placed, Filled, OwnerAt, GuardDiscipline, GuardedPoints,
                          Unshared, SlotTypes
      <4> QED BY <3>2, <4>1, <4>2 DEF AgeFollowsScans
    <3> QED BY <3>2, <3>4, <3>5 DEF AgeFollowsScans
  <2> QED BY <1>6, <2>1, <2>2, <2>3, <2>4 DEF SaveStep
<1>7. ASSUME NEW c \in Clients, SendStep(c)
      PROVE  AgeFollowsScans'
  <2>1. CASE SendQuery(c)
    BY <1>1, <1>2, <1>3, <1>4, <2>1 DEF SendQuery, slotVars
  <2>2. CASE SendError(c)
    <3>1. \A s \in Slots, p \in Queries : At(s, p)' => At(s, p)
      BY <2>2 DEF SendError, slotVars, localVars, At
    <3> QED BY <1>0, <1>1, <2>2, <3>1
            DEF SendError, slotVars, localVars, queryVars, ThreadTypes
  <2>3. CASE TakeBack(c)
    BY <1>1, <1>2, <1>3, <1>4, <2>3 DEF TakeBack, slotVars
  <2> QED BY <1>7, <2>1, <2>2, <2>3 DEF SendStep
<1>8. ASSUME NEW t \in Clients \cup Responders, GetStep(t)
      PROVE  AgeFollowsScans'
  <2>0. t \in Threads \ {Health}
    OBVIOUS
  <2>1. CASE GetAcquire(t)
    <3>1. CASE Finish(t)
      BY <1>1, <1>2, <1>3, <1>4, <2>0, <2>1, <3>1 DEF GetAcquire, queryVars
    <3>2. CASE Acquire(t, "getTake") /\ UNCHANGED localVars
      <4>1. \A s \in Slots, p \in Queries : At(s, p)' => At(s, p)
        BY <2>1, <3>2 DEF GetAcquire, localVars, At
      <4> QED BY <1>0, <1>1, <2>0, <2>1, <3>2, <4>1
              DEF GetAcquire, Acquire, localVars, queryVars, ThreadTypes
    <3> QED BY <2>1, <3>1, <3>2 DEF GetAcquire
  <2>2. CASE GetTake(t)
    <3>1. \A s \in Slots, p \in Queries : At(s, p)' => At(s, p)
      BY <1>0, <2>0, <2>2 DEF GetTake, At, ThreadTypes, SlotTypes
    <3> QED BY <1>0, <1>1, <2>0, <2>2, <3>1
            DEF GetTake, GuardedPoints, queryVars, ThreadTypes, SlotTypes
  <2>3. CASE GetClear(t)
    <3>1. CASE Finish(t)
      BY <1>1, <1>2, <1>3, <1>4, <2>0, <2>3, <3>1 DEF GetClear, queryVars
    <3>2. CASE UNCHANGED localVars /\ ~ Finish(t)
      <4>1. \A s \in Slots, p \in Queries : At(s, p)' => At(s, p)
        BY <2>3, <3>2 DEF GetClear, localVars, At
      <4> QED BY <1>0, <1>1, <2>0, <2>3, <3>2, <4>1
              DEF GetClear, localVars, queryVars, ThreadTypes
    <3> QED BY <2>3, <3>1, <3>2 DEF GetClear
  <2> QED BY <1>8, <2>1, <2>2, <2>3 DEF GetStep
<1>9. ASSUME NEW r \in Responders, NEW q \in Queries, Receive(r, q)
      PROVE  AgeFollowsScans'
  <2>1. hand[r] = NoQuery
    BY <1>9 DEF Receive, Placed, Holding
  <2> QED BY <1>0, <1>1, <1>3, <1>9, <2>1 DEF Receive, slotVars, ThreadTypes
<1>10. ASSUME NEW r \in Responders, MatchStep(r)
       PROVE  AgeFollowsScans'
  <2>1. CASE Answer(r)
    BY <1>1, <1>2, <1>3, <1>4, <2>1 DEF Answer, slotVars
  <2>2. CASE Mismatch(r)
    <3>1. \A s \in Slots, p \in Queries : At(s, p)' => At(s, p)
      BY <2>2 DEF Mismatch, slotVars, localVars, At
    <3> QED BY <1>0, <1>1, <2>2, <3>1
            DEF Mismatch, slotVars, localVars, queryVars, ThreadTypes
  <2> QED BY <1>10, <2>1, <2>2 DEF MatchStep
<1>11. ASSUME NEW r \in Responders, RestoreStep(r)
       PROVE  AgeFollowsScans'
  <2>1. CASE RestoreAcquire(r)
    <3>1. CASE Finish(r)
      BY <1>1, <1>2, <1>3, <1>4, <2>1, <3>1 DEF RestoreAcquire
    <3>2. CASE Acquire(r, "restoreCheck") /\ UNCHANGED localVars
      <4>1. \A s \in Slots, p \in Queries : At(s, p)' => At(s, p)
        BY <2>1, <3>2 DEF RestoreAcquire, localVars, At
      <4> QED BY <1>0, <1>1, <2>1, <3>2, <4>1
              DEF RestoreAcquire, Acquire, localVars, ThreadTypes
    <3> QED BY <2>1, <3>1, <3>2 DEF RestoreAcquire
  <2>2. CASE RestoreCheck(r) /\ AlreadyUsed(sel[r])
    BY <1>1, <1>2, <1>3, <1>4, <2>2 DEF RestoreCheck
  <2>3. CASE RestoreCheck(r) /\ ~ AlreadyUsed(sel[r])
    <3>1. \A s \in Slots, p \in Queries : At(s, p)' => At(s, p)
      BY <1>0, <2>3 DEF RestoreCheck, At, ThreadTypes, SlotTypes
    <3> QED BY <1>0, <1>1, <2>3, <3>1
            DEF RestoreCheck, GuardedPoints, ThreadTypes, SlotTypes
  <2>4. CASE RestoreCount(r)
    BY <1>1, <1>2, <1>3, <1>4, <2>4 DEF RestoreCount, queryVars
  <2> QED BY <1>11, <2>1, <2>2, <2>3, <2>4 DEF RestoreStep
<1>12. ASSUME HealthStep
       PROVE  AgeFollowsScans'
  <2>0. \A s \in Slots, q \in Queries : /\ age[s] \in 0 .. UdpTimeout + 1
                                        /\ scans[q] \in 0 .. UdpTimeout + 1
    BY <1>0 DEF SlotTypes, QueryTypes
  <2>1. CASE ScanStart
    <3>1. pc'[Health] = "visit" /\ sel'[Health] = 0
      BY <1>0, <2>1 DEF ScanStart, ThreadTypes
    <3>2. \A s \in Slots : ~ Passed(s)'
      BY <3>1, SlotAssumption DEF Passed, Slots
    <3>3. \A s \in Slots, q \in Queries : At(s, q)' => At(s, q)
      BY <1>0, <2>1 DEF ScanStart, slotVars, At, ThreadTypes
    <3>4. \A s \in Slots, q \in Queries : At(s, q) => outcome[q] = "pending"
      BY DEF At, Kept
    <3>5. \A s \in Slots, q \in Queries : At(s, q) => age[s] <= scans'[q]
      <4>1. ASSUME NEW s \in Slots, NEW q \in Queries, At(s, q)
            PROVE  age[s] <= scans'[q]
        <5>1. scans'[q] = IF scans[q] <= UdpTimeout THEN scans[q] + 1 ELSE scans[q]
          BY <2>1, <3>4, <4>1 DEF ScanStart
        <5>2. age[s] <= scans[q] + 1
          BY <2>0, <4>1 DEF AgeFollowsScans
        <5> QED BY <2>0, <5>1, <5>2, TimeoutAssumption
      <4> QED BY <4>1
    <3>6. age' = age
      BY <2>1 DEF ScanStart, slotVars
    <3>7. \A q \in Queries : scans'[q] \in Int
      BY <2>0, <2>1 DEF ScanStart
    <3> QED BY <2>0, <3>1, <3>2, <3>3, <3>5, <3>6, <3>7
            DEF AgeFollowsScans, HealthPoints, TimeoutPoints
  <2>2. ASSUME NextSlot, pc[Health] # "idle",
               hand' = hand, scans' = scans,
               \A s \in Slots : internal'[s] \in {internal[s], NoQuery},
               \A s \in Slots : \/ age'[s] = age[s]
                                \/ age'[s] = age[s] + 1 /\ s = sel[Health]
        PROVE  AgeFollowsScans'
    <3>1. \A s \in Slots, q \in Queries : At(s, q)' => At(s, q)
      BY <2>2, ScanPasses DEF At
    <3>2. \A s \in Slots, q \in Queries :
              At(s, q)' => age'[s] <= scans'[q] + (IF Passed(s)' THEN 1 ELSE 0)
      <4>1. ASSUME NEW s \in Slots, NEW q \in Queries, At(s, q)'
            PROVE  age'[s] <= scans'[q] + (IF Passed(s)' THEN 1 ELSE 0)
        <5>1. age[s] <= scans[q] + (IF Passed(s) THEN 1 ELSE 0)
          BY <3>1, <4>1 DEF AgeFollowsScans
        <5>2. Passed(s) \/ s = sel[Health] => Passed(s)'
          BY <2>2, ScanPasses
        <5>3. s = sel[Health] => ~ Passed(s)
          BY <1>0, <2>2, SlotAssumption DEF Passed, Slots
        <5> QED BY <2>0, <2>2, <5>1, <5>2, <5>3
      <4> QED BY <4>1
    <3> QED BY <2>2, <3>2, ScanPasses DEF AgeFollowsScans, HealthPoints, TimeoutPoints
  <2>3. ASSUME NEW point \in TimeoutPoints \ {"toCount"}, Goto(Health, point),
               pc[Health] # "idle",
               sel' = sel, hand' = hand, scans' = scans, internal' = internal,
               age' = age
        PROVE  AgeFollowsScans'
    <3>1. \A s \in Slots, q \in Queries : At(s, q)' => At(s, q)
      BY <2>3 DEF At
    <3>2. pc'[Health] = point
      BY <1>0, <2>3 DEF ThreadTypes
    <3>3. \A s \in Slots : Passed(s)' <=> Passed(s)
      BY <2>3, <3>2 DEF Passed, TimeoutPoints
    <3> QED BY <2>3, <3>1, <3>2, <3>3
            DEF AgeFollowsScans, HealthPoints, TimeoutPoints
  <2>4. CASE ScanVisit
    <3>1. CASE inUse[sel[Health]]
      BY <2>3, <2>4, <3>1 DEF ScanVisit, TimeoutPoints, slotVars, queryVars
    <3>2. CASE ~ inUse[sel[Health]]
      BY <2>2, <2>4, <3>2 DEF ScanVisit, slotVars, queryVars
    <3> QED BY <3>1, <3>2
  <2>5. CASE ScanAge
    <3>1. \A s \in Slots : \/ age'[s] = age[s]
                           \/ age'[s] = age[s] + 1 /\ s = sel[Health]
      BY <1>0, <2>5 DEF ScanAge, SlotTypes
    <3> QED BY <2>2, <2>5, <3>1 DEF ScanAge, queryVars
  <2>6. CASE TimeoutAcquire
    <3>1. CASE Acquire(Health, "toRecheck") /\ UNCHANGED sel
      BY <2>3, <2>6, <3>1 DEF TimeoutAcquire, Acquire, TimeoutPoints, queryVars
    <3>2. CASE NextSlot
      BY <2>2, <2>6, <3>2 DEF TimeoutAcquire, queryVars
    <3> QED BY <2>6, <3>1, <3>2 DEF TimeoutAcquire
  <2>7. CASE TimeoutRecheck /\ ~ StillExpired(sel[Health])
    BY <2>2, <2>7 DEF TimeoutRecheck, queryVars
  <2>8. CASE TimeoutRecheck /\ StillExpired(sel[Health])
    <3>1. /\ pc[Health] = "toRecheck" /\ pc'[Health] = "toCount"
          /\ sel' = sel /\ hand' = hand /\ scans' = scans /\ internal' = internal
          /\ age'[sel[Health]] = 0
          /\ \A s \in Slots \ {sel[Health]} : age'[s] = age[s]
      BY <1>0, <2>8 DEF TimeoutRecheck, ThreadTypes, SlotTypes, queryVars
    <3>2. \A s \in Slots, q \in Queries : At(s, q)' => At(s, q)
      BY <3>1 DEF At
    <3>3. \A s \in Slots : Passed(s)' <=> Passed(s)
      BY <3>1 DEF Passed
    <3>4. internal[sel[Health]] \in Queries
      BY <1>0, <2>8, <3>1 DEF StillExpired, Placed, Filled, OwnerAt,
                        GuardDiscipline, GuardedPoints, SlotTypes
    <3>5. age[sel[Health]] > UdpTimeout
      BY <2>8 DEF StillExpired, Expired
    <3>6. ~ Passed(sel[Health]) /\ At(sel[Health], internal[sel[Health]])
      BY <1>0, <3>1, SlotAssumption DEF Passed, At, Slots
    <3>7. age[sel[Health]] <= scans[internal[sel[Health]]]
      BY <1>0, <2>0, <3>4, <3>6 DEF AgeFollowsScans
    <3>8. scans[internal[sel[Health]]] > UdpTimeout
      BY <1>0, <2>0, <3>4, <3>5, <3>7, TimeoutAssumption
    <3>9. \A s \in Slots, q \in Queries :
              At(s, q)' => age'[s] <= scans'[q] + (IF Passed(s)' THEN 1 ELSE 0)
      <4>1. ASSUME NEW s \in Slots, NEW q \in Queries, At(s, q)'
            PROVE  age'[s] <= scans'[q] + (IF Passed(s)' THEN 1 ELSE 0)
        <5>1. age[s] <= scans[q] + (IF Passed(s) THEN 1 ELSE 0)
          BY <3>2, <4>1 DEF AgeFollowsScans
        <5> QED BY <2>0, <3>1, <3>3, <5>1
      <4> QED BY <4>1
    <3> QED BY <3>1, <3>8, <3>9 DEF AgeFollowsScans, HealthPoints, TimeoutPoints
  <2>9. CASE TimeoutCount
    <3>1. \A s \in Slots : internal'[s] \in {internal[s], NoQuery}
      BY <1>0, <2>9 DEF TimeoutCount, SlotTypes
    <3> QED BY <2>2, <2>9, <3>1 DEF TimeoutCount
  <2> QED BY <1>12, <2>1, <2>4, <2>5, <2>6, <2>7, <2>8, <2>9 DEF HealthStep
<1>13. CASE UNCHANGED vars
  BY <1>13, AgeKept DEF vars, slotVars, localVars, queryVars, At
<1> QED
  BY <1>5, <1>6, <1>7, <1>8, <1>9, <1>10, <1>11, <1>12, <1>13
  DEF Next, ClientStep, ResponderStep

-----------------------------------------------------------------------------
IInv ==
    /\ TypeOK /\ AgeBounded /\ GuardDiscipline /\ OutstandingExact
    /\ Placed /\ Unshared /\ Kept /\ AgeFollowsScans

\* An idle, empty table satisfies the invariant.
LEMMA InitIInv == Init => IInv
<1> SUFFICES ASSUME Init PROVE IInv
  OBVIOUS
<1>1. TypeOK
  BY SlotsFinite, TimeoutAssumption, CopiesAssumption
  DEF Init, TypeOK, SlotTypes, ThreadTypes, QueryTypes, Points, ClientPoints
<1>2. AgeBounded /\ GuardDiscipline
  BY ThreadKinds DEF Init, AgeBounded, GuardDiscipline, GuardedPoints
<1>3. {s \in Slots : Counted(s)} = {}
  BY DEF Init, Counted, OwnerAt
<1>4. OutstandingExact
  BY <1>3, FS_EmptySet DEF Init, OutstandingExact
<1>5. Placed /\ Unshared /\ Kept
  BY QueryAssumption DEF Init, Placed, Holding, Filled, OwnerAt, Unshared, Kept
<1>6. AgeFollowsScans
  BY ThreadKinds, QueryAssumption
  DEF Init, AgeFollowsScans, At, HealthPoints
<1> QED BY <1>1, <1>2, <1>4, <1>5, <1>6 DEF IInv

\* The strengthened invariant holds in every reachable state.
LEMMA InductiveInvariant == Spec => []IInv
<1>1. IInv /\ [Next]_vars => IInv'
  BY TypeStep, GuardStep, CountStep, PlacedStep, KeptStep, AgeStep DEF IInv
<1> QED BY InitIInv, <1>1, PTL DEF Spec

\* Types, and with them the bound on the age that is incremented without the
\* guard, for every number of threads, slots and queries.
THEOREM TypeCorrect == Spec => []TypeOK
  BY InductiveInvariant, PTL DEF IInv

\* The compare-and-swap guards of IDState exclude each other on every slot, and
\* what an owner has marked stays marked until it releases the slot.
THEOREM GuardsExclude == Spec => []GuardDiscipline
  BY InductiveInvariant, PTL DEF IInv

\* saveState, getState, restoreState and handleUDPTimeouts, however they
\* interleave, keep `outstanding` equal to the number of slots in use.
THEOREM OutstandingIsExact == Spec => []OutstandingExact
  BY InductiveInvariant, PTL DEF IInv

\* What is in one place only is there once, and what is nowhere is not pending.
LEMMA PlacesCounted ==
    ASSUME TypeOK, Unshared, Kept
    PROVE  Conserved
<1> SUFFICES ASSUME NEW q \in Queries
             PROVE  Cardinality({t \in Threads : hand[t] = q})
                      + Cardinality({s \in Slots : internal[s] = q})
                    = (IF outcome[q] = "pending" THEN 1 ELSE 0)
  BY DEF Conserved
<1> USE QueryAssumption
<1>0. Cardinality({}) = 0 /\ \A x : Cardinality({x}) = 1
  BY FS_Singleton, FS_EmptySet
<1>1. CASE \E t \in Threads : hand[t] = q
  <2>1. PICK t \in Threads : hand[t] = q
    BY <1>1
  <2>2. {u \in Threads : hand[u] = q} = {t} /\ {s \in Slots : internal[s] = q} = {}
    BY <2>1 DEF Unshared
  <2>3. outcome[q] = "pending"
    BY <2>1 DEF Kept
  <2>4. /\ Cardinality({u \in Threads : hand[u] = q}) = 1
        /\ Cardinality({s \in Slots : internal[s] = q}) = 0
    BY <1>0, <2>2
  <2> QED BY <2>3, <2>4
<1>2. CASE \E s \in Slots : internal[s] = q
  <2>1. PICK s \in Slots : internal[s] = q
    BY <1>2
  <2>2. {t \in Threads : hand[t] = q} = {} /\ {r \in Slots : internal[r] = q} = {s}
    BY <2>1 DEF Unshared
  <2>3. outcome[q] = "pending"
    BY <2>1 DEF Kept
  <2>4. /\ Cardinality({t \in Threads : hand[t] = q}) = 0
        /\ Cardinality({r \in Slots : internal[r] = q}) = 1
    BY <1>0, <2>2
  <2> QED BY <2>3, <2>4
<1>3. CASE /\ ~ \E t \in Threads : hand[t] = q
           /\ ~ \E s \in Slots : internal[s] = q
  <2>1. {t \in Threads : hand[t] = q} = {} /\ {s \in Slots : internal[s] = q} = {}
    BY <1>3
  <2>2. outcome[q] # "pending"
    BY <1>3 DEF Kept
  <2> QED BY <1>0, <2>1, <2>2
<1> QED BY <1>1, <1>2, <1>3

\* However evictions, restores, failed sends and timeouts meet on a slot, no
\* query is lost, stored twice or resolved twice.
THEOREM Conservation == Spec => []Conserved
<1>1. IInv => Conserved
  BY PlacesCounted DEF IInv
<1> QED BY InductiveInvariant, <1>1, PTL

\* The resolution of a pending query is a step of the abstract specification.
LEMMA ResolveIsAbstract ==
    ASSUME TypeOK, NEW q \in Queries, NEW how \in InFlight!Outcomes,
           outcome[q] = "pending", Resolve(q, how)
    PROVE  InFlight!Next
<1>1. outcome' = [p \in Queries |-> IF p \in {q} THEN how ELSE outcome[p]]
  BY DEF TypeOK, QueryTypes, Resolve
<1>2. InFlight!Resolve({q}, how)
  BY <1>1 DEF InFlight!Resolve
<1> QED BY <1>2 DEF InFlight!Next

\* Every step takes over one query, resolves one, or leaves their outcomes alone.
LEMMA StepIsAbstract ==
    ASSUME IInv, [Next]_vars
    PROVE  [InFlight!Next]_outcome
<1> USE SlotsFinite, ThreadKinds, QueryAssumption
<1>0. /\ \A t \in Threads : sel[t] \in Slots /\ hand[t] \in Queries \cup {NoQuery}
      /\ \A s \in Slots : internal[s] \in Queries \cup {NoQuery}
  BY DEF IInv, TypeOK, ThreadTypes, SlotTypes
<1>1. ASSUME NEW t \in Threads, pc[t] \in Holding
      PROVE  hand[t] \in Queries /\ outcome[hand[t]] = "pending"
  BY <1>0, <1>1 DEF IInv, Placed, Kept
<1>2. ASSUME NEW t \in Threads,
             \/ pc[t] = "toCount"
             \/ pc[t] = "saveCount" /\ inUse[sel[t]]
      PROVE  internal[sel[t]] \in Queries /\ outcome[internal[sel[t]]] = "pending"
  BY <1>0, <1>2 DEF IInv, Placed, Filled, OwnerAt, Kept, GuardDiscipline, GuardedPoints
<1>3. ASSUME NEW t \in Threads, pc[t] \in Holding, NEW how \in InFlight!Outcomes,
             Resolve(hand[t], how)
      PROVE  InFlight!Next
  BY <1>1, <1>3, ResolveIsAbstract DEF IInv
<1>4. {"answered", "timeout", "reused", "returned"} \subseteq InFlight!Outcomes
  BY DEF InFlight!Outcomes
<1>5. ASSUME NEW c \in Clients, NEW q \in Queries, Assign(c, q)
      PROVE  InFlight!Next
  BY <1>5 DEF Assign, InFlight!Next, InFlight!Accept
<1>6. ASSUME NEW c \in Clients, SaveStep(c)
      PROVE  [InFlight!Next]_outcome
  <2>1. CASE SaveCount(c) /\ Reusing(sel[c])
    BY <1>0, <1>2, <1>4, <2>1, ResolveIsAbstract DEF SaveCount, Reusing, IInv
  <2>2. CASE SaveCount(c) /\ ~ Reusing(sel[c])
    BY <2>2 DEF SaveCount
  <2>3. CASE SavePick(c) \/ SaveAcquire(c) \/ SaveWrite(c)
    BY <2>3 DEF SavePick, SaveAcquire, SaveWrite, queryVars
  <2> QED BY <1>6, <2>1, <2>2, <2>3 DEF SaveStep
<1>7. ASSUME NEW c \in Clients, SendStep(c)
      PROVE  [InFlight!Next]_outcome
  <2>1. CASE TakeBack(c)
    BY <1>3, <1>4, <2>1 DEF TakeBack, Holding
  <2>2. CASE SendQuery(c) \/ SendError(c)
    BY <2>2 DEF SendQuery, SendError, queryVars
  <2> QED BY <1>7, <2>1, <2>2 DEF SendStep
<1>8. ASSUME NEW t \in Clients \cup Responders, GetStep(t)
      PROVE  outcome' = outcome
  BY <1>8 DEF GetStep, GetAcquire, GetTake, GetClear, queryVars
<1>9. ASSUME NEW r \in Responders, NEW q \in Queries, Receive(r, q)
      PROVE  outcome' = outcome
  BY <1>9 DEF Receive
<1>10. ASSUME NEW r \in Responders, MatchStep(r)
       PROVE  [InFlight!Next]_outcome
  <2>1. CASE Answer(r)
    BY <1>3, <1>4, <2>1 DEF Answer, Holding
  <2>2. CASE Mismatch(r)
    BY <2>2 DEF Mismatch, queryVars
  <2> QED BY <1>10, <2>1, <2>2 DEF MatchStep
<1>11. ASSUME NEW r \in Responders, RestoreStep(r)
       PROVE  [InFlight!Next]_outcome
  <2>1. CASE RestoreAcquire(r)
    BY <1>3, <1>4, <2>1 DEF RestoreAcquire, Holding
  <2>2. CASE RestoreCheck(r)
    BY <1>3, <1>4, <2>2 DEF RestoreCheck, Holding
  <2>3. CASE RestoreCount(r)
    BY <2>3 DEF RestoreCount, queryVars
  <2> QED BY <1>11, <2>1, <2>2, <2>3 DEF RestoreStep
<1>12. ASSUME HealthStep
       PROVE  [InFlight!Next]_outcome
  <2>1. CASE TimeoutCount
    BY <1>2, <1>4, <2>1, ResolveIsAbstract DEF TimeoutCount, IInv
  <2>2. CASE ScanStart \/ ScanVisit \/ ScanAge \/ TimeoutAcquire \/ TimeoutRecheck
    BY <2>2 DEF ScanStart, ScanVisit, ScanAge, TimeoutAcquire, TimeoutRecheck, queryVars
  <2> QED BY <1>12, <2>1, <2>2 DEF HealthStep
<1>13. CASE UNCHANGED vars
  BY <1>13 DEF vars, queryVars
<1> QED
  BY <1>5, <1>6, <1>7, <1>8, <1>9, <1>10, <1>11, <1>12, <1>13
  DEF Next, ClientStep, ResponderStep

\* The table of slots implements UDPInFlight: whatever the threads do, a query
\* is taken over once and resolved once.
THEOREM SlotsImplementInFlight == Spec => ImplementsInFlight
<1>1. Init => InFlight!Init
  BY DEF Init, InFlight!Init
<1>2. IInv /\ [Next]_vars => [InFlight!Next]_outcome
  BY StepIsAbstract
<1> QED BY InductiveInvariant, <1>1, <1>2, PTL DEF Spec, ImplementsInFlight, InFlight!Spec

\* handleUDPTimeouts gives up a query only in a scan that comes after
\* udpTimeout full ones since it was stored, although it looks at the age and
\* increments it without the slot's guard.
THEOREM TimeoutsAreDue == Spec => NotTimedOutEarly
<1> DEFINE Due == \A q \in Queries : outcome[q] # "timeout" /\ outcome'[q] = "timeout"
                                       => scans[q] > UdpTimeout
<1>1. ASSUME IInv, Next
      PROVE  Due
  <2> SUFFICES ASSUME NEW q \in Queries, outcome[q] # "timeout", outcome'[q] = "timeout"
               PROVE  scans[q] > UdpTimeout
    OBVIOUS
  <2> USE DEF Resolve
  <2>0. outcome \in [Queries -> {"new", "pending", "answered", "timeout",
                                "reused", "returned"}]
    BY <1>1 DEF IInv, TypeOK, QueryTypes
  <2>1. ASSUME NEW p, NEW how, how # "timeout"
        PROVE  outcome' # [outcome EXCEPT ![p] = how]
    BY <2>0, <2>1
  <2>2. ASSUME NEW c \in Clients, ClientStep(c) \/ \E p \in Queries : Assign(c, p)
        PROVE  FALSE
    BY <2>1, <2>2
    DEF ClientStep, SaveStep, SendStep, GetStep, Assign, SavePick, SaveAcquire,
        SaveCount, SaveWrite, SendQuery, SendError, TakeBack, GetAcquire,
        GetTake, GetClear, queryVars
  <2>3. ASSUME NEW r \in Responders, ResponderStep(r) \/ \E p \in Queries : Receive(r, p)
        PROVE  FALSE
    BY <2>1, <2>3
    DEF ResponderStep, GetStep, MatchStep, RestoreStep, Receive, GetAcquire,
        GetTake, GetClear, Answer, Mismatch, RestoreAcquire, RestoreCheck,
        RestoreCount, queryVars
  <2>4. ASSUME HealthStep
        PROVE  scans[q] > UdpTimeout
    <3>1. CASE TimeoutCount
      <4>1. q = internal[sel[Health]]
        BY <2>0, <3>1 DEF TimeoutCount
      <4> QED BY <1>1, <3>1, <4>1 DEF IInv, AgeFollowsScans, TimeoutCount
    <3>2. CASE ScanStart \/ ScanVisit \/ ScanAge \/ TimeoutAcquire \/ TimeoutRecheck
      BY <3>2 DEF ScanStart, ScanVisit, ScanAge, TimeoutAcquire, TimeoutRecheck, queryVars
    <3> QED BY <2>4, <3>1, <3>2 DEF HealthStep
  <2> QED BY <1>1, <2>2, <2>3, <2>4 DEF Next
<1>2. IInv /\ [Next]_vars => [Due]_vars
  BY <1>1
<1> QED BY InductiveInvariant, <1>2, PTL DEF Spec, NotTimedOutEarly

=============================================================================
